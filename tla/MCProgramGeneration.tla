------------------------ MODULE MCProgramGeneration ------------------------
(* Every body over one module, and every module of three statements over a few bodies. *)
EXTENDS ProgramGeneration

MCNames    == {"f", "g", "re", "len", "exec"}
MCCallees  == {"f", "g", "len"}
MCStmts    == 1..3
MCBuiltins == {"len"}
MCDynamic  == {"exec"}

Leaves == {<<Call("f")>>, <<Call("g")>>, <<Stmt("return", <<>>)>>, <<Stmt("fail", <<>>)>>,
           <<Stmt("read", <<>>)>>}
With(exc, regex, bind, stmts) ==
  [Stmt("raises", stmts) EXCEPT !.exc = exc, !.regex = regex, !.bind = bind]
Withs(inner) == {With(exc, regex, bind, stmts) :
  exc \in {"E", "AssertionError", "Exception"}, regex \in BOOLEAN, bind \in BOOLEAN, stmts \in inner}

Simple == {<<>>} \cup Leaves \cup {<<Call("f"), Call("g")>>}
Inner  == Simple \cup {<<s>> : s \in Withs(Leaves)}
                 \cup {<<Stmt(kind, stmts)>> : kind \in {"block", "subTest"}, stmts \in Simple}
First  == Withs(Inner) \cup {Stmt(kind, stmts) : kind \in {"block", "subTest"}, stmts \in Inner}
          \cup {[With("E", regex, FALSE, stmts) EXCEPT !.kind = "raisesCall"] :
                  regex \in BOOLEAN, stmts \in {<<>>, <<Call("f")>>}}
          \cup {Stmt(kind, <<Call("g")>>) : kind \in {"custom", "value", "odd", "readOther"}}
Last   == {<<>>, <<Stmt("read", <<>>)>>, <<Stmt("block", <<Stmt("read", <<>>)>>)>>, <<Call("len")>>,
           <<With("E", FALSE, TRUE, <<Call("len")>>)>>,
           <<With("Exception", FALSE, FALSE, <<Stmt("read", <<>>)>>)>>}
Methods == {<<first>> \o last : first \in First, last \in Last}

\* A module-level statement: what it binds and mentions; Def makes a definition, Change
\* may change one, Import is an import of re under the name it binds.
Shape(binds, uses, kind) == [binds |-> binds, uses |-> uses, kind |-> kind]
Def(binds, uses) == Shape(binds, uses, "def")
Change(uses)     == Shape({}, uses, "mutator")
Import(name)     == Shape({name}, {}, "import")
ModuleOf(shapes) ==
  [binds |-> [s \in MCStmts |-> shapes[s].binds], uses |-> [s \in MCStmts |-> shapes[s].uses],
   mutators |-> {s \in MCStmts : shapes[s].kind = "mutator"},
   imports |-> {s \in MCStmts : shapes[s].kind = "import"}]

Shapes == {Def({"f"}, {}), Def({"f"}, {"f"}), Def({"f"}, {"g"}), Def({"g"}, {"len"}), Def({"g"}, {"f"}),
           Def({"f", "g"}, {}), Change({"f"}), Change({"g"}), Change({"f", "g"}),
           Change({"g", "exec"}), Import("re"), Import("g")}
Given == ModuleOf(<<Def({"f"}, {"g"}), Def({"g"}, {"len"}), Import("re")>>)

Few == {<<Call("f")>>, <<Call("f"), Call("g")>>, <<With("E", TRUE, FALSE, <<Call("g")>>)>>}
MCModules == {ModuleOf(shapes) : shapes \in [MCStmts -> Shapes]}
MCFiles == {[body |-> b, mod |-> Given] : b \in Methods} \cup {[body |-> b, mod |-> m] : b \in Few, m \in MCModules}
=============================================================================
