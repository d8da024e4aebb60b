------------------------------ MODULE MCPrograms ------------------------------
(* The programs the statement interpreter is checked on: one try statement,   *)
(* with what its parts do chosen from small sets, placed plainly, in a while, *)
(* in a for, in the handler of another try, or in the body of one.            *)
EXTENDS StatementSoundness

MCMro == [cls \in Classes |->
            {cls, AnyClass} \cup (IF cls = "B" THEN {"A"} ELSE {})]
MCCategoryOf == [cls \in Classes |->
  CASE cls = "IndexError"        -> "index"
    [] cls = "UnboundLocalError" -> "dispatch"
    [] OTHER                     -> UserCategory]

None   == [k |-> "const", v |-> NoneScalar]
Object == [k |-> "const", v |-> ObjectScalar]
Number == [k |-> "const", v |-> IntScalar]
Name(x) == [k |-> "name", x |-> x]
Index  == [k |-> "partial", cls |-> "IndexError"]

Assign(x, e) == [k |-> "assign", x |-> x, e |-> e]
Expr(e)      == [k |-> "expr", e |-> e]
Delete(x)    == [k |-> "delete", x |-> x]
Pass         == [k |-> "pass"]
Raise(cls)   == [k |-> "raise", cls |-> cls]
BareRaise    == Raise(NoClass)
Return(e)    == [k |-> "return", e |-> e]
Break        == [k |-> "break"]
Continue     == [k |-> "continue"]
If(e, body, orelse)    == [k |-> "if", e |-> e, body |-> body, orelse |-> orelse]
While(e, body, orelse) == [k |-> "while", e |-> e, body |-> body, orelse |-> orelse]
For(x, elements, nonempty, body, orelse) ==
  [k |-> "for", x |-> x, elements |-> elements, nonempty |-> nonempty,
   body |-> body, orelse |-> orelse]
TryOf(body, handlers, orelse, final) ==
  [k |-> "try", body |-> body, handlers |-> handlers, orelse |-> orelse, final |-> final]
Clauses(cls, name, body) == <<[cls |-> cls, name |-> name, body |-> body]>>

\* 10: try: <11> <12>  except ...: <13>  else: <15>  finally: <16>
Inner(first, second, handlers, handled, orelse, final) ==
  10 :> TryOf(<<11, 12>>, handlers, IF orelse = Pass THEN <<>> ELSE <<15>>,
              IF final = Pass THEN <<>> ELSE <<16>>)
  @@ 11 :> first @@ 12 :> second @@ 13 :> handled @@ 15 :> orelse @@ 16 :> final
  @@ 17 :> Raise("A") @@ 18 :> Raise("B")

\* Where the try statement stands.  In the while, x and y carry values from one
\* iteration to the next.
Plain(nodes) ==
  [main |-> <<1, 10, 2>>, nodes |-> nodes @@ 1 :> Assign("x", None) @@ 2 :> Expr(Name("x"))]
InWhile(nodes) ==
  [main |-> <<1, 3, 2>>,
   nodes |-> nodes @@ 1 :> Assign("x", Number) @@ 3 :> While(Name("x"), <<7, 10, 4>>, <<5>>)
             @@ 7 :> Assign("y", Name("x")) @@ 4 :> Assign("x", Object) @@ 5 :> Assign("y", None)
             @@ 2 :> Expr(Name("y"))]
InForOver(elements, nonempty, nodes) ==
  [main |-> <<3, 2>>,
   nodes |-> nodes @@ 3 :> For("y", elements, nonempty, <<7, 10, 4>>, <<5>>)
             @@ 7 :> Assign("x", None) @@ 4 :> Expr(Name("x")) @@ 5 :> Return(None)
             @@ 2 :> Expr(Name("x"))]
InFor(nodes)  == InForOver({IntScalar}, TRUE, nodes)
InFew(nodes)  == InForOver({IntScalar, ObjectScalar}, FALSE, nodes)
InNone(nodes) == InForOver({}, FALSE, nodes)
InHandler(nodes) ==
  [main |-> <<1, 3>>,
   nodes |-> nodes @@ 1 :> Assign("x", None)
             @@ 3 :> TryOf(<<6>>, Clauses("B", "y", <<10, 4>>), <<>>, <<2>>)
             @@ 6 :> Raise("B") @@ 4 :> BareRaise @@ 2 :> Assign("y", Name("x"))]
InBody(nodes) ==
  [main |-> <<1, 3, 2>>,
   nodes |-> nodes @@ 1 :> Assign("x", None)
             @@ 3 :> TryOf(<<10>>, Clauses("IndexError", NoName, <<4>>), <<>>, <<>>)
             @@ 4 :> Assign("x", Object) @@ 2 :> Expr(Name("x"))]

Firsts   == {Assign("x", Index), Delete("x"), If(Index, <<17>>, <<18>>)}
Seconds  == {Pass, Expr(Index), Raise("A"), Raise("B"), Return(Name("x"))}
Handlers == {<<>>, Clauses("A", "e", <<13>>), Clauses(AnyClass, NoName, <<13>>),
             Clauses("B", NoName, <<13>>) \o Clauses("A", "e", <<15>>)}
Handled  == {Pass, BareRaise, Raise("A"), Assign("x", Name("x"))}
Orelses  == {Pass, Raise("B")}
Finals   == {Pass, Assign("x", Number), Raise("A"), Return(None)}
Jumps    == {Break, Continue}

Placed(Place(_), jumps) ==
  {Place(Inner(first, second, handlers, handled, orelse, final)) :
     first \in Firsts, second \in Seconds \cup jumps, handlers \in Handlers,
     handled \in Handled \cup jumps, orelse \in Orelses, final \in Finals \cup jumps}

TryPrograms  == Placed(Plain, {}) \cup Placed(InHandler, {}) \cup Placed(InBody, {})
LoopPrograms == Placed(InWhile, Jumps) \cup Placed(InFor, Jumps)
                \cup Placed(InFew, {}) \cup {InNone(Inner(Pass, Pass, <<>>, Pass, Pass, Pass))}
AllPrograms  == TryPrograms \cup LoopPrograms

\* A finally on a body that always raises.
FinallyPrograms == {Plain(Inner(Pass, Raise("A"), <<>>, Pass, Pass, Assign("x", Number)))}
\* A bare raise in the finally of a body that raises.
ReraisePrograms == {Plain(Inner(Pass, Raise("A"), <<>>, Pass, Pass, BareRaise))}

StrictAndAudit(program) == {{}, Categories}
=============================================================================
