-------------------------- MODULE ProgramGeneration --------------------------
(***************************************************************************)
(* One test method from selection to a generated program (StrataPython-    *)
(* Test/cpython_oracle): selector.select_file takes it or not, prepare.    *)
(* generate lowers it, collects the prelude and checks the result.  The    *)
(* class, its fixtures and its helpers are one body here.                  *)
(***************************************************************************)
EXTENDS AssertionLowering, Prelude

CONSTANTS Files,    \* a method's body and the module it stands in
          Builtins, \* names that need no definition
          Dynamic   \* exec, eval and their like

ASSUME GenerationAssumption ==
  /\ \A file \in Files :
       /\ file.mod \in Modules /\ file.body \in Body
       /\ \A s \in Inside[file.body] : s.kind \in Written
  /\ Builtins \cup Dynamic \cup Callees \cup {"re"} \subseteq Names

VARIABLES body,     \* the test method
          code,     \* what _Lower made of it
          importRe, \* generate put an import of re before the prelude
          outcome   \* "new", "rejected" (selector), "selected", "lowered", "emitted", "skipped"

vars == <<preludeVars, body, code, importRe, outcome>>

NoCode == Code(<<>>, 0, FALSE)

Init ==
  \E file \in Files :
    /\ mod = file.mod /\ body = file.body
    /\ PreludeInit
    /\ code = NoCode /\ importRe = FALSE /\ outcome = "new"

Called(stmts) == {s.of : s \in {t \in Inside[stmts] : t.kind = "call"}}

\* What the emitted class mentions: a pattern became a call of re.search.
Mentioned == Called(code.out)
             \cup (IF \E s \in Inside[code.out] : s.regex THEN {"re"} ELSE {})

\* select_file: every assertion lowers and every name the method uses is bound somewhere.
Unresolvable == \E n \in Called(body) \ Builtins : Binders(n) = {}
Select ==
  /\ outcome = "new"
  /\ outcome' = IF Lowerable(body) /\ ~Unresolvable THEN "selected" ELSE "rejected"
  /\ UNCHANGED <<preludeVars, body, code, importRe>>

\* _lower_method; a ValueError makes the method a skip.
Lower ==
  /\ outcome = "selected"
  /\ code' = LowerBlock[body][[next |-> 0, cm |-> 0]]
  /\ \/ /\ code'.ok
        /\ Begin(Mentioned')
        /\ outcome' = "lowered"
     \/ /\ ~code'.ok
        /\ outcome' = "skipped"
        /\ UNCHANGED preludeVars
  /\ UNCHANGED <<body, importRe>>

\* prelude_for
Collect ==
  /\ outcome = "lowered"
  /\ PreludeStep
  /\ UNCHANGED <<body, code, importRe, outcome>>

ImportsRe == "re" \in Mentioned /\ chosen \cap mod.imports = {}

\* The checks after the prelude, in generate's order.
Emit ==
  /\ outcome = "lowered" /\ phase = "done"
  /\ \/ /\ Generated(code) /\ NamesOf(chosen) \cap Dynamic = {}
        /\ importRe' = ImportsRe
        /\ outcome' = "emitted"
     \/ /\ ~Generated(code) \/ NamesOf(chosen) \cap Dynamic # {}
        /\ outcome' = "skipped"
        /\ UNCHANGED importRe
  /\ UNCHANGED <<preludeVars, body, code>>

Next == Select \/ Lower \/ Collect \/ Emit
Spec == Init /\ [][Next]_vars

\* generate runs on in the one thread of plan.py.
FairSpec == Spec /\ WF_vars(Collect \/ Emit)

-----------------------------------------------------------------------------
(* Properties *)

\* The variables hold values of their types.
TypeOK ==
  /\ PreludeTypeOK
  /\ importRe \in BOOLEAN
  /\ outcome \in {"new", "rejected", "selected", "lowered", "emitted", "skipped"}
  /\ outcome = "emitted" => code.ok /\ phase = "done"

\* What the calls of the method may do; a function it does not call does nothing.
Behaviours == {[n \in Callees |-> IF n \in Called(body) THEN does[n] ELSE "ok"] :
                 does \in [Called(body) -> Happens]}
ByUnittest(beh) == Unittest[body][Fresh(beh)]
ByLowered(beh)  == Plainly[code.out][Fresh(beh)]

\* A binding is read in the block that makes it: everywhere, or, where that is not asked,
\* inside the asserting withs that catch a NameError.
Scopes == [bound : BOOLEAN, strict : BOOLEAN]
ReadsInBlock[stmts \in Body] ==
  [scope \in Scopes |->
     \/ stmts = <<>>
     \/ LET s == Head(stmts)
        IN  /\ s.kind = "read" => scope.bound \/ ~scope.strict
            /\ ReadsInBlock[s.body][[scope EXCEPT !.strict = @ \/ (Asserting(s) /\ s.exc = "Exception")]]
            /\ ReadsInBlock[Tail(stmts)][[scope EXCEPT !.bound = @ \/ s.bind]]]
ReadsBound     == ReadsInBlock[body][[bound |-> FALSE, strict |-> TRUE]]
NoReadIsCaught == ReadsInBlock[body][[bound |-> FALSE, strict |-> FALSE]]

\* No with that binds cm has another one in its body: cm would go on naming the inner
\* manager, and a read after the block, which is rewritten for the outer one, means the inner.
NotRebound == \A s \in Inside[body] : s.bind => \A t \in Inside[s.body] : ~t.bind

\* What a return or a subTest in the body of an asserting with would change.
Straight == \A s \in Inside[body] :
              Asserting(s) => \A t \in Inside[s.body] : t.kind \notin {"return", "subTest"}

\* Whatever the class mentions is a builtin or is bound by the prelude, when the file
\* imports re under its own name only.
Supplied == Bound(chosen) \cup Builtins \cup (IF importRe THEN {"re"} ELSE {})
NamesSupplied == (\A s \in mod.imports : "re" \in mod.binds[s]) => Mentioned \subseteq Supplied

\* Where the one run passes, so does the other, with the same calls and exceptions read.
Follows(one, other) == Clean(one) => Clean(other) /\ other.log = one.log

\* Every test that passes under unittest passes as a program, which misses no name, runs the
\* same calls in the same order and reads the same exceptions: lowering makes no assertion
\* stronger and loses no step.  A return out of an asserting with and a subTest in one are
\* other matters, see LoweringIsTheAssertion, and so is a cm bound again, see CmIsTheBlocks.
NothingStronger ==
  outcome = "emitted" =>
    /\ NamesSupplied
    /\ Straight /\ ReadsBound /\ NotRebound =>
         \A beh \in Behaviours : Follows(ByUnittest(beh), ByLowered(beh))

\* A program that passes is a test that passes, where the asserting withs are straight, none
\* catches the NameError of a binding made in a block that ended and none binds cm around
\* another that does: lowering makes no assertion weaker, patterns and nested blocks included.
NothingWeaker ==
  outcome = "emitted" /\ Straight /\ NoReadIsCaught /\ NotRebound =>
    \A beh \in Behaviours : Follows(ByLowered(beh), ByUnittest(beh))

\* prepare.py:187-191 says that "`with ... as cm` binds the exception for the statements that
\* FOLLOW the block", and that cm.exception there "becomes the local the scaffold kept it in".
\* When a with in the block binds cm again, cm names that manager after the block too: the
\* test stops at the missing attribute, or reads another exception, where the program goes on.
CmIsTheBlocks ==
  outcome = "emitted" /\ Straight /\ NoReadIsCaught =>
    \A beh \in Behaviours : Follows(ByLowered(beh), ByUnittest(beh))

\* The search for a prelude ends, names that define one another included, and the method
\* gets its outcome.
Decided == outcome = "lowered" ~> outcome \in {"emitted", "skipped"}

\* lower.py:332-333 says of the scaffold that "the lowering is the assertion rather than an
\* approximation of it".  A return in the body of a with skips the assert after the try.
LoweringIsTheAssertion ==
  outcome = "emitted" =>
    \A beh \in Behaviours : Clean(ByLowered(beh)) => Clean(ByUnittest(beh))

\* selector.py:240 says the selection "has to agree with prepare.py exactly".  It accepts a
\* method that calls an assertion helper of its class, which generation refuses.
SelectionAgrees == outcome # "skipped"
=============================================================================
