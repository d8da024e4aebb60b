-------------------------- MODULE AssertionLowering --------------------------
(***************************************************************************)
(* What a unittest method means, and the plain program it is lowered to    *)
(* (StrataPythonTest/cpython_oracle: lower.py, prepare.py _Lower and       *)
(* _rewrite_cm, selector.py _lowerable).  A body is a sequence of          *)
(* statements with nested bodies; what a call does is given by a           *)
(* behaviour: it completes, or raises an exception of class E whose        *)
(* message the pattern matches ("E") or does not ("EOther"), or an         *)
(* AssertionError ("A").  An assertion that is one expression is a call    *)
(* that completes or raises "A"; a call is named by the function called.   *)
(* The walks over a body are functions on its head, the head's own body    *)
(* and its tail.                                                           *)
(***************************************************************************)
EXTENDS Naturals, Sequences

CONSTANTS Callees, \* the functions tests call
          Depth    \* how deep statements are nested

ASSUME DepthAssumption == Depth \in Nat

Exceptions == {"E", "EOther", "A", "NameError"}
Happens    == {"ok", "E", "EOther", "A"}

\* The classes an assertRaises may name, and what an except clause for one catches.
Classes == {"E", "AssertionError", "Exception"}
Catches(exc) == CASE exc = "E"              -> {"E", "EOther"}
                  [] exc = "AssertionError" -> {"A"}
                  [] exc = "Exception"      -> Exceptions

\* Statements of a test, and those of lowered code only: "reset" (the flag, and the local
\* that keeps the exception), "try", "assertFlag", "local" (reads the kept exception).
Written == {"call", "fail", "return", "read", "readOther", "block", "subTest", "raises",
            "raisesCall", "custom", "value", "odd"}
Emitted == {"assertFalse", "reset", "try", "assertFlag", "local"}
Asserting(s) == s.kind \in {"raises", "raisesCall"}

\* of is the function a call calls; id, in lowered code, the number of its scaffold.
Statements(bodies) ==
  {s \in [kind : Written \cup Emitted, of : Callees \cup {"none"}, id : Nat,
          exc : Classes \cup {"none"}, regex : BOOLEAN, bind : BOOLEAN, body : bodies] :
     /\ s.kind = "call" => s.of \in Callees
     /\ s.kind \in {"call", "fail", "return", "read"} => s.body = <<>>
     /\ Asserting(s) \/ s.kind = "try" => s.exc \in Classes
     /\ s.bind => s.kind \in {"raises", "reset", "try"}}
Bodies[d \in Nat] == IF d = 0 THEN {<<>>} ELSE Seq(Statements(Bodies[d - 1]))
Body == Bodies[Depth]

Stmt(kind, body) == [kind |-> kind, of |-> "none", id |-> 0, exc |-> "none", regex |-> FALSE,
                     bind |-> FALSE, body |-> body]
Call(name) == [Stmt("call", <<>>) EXCEPT !.of = name]

\* A run of a body: how it ends, whether a subTest failed on the way, how often cm was bound,
\* the exception the manager it names, the last one bound, holds, what was executed, which
\* handlers ran in the lowered program with the exception each kept, and what the calls do.
Held == Exceptions \cup {"none"}
Runs == [flow : {"normal", "return"} \cup Exceptions, failed : BOOLEAN, binds : Nat, cm : Held,
         log : Seq(Callees \cup Held), raised : SUBSET (Nat \X Held), beh : [Callees -> Happens]]
Fresh(beh) == [flow |-> "normal", failed |-> FALSE, binds |-> 0, cm |-> "none", log |-> <<>>,
               raised |-> {}, beh |-> beh]
Clean(run) == run.flow \in {"normal", "return"} /\ ~run.failed
Ends(run, flow) == [run EXCEPT !.flow = flow]
Logs(run, what) == [run EXCEPT !.log = Append(@, what)]

Does(run, name) == IF run.beh[name] = "ok" THEN Logs(run, name) ELSE Ends(run, run.beh[name])

-----------------------------------------------------------------------------
(* The method under unittest *)

\* A with names its manager cm before the body runs; it holds no exception yet.
Entered(run, s) == IF s.bind THEN [run EXCEPT !.binds = @ + 1, !.cm = "none"] ELSE run

\* assertRaises: a body that leaves without an exception of the class fails, and a return
\* leaves it so.  The manager takes the exception before it looks at the pattern; it is the
\* nth one bound, and cm names it no longer if a with of the body bound cm again.
Expected(run, s, n) ==
  IF run.flow \in {"normal", "return"} THEN Ends(run, "A")
  ELSE IF run.flow \notin Catches(s.exc) THEN run
  ELSE [run EXCEPT !.flow = IF s.regex /\ @ # "E" THEN "A" ELSE "normal",
                   !.cm = IF s.bind /\ run.binds = n THEN run.flow ELSE @]

\* A subTest reports what its body raised and goes on.
Reported(run) ==
  IF run.flow \in Exceptions THEN [run EXCEPT !.flow = "normal", !.failed = TRUE] ELSE run

\* within is what the statement's own body does.  A manager that holds no exception has no
\* attribute of that name; no clause tells an AttributeError from a NameError, which stands
\* for both.  No method with one of the kinds left out is lowered.
UnittestStmt(s, within, run) ==
  CASE s.kind = "call"    -> Does(run, s.of)
    [] s.kind = "fail"    -> Ends(run, "A")
    [] s.kind = "return"  -> Ends(run, "return")
    [] s.kind = "read"    -> IF run.cm = "none" THEN Ends(run, "NameError") ELSE Logs(run, run.cm)
    [] s.kind \in {"block", "custom"} -> within[run]
    [] s.kind = "subTest" -> Reported(within[run])
    [] Asserting(s)       -> Expected(within[Entered(run, s)], s, Entered(run, s).binds)
    [] OTHER              -> run

Unittest[body \in Body] ==
  [run \in Runs |->
     IF body = <<>> \/ run.flow # "normal" THEN run
     ELSE Unittest[Tail(body)][UnittestStmt(Head(body), Unittest[Head(body).body], run)]]

-----------------------------------------------------------------------------
(* selector.py: which methods are taken *)

Inside[body \in Body] ==
  IF body = <<>> THEN {} ELSE {Head(body)} \cup Inside[Head(body).body] \cup Inside[Tail(body)]

\* Every assertion must be one lower.py has a form for, and a binding may be read as
\* cm.exception only.  build has no form for the assertWarns family: "odd" stands for it.
Lowerable(body) == \A s \in Inside[body] : s.kind \notin {"odd", "readOther"}

-----------------------------------------------------------------------------
(* The lowering *)

Scaffold(s, body, n) ==
  << [Stmt("reset", <<>>) EXCEPT !.id = n, !.bind = s.bind],
     [s EXCEPT !.kind = "try", !.id = n, !.body = body],
     [Stmt("assertFlag", <<>>) EXCEPT !.id = n] >>

\* _rewrite_cm: the reads that follow a binding in its block, at any depth, become reads of
\* the local.  cm is the number of the binding in sight, 0 if there is none.
RewriteCm(s, cm) == IF cm = 0 THEN s ELSE [Stmt("local", <<>>) EXCEPT !.id = cm]

\* Mutation: the reads further down are left to the nested blocks.
InNestedShallow(cm) == 0
InNested(cm)        == cm

Sight == [next : Nat, cm : Nat] \* the last number given, and the binding in sight
Code(out, next, ok) == [out |-> out, next |-> next, ok |-> ok]
Then(first, second) == Code(first.out \o second.out, second.next, first.ok /\ second.ok)

\* inner is what became of the statement's own body.
LowerStmt(s, inner, at) ==
  LET ident == inner.next + 1
  IN  CASE s.kind = "subTest" -> inner
        [] s.kind = "fail"    -> Code(<<Stmt("assertFalse", <<>>)>>, at.next, TRUE)
        [] Asserting(s)       -> Code(Scaffold(s, inner.out, ident), ident,
                                      inner.ok /\ (s.kind = "raisesCall" => s.body # <<>>))
        [] s.kind = "block"   -> Code(<<[s EXCEPT !.body = inner.out]>>, inner.next, inner.ok)
        [] s.kind = "read"    -> Code(<<RewriteCm(s, at.cm)>>, at.next, TRUE)
        [] OTHER              -> Code(<<s>>, at.next, TRUE)

\* A binding is known to the rest of its block; a second one of the same name there is
\* refused.
LowerBlock[body \in Body] ==
  [at \in Sight |->
     IF body = <<>> THEN Code(<<>>, at.next, TRUE)
     ELSE LET s     == Head(body)
              first == LowerStmt(s, LowerBlock[s.body][[at EXCEPT !.cm = InNested(@)]], at)
              again == s.bind /\ at.cm # 0
              rest  == [next |-> first.next, cm |-> IF s.bind THEN first.next ELSE at.cm]
          IN  Then([first EXCEPT !.ok = @ /\ ~again], LowerBlock[Tail(body)][rest])]

\* _check_no_surviving_assertions: a helper of the class named assert..., an assertion
\* that is not a statement, or one of a form that was left alone.
Generated(code) ==
  code.ok /\ \A s \in Inside[code.out] : s.kind \notin {"custom", "value", "raises"}

-----------------------------------------------------------------------------
(* The generated program under CPython *)

\* Mutation: the pattern of an assertRaisesRegex is dropped.
HandledNoRegex(run, s) ==
  IF run.flow \notin Catches(s.exc) THEN run
  ELSE [run EXCEPT !.raised = @ \cup {<<s.id, IF s.bind THEN run.flow ELSE "none">>},
                   !.flow = "normal"]

\* An except clause, and the assert after the try, which a return leaves behind.
Handled(run, s) ==
  IF run.flow \notin Catches(s.exc) THEN run
  ELSE [run EXCEPT !.raised = @ \cup {<<s.id, IF s.bind THEN run.flow ELSE "none">>},
                   !.flow = IF s.regex /\ @ # "E" THEN "A" ELSE "normal"]

\* The local that keeps the exception is None until its handler runs.
Ran(run, n)  == \E p \in run.raised : p[1] = n
Kept(run, n) == CHOOSE exc \in Held : <<n, exc>> \in run.raised \/ (~Ran(run, n) /\ exc = "none")

PlainStmt(s, within, run) ==
  CASE s.kind = "call"        -> Does(run, s.of)
    [] s.kind = "assertFalse" -> Ends(run, "A")
    [] s.kind = "return"      -> Ends(run, "return")
    [] s.kind = "read"        -> Ends(run, "NameError")
    [] s.kind = "local"       -> Logs(run, Kept(run, s.id))
    [] s.kind = "block"       -> within[run]
    [] s.kind = "reset"       -> [run EXCEPT !.raised = {p \in @ : p[1] # s.id}]
    [] s.kind = "try"         -> Handled(within[run], s)
    [] s.kind = "assertFlag"  -> IF Ran(run, s.id) THEN run ELSE Ends(run, "A")
    [] OTHER                  -> run

Plainly[body \in Body] ==
  [run \in Runs |->
     IF body = <<>> \/ run.flow # "normal" THEN run
     ELSE Plainly[Tail(body)][PlainStmt(Head(body), Plainly[Head(body).body], run)]]
=============================================================================
