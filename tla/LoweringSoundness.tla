-------------------------- MODULE LoweringSoundness --------------------------
(***************************************************************************)
(* A function as lowered and the same function as CPython runs it, side by *)
(* side: each goes on by itself to its next operation, and the operation   *)
(* has one outcome, any it can have, for both.                             *)
(***************************************************************************)
EXTENDS MantleRun, PythonExits

CONSTANTS
  Programs, \* a sequence of functions, each Lowered
  Callers   \* the exceptions being handled where the function is called, NoExc among them

VARIABLES program, mantle, python
vars == <<program, mantle, python>>

\* A function, and what it is lowered to.
Lowered(classBody, body) ==
  [classBody |-> classBody, body |-> body, fn |-> BuiltFunc(BuildFunc(classBody, body))]

\* TLC evaluates a definition once, and a constant's whenever it is used.
Functions == Programs \o <<>>
Fn == Functions[program].fn

Init ==
  /\ program \in DOMAIN Functions
  /\ \E caller \in Callers :
       /\ mantle = Started(caller)
       /\ python = Called(Functions[program].body, caller)

MantleStep ==
  /\ ~Finished(mantle) /\ ~Waits(Fn, mantle)
  /\ mantle' = StepByItself(Fn, mantle)
  /\ UNCHANGED <<program, python>>

PythonStep ==
  /\ Finished(mantle) \/ Waits(Fn, mantle)
  /\ ~Returned(python) /\ ~AwaitsOutcome(python)
  /\ python' = Proceed(python)
  /\ UNCHANGED <<program, mantle>>

\* What an operation can come to: tests have answers, names of a function are always written.
Tests == {"test", "match", "exitexc"}
Raised(op) == {Completed("raise", <<op[1], op[2], stop>>) : stop \in BOOLEAN}
Outcomes(op) ==
  (IF op[1] \in Tests THEN {Completed("yes", NoExc), Completed("no", NoExc)}
   ELSE {Completed("ok", <<op[1], op[2], FALSE>>)})
  \cup (IF op[1] \in {"bind", "unbind"} /\ ~Functions[program].classBody THEN {} ELSE Raised(op))

BothWait == Waits(Fn, mantle) /\ AwaitsOutcome(python)
Happens(outcome) ==
  /\ mantle' = Answer(Fn, mantle, outcome)
  /\ python' = Take(python, outcome)
  /\ UNCHANGED program

Operation ==
  /\ BothWait
  /\ \E outcome \in Outcomes(Asked(Fn, mantle).op) : Happens(outcome)

Ended == Finished(mantle) /\ Returned(python) /\ UNCHANGED vars

Next == MantleStep \/ PythonStep \/ Operation \/ Ended
Spec == Init /\ [][Next]_vars

----------------------------------------------------------------------------

\* Whatever the operations come to, the lowered function does what CPython does: the same
\* operations in the same order, each on the same exception, with the same exception being
\* handled, and in the end the same result to the caller, whose handled exception is restored.
\* So no function is a stub: every path of the lowering closes the blocks it opened and uses
\* the values where they are.
InStep ==
  /\ BothWait => Asked(Fn, mantle) = Asks(python)
  /\ Waits(Fn, mantle) => ~Returned(python)
  /\ Finished(mantle) => ~AwaitsOutcome(python)
  /\ Finished(mantle) /\ Returned(python) =>
       mantle.result = Gives(python) /\ mantle.handled = python.caller
=============================================================================
