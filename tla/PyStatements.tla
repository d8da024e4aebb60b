---------------------------- MODULE PyStatements ----------------------------
(***************************************************************************)
(* What the lowering and CPython's control flow have in common: the place  *)
(* of a statement in its function, exceptions and completions.             *)
(***************************************************************************)
EXTENDS Sequences

\* The parts of the statement at a place.
Body(at)      == at \o <<1>>
OrElse(at)    == at \o <<2>>
Final(at)     == at \o <<3>>
Clause(at, i) == at \o <<4, i>>

\* An exception is where it was raised and whether it is a StopIteration.
NoExc         == <<>>
NothingActive == <<"RuntimeError", <<>>, FALSE>>
IsStop(e)     == e[3]

\* A completion, or what an operation comes to.
Completed(how, v) == [how |-> how, value |-> v]
=============================================================================
