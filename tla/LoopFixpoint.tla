---------------------------- MODULE LoopFixpoint ----------------------------
(***************************************************************************)
(* Pylate's loop analysis (Pylate/Transfers/Fixpoint.lean) and the loop it *)
(* analyses.  First the analyser closes the loop: each Round runs one      *)
(* iteration step from the current invariant and joins the back edge in,   *)
(* until the join adds nothing.  Then the program runs the loop from a     *)
(* store the entry state covers.                                           *)
(*                                                                         *)
(* The state domain and the transfer of one iteration are parameters: an   *)
(* iteration of program p with element value e maps a state to its back    *)
(* edge and the state it escapes with (break, return and exceptions as one *)
(* state), either of which may be NoState.                                 *)
(***************************************************************************)
EXTENDS Naturals

CONSTANTS
  AbsStates, NoState, Stores, Programs,
  ForLoops,               \* the programs that are `for` loops; the rest are `while`
  ElementValues, Nothing,      \* element values; the bottom one
  StateJoin(_, _), StateLe(_, _),   \* AState.join and AState.le
  StateCovers(_, _),           \* a state covers a store
  EntryStates, EntryStores(_),
  IterationElement(_, _),      \* the element a `for` reads from its entry state
  NonemptyIterable(_, _),    \* its iterable provably has an element
  StepBack(_, _, _), StepEscaped(_, _, _),   \* one iteration of the analysis
  NextStores(_, _), EscapeStores(_, _),      \* one iteration of the program
  Exhausted(_, _),                           \* its loop test is over
  Yields(_, _, _)         \* every element the iterator may still give is in e

VARIABLES
  prog, entry,      \* the loop and the state it is entered with
  element,          \* the element value, computed once
  invariant,        \* the loop head state of the current round
  escaped,          \* the join of what iterations escaped with, or NoState
  progressed,       \* some round had a back edge
  phase,            \* "enter", "closing" or "closed"
  elseState,        \* where `else` (or the code after the loop) starts
  store, at,        \* the program: at the "head", "escaped" or in "else"
  turned            \* it came back to the head at least once

analysis == <<prog, entry, element, invariant, escaped, progressed, phase, elseState>>
run      == <<store, at, turned>>
vars     == <<analysis, run>>

JoinOpt(a, b) == IF a = NoState THEN b ELSE IF b = NoState THEN a ELSE StateJoin(a, b)

IsFor == prog \in ForLoops

-----------------------------------------------------------------------------
(* The analysis. *)

\* An iterable without elements: the body is not analysed, `else` is.
SkipBody ==
  /\ phase = "enter" /\ IsFor
  /\ IterationElement(prog, entry) = Nothing
  /\ element' = Nothing
  /\ elseState' = entry
  /\ phase' = "closed"
  /\ UNCHANGED <<prog, entry, invariant, escaped, progressed, run>>

StartClosing ==
  /\ phase = "enter"
  /\ IF IsFor THEN /\ IterationElement(prog, entry) # Nothing
                   /\ element' = IterationElement(prog, entry)
     ELSE element' = Nothing
  /\ phase' = "closing"
  /\ UNCHANGED <<prog, entry, invariant, escaped, progressed, elseState, run>>

Backedge == StepBack(prog, element, invariant)

\* Mutation: the back edge replaces the invariant.
NextInvariantReplaces == IF Backedge = NoState THEN invariant ELSE Backedge

\* The state after one round, joined at the loop head.
NextInvariant == IF Backedge = NoState THEN invariant ELSE StateJoin(invariant, Backedge)

\* Mutation: the loop closes only when no back edge is left.
StableWhenDry == Backedge = NoState

Stable == StateLe(NextInvariant, invariant)

\* Mutation: the round that closes the loop does not record its escapes.
EscapedBeforeLast ==
  IF Stable THEN escaped ELSE JoinOpt(escaped, StepEscaped(prog, element, invariant))

EscapedSoFar == JoinOpt(escaped, StepEscaped(prog, element, invariant))

ProgressSoFar == progressed \/ Backedge # NoState

\* Mutation: a for over a non-empty iterable never reaches its else.
ElseUnlessNonempty(progress) == IF IsFor THEN ~NonemptyIterable(prog, entry) ELSE TRUE

\* `else` runs from the closed invariant: always after a while, and after a for
\* unless the iterable has an element and no round came back.
ElseAdmitted(progress) ==
  IF IsFor THEN ~NonemptyIterable(prog, entry) \/ progress ELSE TRUE

Round ==
  /\ phase = "closing"
  /\ escaped' = EscapedSoFar
  /\ progressed' = ProgressSoFar
  /\ IF Stable
     THEN /\ phase' = "closed"
          /\ elseState' = IF ElseAdmitted(ProgressSoFar) THEN invariant ELSE NoState
          /\ UNCHANGED invariant
     ELSE /\ invariant' = NextInvariant
          /\ UNCHANGED <<phase, elseState>>
  /\ UNCHANGED <<prog, entry, element, run>>

-----------------------------------------------------------------------------
(* The program. *)

Running == phase = "closed" /\ at = "head"

Iterate ==
  /\ Running
  /\ store' \in NextStores(prog, store)
  /\ turned' = TRUE
  /\ UNCHANGED <<analysis, at>>

Escape ==
  /\ Running
  /\ store' \in EscapeStores(prog, store)
  /\ at' = "escaped"
  /\ UNCHANGED <<analysis, turned>>

Exhaust ==
  /\ Running
  /\ Exhausted(prog, store)
  /\ at' = "else"
  /\ UNCHANGED <<analysis, store, turned>>

Init ==
  /\ prog \in Programs
  /\ entry \in EntryStates
  /\ store \in {c \in EntryStores(prog) : StateCovers(entry, c)}
  /\ element = Nothing
  /\ invariant = entry
  /\ escaped = NoState
  /\ progressed = FALSE
  /\ phase = "enter"
  /\ elseState = NoState
  /\ at = "head"
  /\ turned = FALSE

Next == SkipBody \/ StartClosing \/ Round \/ Iterate \/ Escape \/ Exhaust

\* The analyser is a sequential program that keeps taking rounds.
Fairness == WF_vars(SkipBody) /\ WF_vars(StartClosing) /\ WF_vars(Round)

Spec == Init /\ [][Next]_vars /\ Fairness

-----------------------------------------------------------------------------
(* Properties. *)

TypeOK ==
  /\ prog \in Programs
  /\ entry \in AbsStates
  /\ element \in ElementValues
  /\ invariant \in AbsStates
  /\ escaped \in AbsStates \cup {NoState}
  /\ progressed \in BOOLEAN
  /\ phase \in {"enter", "closing", "closed"}
  /\ elseState \in AbsStates \cup {NoState}
  /\ store \in Stores
  /\ at \in {"head", "escaped", "else"}
  /\ turned \in BOOLEAN

\* "close returns only after the newly computed backedge is below the current
\* invariant" (Fixpoint.lean:4): whatever number of iterations the program has
\* run, the closed invariant covers its store at the loop head.
HeadCovered == Running => StateCovers(invariant, store)

\* break, return and exceptions of any iteration, not only of the last round's
\* invariant, are covered by what the loop escaped with.
EscapeCovered == at = "escaped" => escaped # NoState /\ StateCovers(escaped, store)

\* The exit gate of a for loop (definitelyHasElement and progressed) never
\* discards an `else` the program reaches.
ElseCovered == at = "else" => elseState # NoState /\ StateCovers(elseState, store)

\* There is no fuel: the ascending iteration ends by itself.
Closes == <>(phase = "closed")
=============================================================================
