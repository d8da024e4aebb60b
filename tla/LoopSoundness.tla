--------------------------- MODULE LoopSoundness ----------------------------
(***************************************************************************)
(* What LoopFixpoint needs of the domain and of one iteration's transfer   *)
(* for a closed loop to cover every run of the program.                    *)
(***************************************************************************)
EXTENDS LoopFixpoint

ASSUME SetsAssumption ==
  /\ NoState \notin AbsStates
  /\ EntryStates \subseteq AbsStates
  /\ \A p \in Programs : EntryStores(p) \subseteq Stores
  /\ Nothing \in ElementValues

\* The domain: a join covers what its arguments cover, and what is below a state
\* is covered by it.
ASSUME JoinAssumption ==
  \A a, b \in AbsStates :
    /\ StateJoin(a, b) \in AbsStates
    /\ \A c \in Stores : StateCovers(a, c) \/ StateCovers(b, c) => StateCovers(StateJoin(a, b), c)

ASSUME LeAssumption ==
  \A a, b \in AbsStates : StateLe(a, b) => \A c \in Stores : StateCovers(a, c) => StateCovers(b, c)

ASSUME StepTypeAssumption ==
  \A p \in Programs, e \in ElementValues, a \in AbsStates :
    /\ StepBack(p, e, a) \in AbsStates \cup {NoState}
    /\ StepEscaped(p, e, a) \in AbsStates \cup {NoState}
    /\ \A c \in Stores : NextStores(p, c) \cup EscapeStores(p, c) \subseteq Stores

\* The iteration: one step of the analysis covers one iteration of the program.
ASSUME StepAssumption ==
  \A p \in Programs, e \in ElementValues, a \in AbsStates, c \in Stores :
    StateCovers(a, c) /\ Yields(p, e, c) =>
      /\ \A d \in NextStores(p, c) :
           StepBack(p, e, a) # NoState /\ StateCovers(StepBack(p, e, a), d)
      /\ \A d \in EscapeStores(p, c) :
           StepEscaped(p, e, a) # NoState /\ StateCovers(StepEscaped(p, e, a), d)

\* The iterator: the element value read at entry stays good for the whole loop,
\* and an iterable known to be non-empty is not exhausted at once.
ASSUME IteratorAssumption ==
  /\ \A p \in Programs, e \in ElementValues, c \in Stores :
       Yields(p, e, c) => \A d \in NextStores(p, c) : Yields(p, e, d)
  /\ \A p \in ForLoops \cap Programs, c \in Stores :
       Yields(p, Nothing, c) => NextStores(p, c) = {} /\ EscapeStores(p, c) = {}
  /\ \A p \in Programs \ ForLoops, c \in Stores : Yields(p, Nothing, c)
  /\ \A p \in ForLoops \cap Programs, a \in EntryStates : \A c \in EntryStores(p) :
       StateCovers(a, c) =>
         /\ IterationElement(p, a) \in ElementValues
         /\ Yields(p, IterationElement(p, a), c)
         /\ NonemptyIterable(p, a) => ~Exhausted(p, c)

-----------------------------------------------------------------------------
(* The inductive invariant. *)

\* The escape of the invariant the loop closed on is part of what it escaped with.
EscapeAbsorbed ==
  \A c \in Stores :
    StepEscaped(prog, element, invariant) # NoState
    /\ StateCovers(StepEscaped(prog, element, invariant), c)
      => escaped # NoState /\ StateCovers(escaped, c)

\* The closed invariant is a post-fixpoint of the step, and its escape and the
\* exit gate account for it; a skipped body has nothing to run.
Closed ==
  \/ /\ IsFor /\ element = Nothing
     /\ elseState = entry /\ entry = invariant
  \/ /\ StepBack(prog, element, invariant) # NoState =>
          StateLe(StateJoin(invariant, StepBack(prog, element, invariant)), invariant)
     /\ EscapeAbsorbed
     /\ elseState = IF ElseAdmitted(progressed) THEN invariant ELSE NoState
     /\ progressed \/ StepBack(prog, element, invariant) = NoState

\* While the program is at the head, the current invariant covers its store and
\* the element value its iterator.
HeadInv ==
  at = "head" =>
    /\ StateCovers(invariant, store)
    /\ phase # "enter" => Yields(prog, element, store)

\* Before its first return to the head the program is where it entered.
FirstTurn ==
  at = "head" /\ ~turned => store \in EntryStores(prog) /\ StateCovers(entry, store)

IInv ==
  /\ TypeOK
  /\ phase = "enter" => invariant = entry /\ element = Nothing
  /\ phase # "closed" => at = "head" /\ ~turned
  /\ phase = "closed" => Closed
  /\ turned => progressed
  /\ entry \in EntryStates
  /\ HeadInv
  /\ FirstTurn
  /\ EscapeCovered
  /\ ElseCovered
=============================================================================
