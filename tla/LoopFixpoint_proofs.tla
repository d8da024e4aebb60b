------------------------- MODULE LoopFixpoint_proofs ------------------------
(***************************************************************************)
(* A closed loop covers every run of the program, for every domain, every  *)
(* transfer and every program that satisfy the assumptions of              *)
(* LoopSoundness.                                                          *)
(***************************************************************************)
EXTENDS LoopSoundness, TLAPS

\* The join of two optional states covers what either covers.
LEMMA JoinOptCovers ==
  ASSUME NEW a \in AbsStates \cup {NoState}, NEW b \in AbsStates \cup {NoState}
  PROVE  /\ JoinOpt(a, b) \in AbsStates \cup {NoState}
         /\ \A c \in Stores :
              (a # NoState /\ StateCovers(a, c)) \/ (b # NoState /\ StateCovers(b, c))
                => JoinOpt(a, b) # NoState /\ StateCovers(JoinOpt(a, b), c)
BY SetsAssumption, JoinAssumption DEF JoinOpt

\* The state after a round is a state and covers what the current one covers.
LEMMA NextInvariantCovers ==
  ASSUME TypeOK
  PROVE  /\ NextInvariant \in AbsStates
         /\ \A c \in Stores : StateCovers(invariant, c) => StateCovers(NextInvariant, c)
<1>1. StepBack(prog, element, invariant) \in AbsStates \cup {NoState}
  BY StepTypeAssumption DEF TypeOK
<1> QED  BY <1>1, JoinAssumption DEF NextInvariant, Backedge, TypeOK

\* The invariant holds initially.
LEMMA InitIInv == Init => IInv
<1> SUFFICES ASSUME Init PROVE IInv
  OBVIOUS
<1>1. TypeOK
  BY SetsAssumption DEF Init, TypeOK
<1> QED  BY <1>1 DEF Init, IInv, HeadInv, FirstTurn, EscapeCovered, ElseCovered

\* A for over nothing keeps the invariant: its entry state starts else.
LEMMA SkipBodyIInv == IInv /\ SkipBody => IInv'
<1> SUFFICES ASSUME IInv, SkipBody PROVE IInv'
  OBVIOUS
<1> USE DEF IInv, SkipBody, run
<1>1. TypeOK'
  BY SetsAssumption DEF TypeOK
<1>2. Closed'
  BY DEF Closed, IsFor
<1>3. HeadInv'
  BY IteratorAssumption DEF HeadInv, FirstTurn, TypeOK, IsFor
<1> QED  BY <1>1, <1>2, <1>3 DEF FirstTurn, EscapeCovered, ElseCovered

\* Reading the element from the entry state makes it good for the iterator.
LEMMA StartClosingIInv == IInv /\ StartClosing => IInv'
<1> SUFFICES ASSUME IInv, StartClosing PROVE IInv'
  OBVIOUS
<1> USE DEF IInv, StartClosing, run
<1>1. element' \in ElementValues /\ Yields(prog, element', store)
  BY SetsAssumption, IteratorAssumption DEF FirstTurn, TypeOK, IsFor
<1>2. TypeOK'
  BY <1>1 DEF TypeOK
<1>3. HeadInv'
  BY <1>1 DEF HeadInv
<1> QED  BY <1>2, <1>3 DEF FirstTurn, EscapeCovered, ElseCovered

\* A round keeps what is covered and, when it is the last, closes the loop.
LEMMA RoundIInv == IInv /\ Round => IInv'
<1> SUFFICES ASSUME IInv, Round PROVE IInv'
  OBVIOUS
<1> USE DEF IInv, run
<1> DEFINE back == StepBack(prog, element, invariant)
           esc  == StepEscaped(prog, element, invariant)
<1>1. /\ UNCHANGED <<prog, entry, element, store, at, turned>>
      /\ phase = "closing"
      /\ escaped' = JoinOpt(escaped, esc)
      /\ progressed' = (progressed \/ back # NoState)
  BY DEF Round, EscapedSoFar, ProgressSoFar, Backedge
<1>2. /\ back \in AbsStates \cup {NoState}
      /\ esc \in AbsStates \cup {NoState}
  BY StepTypeAssumption DEF TypeOK
<1>3. /\ escaped' \in AbsStates \cup {NoState}
      /\ \A c \in Stores :
           (escaped # NoState /\ StateCovers(escaped, c)) \/ (esc # NoState /\ StateCovers(esc, c))
             => escaped' # NoState /\ StateCovers(escaped', c)
  BY <1>1, <1>2, JoinOptCovers DEF TypeOK
<1>4. progressed' \in BOOLEAN /\ (turned' => progressed')
  BY <1>1 DEF TypeOK
<1>5. NextInvariant \in AbsStates
      /\ \A c \in Stores : StateCovers(invariant, c) => StateCovers(NextInvariant, c)
  BY NextInvariantCovers
<1>6. CASE StateLe(NextInvariant, invariant)
  <2>1. /\ phase' = "closed"
        /\ elseState' = IF ElseAdmitted(progressed') THEN invariant ELSE NoState
        /\ invariant' = invariant
    BY <1>6, <1>1 DEF Round, Stable, ProgressSoFar, Backedge
  <2>2. elseState' \in AbsStates \cup {NoState}
    BY <2>1 DEF TypeOK
  <2>3. TypeOK'
    BY <1>1, <1>3, <1>4, <2>1, <2>2 DEF TypeOK
  <2>4. Closed'
    <3>1. (back # NoState => StateLe(StateJoin(invariant, back), invariant))'
      BY <1>1, <1>6, <2>1 DEF NextInvariant, Backedge
    <3>2. EscapeAbsorbed'
      BY <1>1, <1>3, <2>1 DEF EscapeAbsorbed
    <3>3. (elseState = IF ElseAdmitted(progressed) THEN invariant ELSE NoState)'
      BY <1>1, <2>1 DEF ElseAdmitted, IsFor
    <3>4. (progressed \/ back = NoState)'
      BY <1>1, <2>1
    <3> QED  BY <3>1, <3>2, <3>3, <3>4 DEF Closed
  <2>5. HeadInv' /\ FirstTurn'
    BY <1>1, <2>1 DEF HeadInv, FirstTurn
  <2> QED  BY <1>1, <1>4, <2>1, <2>3, <2>4, <2>5 DEF EscapeCovered, ElseCovered
<1>7. CASE ~StateLe(NextInvariant, invariant)
  <2>1. phase' = "closing" /\ elseState' = elseState /\ invariant' = NextInvariant
    BY <1>7, <1>1 DEF Round, Stable
  <2>2. TypeOK'
    BY <1>1, <1>3, <1>4, <1>5, <2>1 DEF TypeOK
  <2>3. HeadInv' /\ FirstTurn'
    BY <1>1, <1>5, <2>1 DEF HeadInv, FirstTurn, TypeOK
  <2> QED  BY <1>1, <1>4, <2>1, <2>2, <2>3 DEF EscapeCovered, ElseCovered
<1> QED  BY <1>6, <1>7

\* One more iteration of the program stays under the closed invariant.
LEMMA IterateIInv == IInv /\ Iterate => IInv'
<1> SUFFICES ASSUME IInv, Iterate PROVE IInv'
  OBVIOUS
<1> USE DEF IInv
<1> DEFINE back == StepBack(prog, element, invariant)
<1>1. /\ UNCHANGED <<prog, entry, element, invariant, escaped, progressed, phase,
                     elseState, at>>
      /\ turned' = TRUE /\ phase = "closed" /\ at = "head"
      /\ store' \in NextStores(prog, store)
  BY DEF Iterate, Running, analysis
<1>2. store' \in Stores /\ back \in AbsStates \cup {NoState}
  BY <1>1, StepTypeAssumption DEF TypeOK
<1>3. TypeOK'
  BY <1>1, <1>2 DEF TypeOK
<1>4. StateCovers(invariant, store) /\ Yields(prog, element, store)
  BY <1>1 DEF HeadInv
<1>5. ~(IsFor /\ element = Nothing)
  BY <1>1, <1>4, IteratorAssumption DEF IsFor, TypeOK
<1>6. back # NoState /\ StateCovers(back, store')
  BY <1>1, <1>4, StepAssumption DEF TypeOK
<1>7. StateCovers(invariant, store')
  <2>1. StateJoin(invariant, back) \in AbsStates /\ StateCovers(StateJoin(invariant, back), store')
    BY <1>2, <1>6, JoinAssumption DEF TypeOK
  <2>2. StateLe(StateJoin(invariant, back), invariant)
    BY <1>1, <1>5, <1>6 DEF Closed
  <2> QED  BY <1>2, <2>1, <2>2, LeAssumption DEF TypeOK
<1>8. Yields(prog, element, store')
  BY <1>1, <1>4, IteratorAssumption DEF TypeOK
<1>9. progressed
  BY <1>1, <1>5, <1>6 DEF Closed
<1>10. Closed'
  BY <1>1, <1>2 DEF Closed, IsFor, EscapeAbsorbed, ElseAdmitted
<1>11. HeadInv' /\ FirstTurn'
  BY <1>1, <1>7, <1>8 DEF HeadInv, FirstTurn
<1> QED  BY <1>1, <1>3, <1>9, <1>10, <1>11 DEF EscapeCovered, ElseCovered

\* An escape of any iteration is absorbed by what the loop escaped with.
LEMMA EscapeIInv == IInv /\ Escape => IInv'
<1> SUFFICES ASSUME IInv, Escape PROVE IInv'
  OBVIOUS
<1> USE DEF IInv
<1>1. /\ UNCHANGED <<prog, entry, element, invariant, escaped, progressed, phase,
                     elseState, turned>>
      /\ phase = "closed" /\ at = "head" /\ at' = "escaped"
      /\ store' \in EscapeStores(prog, store)
  BY DEF Escape, Running, analysis
<1>2. store' \in Stores
  BY <1>1, StepTypeAssumption DEF TypeOK
<1>3. TypeOK'
  BY <1>1, <1>2 DEF TypeOK
<1>4. StateCovers(invariant, store) /\ Yields(prog, element, store)
  BY <1>1 DEF HeadInv
<1>5. ~(IsFor /\ element = Nothing)
  BY <1>1, <1>4, IteratorAssumption DEF IsFor, TypeOK
<1>6. escaped # NoState /\ StateCovers(escaped, store')
  BY <1>1, <1>2, <1>4, <1>5, StepAssumption DEF Closed, EscapeAbsorbed, TypeOK
<1>7. Closed'
  BY <1>1 DEF Closed, IsFor, EscapeAbsorbed, ElseAdmitted
<1> QED  BY <1>1, <1>3, <1>6, <1>7 DEF HeadInv, FirstTurn, EscapeCovered, ElseCovered

\* A loop that ends by itself ends where the gate admits else.
LEMMA ExhaustIInv == IInv /\ Exhaust => IInv'
<1> SUFFICES ASSUME IInv, Exhaust PROVE IInv'
  OBVIOUS
<1> USE DEF IInv
<1>1. /\ UNCHANGED <<prog, entry, element, invariant, escaped, progressed, phase,
                     elseState, turned, store>>
      /\ phase = "closed" /\ at = "head" /\ at' = "else"
      /\ Exhausted(prog, store)
  BY DEF Exhaust, Running, analysis
<1>2. TypeOK'
  BY <1>1 DEF TypeOK
<1>3. StateCovers(invariant, store) /\ invariant \in AbsStates
  BY <1>1 DEF HeadInv, TypeOK
<1>4. elseState # NoState /\ StateCovers(elseState, store)
  <2>1. CASE IsFor /\ element = Nothing /\ elseState = entry /\ entry = invariant
    BY <1>3, <2>1, SetsAssumption
  <2>2. CASE elseState = IF ElseAdmitted(progressed) THEN invariant ELSE NoState
    <3>1. ElseAdmitted(progressed)
      BY <1>1, IteratorAssumption DEF ElseAdmitted, FirstTurn, TypeOK, IsFor
    <3> QED  BY <1>3, <2>2, <3>1, SetsAssumption
  <2> QED  BY <1>1, <2>1, <2>2 DEF Closed
<1>5. Closed'
  BY <1>1 DEF Closed, IsFor, EscapeAbsorbed, ElseAdmitted
<1> QED  BY <1>1, <1>2, <1>4, <1>5 DEF HeadInv, FirstTurn, EscapeCovered, ElseCovered

\* Every step preserves the invariant.
LEMMA NextIInv == IInv /\ [Next]_vars => IInv'
<1> SUFFICES ASSUME IInv, [Next]_vars PROVE IInv'
  OBVIOUS
<1>1. CASE UNCHANGED vars
  BY <1>1 DEF IInv, vars, analysis, run, TypeOK, Closed, EscapeAbsorbed, ElseAdmitted,
     IsFor, HeadInv, FirstTurn, EscapeCovered, ElseCovered
<1> QED  BY <1>1, SkipBodyIInv, StartClosingIInv, RoundIInv, IterateIInv, EscapeIInv,
            ExhaustIInv DEF Next

\* The strengthening the loop properties need (close, whileFixpoint and forFixpoint):
\* it holds at the start and every step of analysis or program keeps it.
THEOREM LoopInvariant == Spec => []IInv
BY InitIInv, NextIInv, PTL DEF Spec

\* Type correctness of the loop analysis.
THEOREM LoopTypeOK == Spec => []TypeOK
<1>1. IInv => TypeOK
  BY DEF IInv
<1> QED  BY LoopInvariant, <1>1, PTL

\* The closed loop head covers the program after any number of iterations.
THEOREM LoopHeadCovered == Spec => []HeadCovered
<1>1. IInv => HeadCovered
  BY DEF IInv, HeadInv, HeadCovered, Running
<1> QED  BY LoopInvariant, <1>1, PTL

\* What leaves the loop by break, return or an exception is covered.
THEOREM LoopEscapeCovered == Spec => []EscapeCovered
<1>1. IInv => EscapeCovered
  BY DEF IInv
<1> QED  BY LoopInvariant, <1>1, PTL

\* Every `else` the program reaches is admitted and its state covered.
THEOREM LoopElseCovered == Spec => []ElseCovered
<1>1. IInv => ElseCovered
  BY DEF IInv
<1> QED  BY LoopInvariant, <1>1, PTL
=============================================================================
