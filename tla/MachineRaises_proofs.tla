------------------------ MODULE MachineRaises_proofs ------------------------
(***************************************************************************)
(* The log of machine raises, for every set of nodes, class hierarchy,      *)
(* policy and nesting: the invariant IInv is inductive as it stands, its    *)
(* parts are the properties the run checks, and the log implements          *)
(* ProofDuties.                                                             *)
(***************************************************************************)
EXTENDS MachineRaises, TLAPS

\* A raise Python does not perform aborts under every policy, the one that models
\* every category included: the caller may discard what mraise returns
\* (Transfers/Calls.lean, a violated parameter annotation).
THEOREM ContractAborts ==
  ASSUME NEW p \in Policies, NEW stack, NEW cls \in Classes
  PROVE  Aborts(p, stack, cls, ContractCategory)
BY CategoryAssumption
   DEF Policies, Aborts, PolicyAborts, Category, ContractCategory, UserCategory, Undeclared

\* Exceptions of user code are never pruned: an undeclared raise of a user class
\* is modelled under every policy.
THEOREM UserRaisesModelled ==
  ASSUME NEW p \in Policies, NEW stack, NEW cls \in Classes, CategoryOf[cls] = UserCategory
  PROVE  ~Aborts(p, stack, cls, Undeclared)
BY DEF Aborts, PolicyAborts, Category

\* A live handler is never pruned: a class some enclosing try statement catches,
\* however far out and by whichever ancestor, is modelled (handledHere).
THEOREM HandledModelled ==
  ASSUME NEW p, NEW stack \in Seq(SUBSET Classes), NEW cls \in Classes,
         NEW i \in DOMAIN stack, NEW handler \in stack[i], handler \in Mro[cls]
  PROVE  ~Aborts(p, stack, cls, Undeclared)
BY DEF Aborts, HandledHere

\* Combining keeps abort, and never returns none.
LEMMA CombineMode ==
  ASSUME NEW existing \in Modes, NEW mode \in {"model", "abort"}
  PROVE  /\ Combine(existing, mode) \in {"model", "abort"}
         /\ Combine(existing, mode) = "abort" <=> existing = "abort" \/ mode = "abort"
BY DEF Combine, Modes

\* The mode of a verdict is abort exactly for an aborted class.
LEMMA ModeOfVerdict ==
  ASSUME NEW cls, NEW aborted
  PROVE  /\ Mode(cls, aborted) \in {"model", "abort"}
         /\ Mode(cls, aborted) = "abort" <=> cls \in aborted
BY DEF Mode

\* What one raise does to the row of a key.
LEMMA RowAfterRaise ==
  ASSUME TypeOK,
         NEW site \in Sites, NEW declared, NEW classes \in SUBSET MayRaise[site],
         Raise(site, classes, declared),
         NEW k \in Keys
  PROVE  LET aborted == {cls \in classes : Aborts(policy, active, cls, declared)}
         IN  /\ rows'[k] \in Modes
             /\ rows'[k] = "abort" <=> rows[k] = "abort" \/ (k[1] = site /\ k[2] \in aborted)
             /\ rows'[k] = "none"  <=> rows[k] = "none" /\ ~(k[1] = site /\ k[2] \in classes)
<1> DEFINE aborted == {cls \in classes : Aborts(policy, active, cls, declared)}
<1>1. rows'[k] = IF k \in At(site, classes) THEN Combine(rows[k], Mode(k[2], aborted)) ELSE rows[k]
  BY DEF Raise
<1>2. k \in At(site, classes) <=> k[1] = site /\ k[2] \in classes
  BY DEF At, Keys
<1>3. rows[k] \in Modes
  BY DEF TypeOK
<1>4. CASE k \in At(site, classes)
  <2>1. Mode(k[2], aborted) \in {"model", "abort"} /\ (Mode(k[2], aborted) = "abort" <=> k[2] \in aborted)
    BY ModeOfVerdict
  <2>2. /\ rows'[k] \in {"model", "abort"}
        /\ rows'[k] = "abort" <=> rows[k] = "abort" \/ Mode(k[2], aborted) = "abort"
    BY <1>1, <1>3, <1>4, <2>1, CombineMode
  <2> QED
    BY <1>2, <1>4, <2>1, <2>2 DEF Modes
<1>5. CASE k \notin At(site, classes)
  <2>1. ~(k[1] = site /\ k[2] \in aborted)
    BY <1>2, <1>5
  <2> QED
    BY <1>1, <1>2, <1>3, <1>5, <2>1
<1> QED
  BY <1>4, <1>5

-----------------------------------------------------------------------------
(* The inductive invariant. *)

\* The empty log is consistent.
LEMMA InitEstablishes == Init => IInv
<1> SUFFICES ASSUME Init PROVE IInv
  OBVIOUS
<1>1. TypeOK
  BY DEF Init, TypeOK, Modes, Keys
<1>2. RowsCombined
  BY DEF Init, RowsCombined
<1>3. DutiesOwed
  BY DEF Init, DutiesOwed
<1>4. OutcomesAccounted
  BY DEF Init, OutcomesAccounted
<1> QED
  BY <1>1, <1>2, <1>3, <1>4 DEF IInv

\* Only raises touch the records; every conjunct needs its own part of the step.
LEMMA RaisePreserves ==
  ASSUME IInv,
         NEW site \in Sites, NEW declared, NEW classes \in SUBSET MayRaise[site],
         Raise(site, classes, declared)
  PROVE  IInv'
<1> DEFINE aborted == {cls \in classes : Aborts(policy, active, cls, declared)}
<1> USE DEF IInv
<1>1. classes \subseteq Classes /\ aborted \subseteq Classes
  BY SitesAssumption
<1>2. /\ obligations' = obligations \cup Duties(site, aborted)
      /\ verdicts' = verdicts \cup {<<site, cls, Mode(cls, aborted)>> : cls \in classes}
      /\ UNCHANGED <<policy, active, errors, outcomes>>
  BY DEF Raise
<1>3. \A k \in Keys :
        /\ rows'[k] \in Modes
        /\ rows'[k] = "abort" <=> rows[k] = "abort" \/ (k[1] = site /\ k[2] \in aborted)
        /\ rows'[k] = "none"  <=> rows[k] = "none" /\ ~(k[1] = site /\ k[2] \in classes)
  BY RowAfterRaise
<1>4. \A k \in Keys : k[1] \in Sites /\ k[2] \in Classes
  BY DEF Keys
<1>5. TypeOK'
  <2>1. rows' \in [Keys -> Modes]
    <3>1. rows' = [k \in Keys |-> rows'[k]]
      BY DEF Raise
    <3> QED
      BY <1>3, <3>1
  <2>2. obligations' \subseteq Sites \X Kinds
    BY <1>1, <1>2 DEF TypeOK, Duties, Kinds
  <2>3. verdicts' \subseteq Sites \X Classes \X {"model", "abort"}
    <3>1. \A cls \in classes : <<site, cls, Mode(cls, aborted)>> \in Sites \X Classes \X {"model", "abort"}
      BY <1>1, ModeOfVerdict
    <3> QED
      BY <1>2, <3>1 DEF TypeOK
  <2> QED
    BY <1>2, <2>1, <2>2, <2>3 DEF TypeOK
<1>6. RowsCombined'
  <2> SUFFICES ASSUME NEW k \in Keys
               PROVE  /\ rows'[k] = "abort" <=> <<k[1], k[2], "abort">> \in verdicts'
                      /\ rows'[k] = "none" <=> \A mode \in Modes : <<k[1], k[2], mode>> \notin verdicts'
    BY DEF RowsCombined
  <2>1. \A mode : <<k[1], k[2], mode>> \in verdicts'
                   <=> \/ <<k[1], k[2], mode>> \in verdicts
                       \/ k[1] = site /\ k[2] \in classes /\ mode = Mode(k[2], aborted)
    BY <1>2
  <2>2. Mode(k[2], aborted) \in {"model", "abort"} /\ (Mode(k[2], aborted) = "abort" <=> k[2] \in aborted)
    BY ModeOfVerdict
  <2>3. /\ rows[k] = "abort" <=> <<k[1], k[2], "abort">> \in verdicts
        /\ rows[k] = "none" <=> \A mode \in Modes : <<k[1], k[2], mode>> \notin verdicts
    BY DEF RowsCombined
  <2>4. rows'[k] = "abort" <=> <<k[1], k[2], "abort">> \in verdicts'
    BY <1>3, <2>1, <2>2, <2>3
  <2>5. rows'[k] = "none" <=> \A mode \in Modes : <<k[1], k[2], mode>> \notin verdicts'
    BY <1>3, <2>1, <2>2, <2>3 DEF Modes
  <2> QED
    BY <2>4, <2>5
<1>7. DutiesOwed'
  <2> SUFFICES ASSUME NEW k \in Keys
               PROVE  rows'[k] = "abort" <=> <<k[1], AbortKind(k[2])>> \in obligations'
    BY DEF DutiesOwed
  <2>1. <<k[1], AbortKind(k[2])>> \in Duties(site, aborted) <=> k[1] = site /\ k[2] \in aborted
    BY DEF Duties, AbortKind
  <2> QED
    BY <1>2, <1>3, <2>1 DEF DutiesOwed
<1>8. OutcomesAccounted'
  BY <1>2 DEF OutcomesAccounted
<1> QED
  BY <1>5, <1>6, <1>7, <1>8

\* An obligation on a statement is of a kind of its own, so it never looks like a
\* proof duty of a class.
LEMMA EndStatementPreserves ==
  ASSUME IInv, NEW p \in Sites, NEW classes \in SUBSET Classes, EndStatement(p, classes)
  PROVE  IInv'
<1> DEFINE machine == classes \cap MachineRaised
           flagged == {<<p, Unreported>> : cls \in machine \ ReportedClasses}
<1> USE DEF IInv
<1>1. /\ obligations' = obligations \cup flagged
      /\ outcomes' = outcomes \cup At(p, machine)
      /\ UNCHANGED <<policy, active, rows, errors, verdicts>>
  BY DEF EndStatement
<1>2. TypeOK'
  <2>1. flagged \subseteq Sites \X Kinds
    BY DEF Kinds
  <2>2. At(p, machine) \subseteq Keys
    BY DEF At, Keys
  <2> QED
    BY <1>1, <2>1, <2>2 DEF TypeOK
<1>3. RowsCombined'
  BY <1>1 DEF RowsCombined
<1>4. DutiesOwed'
  <2>1. \A k \in Keys : <<k[1], AbortKind(k[2])>> \notin flagged
    BY DEF AbortKind, Unreported
  <2> QED
    BY <1>1, <2>1 DEF DutiesOwed
<1>5. OutcomesAccounted'
  <2> SUFFICES ASSUME NEW o \in outcomes'
               PROVE  o[2] \in errors' \/ <<o[1], Unreported>> \in obligations'
    BY DEF OutcomesAccounted
  <2>1. CASE o \in outcomes
    BY <1>1, <2>1 DEF OutcomesAccounted
  <2>2. CASE o \in At(p, machine)
    <3>1. PICK cls \in machine : o = <<p, cls>>
      BY <2>2 DEF At
    <3>2. CASE cls \in errors
      BY <1>1, <3>1, <3>2
    <3>3. CASE cls \notin errors
      <4>1. <<p, Unreported>> \in flagged
        BY <3>1, <3>3 DEF ReportedClasses
      <4> QED
        BY <1>1, <3>1, <4>1
    <3> QED
      BY <3>2, <3>3
  <2> QED
    BY <1>1, <2>1, <2>2
<1> QED
  BY <1>2, <1>3, <1>4, <1>5

\* No operation on the context makes the log inconsistent.
LEMMA NextPreserves ==
  ASSUME IInv, [Next]_vars
  PROVE  IInv'
<1>1. ASSUME NEW caught \in Caught, EnterTry(caught) PROVE IInv'
  <2>1. active' \in Seq(SUBSET Classes)
    BY <1>1, SitesAssumption DEF EnterTry, IInv, TypeOK
  <2> QED
    BY <1>1, <2>1 DEF EnterTry, IInv, TypeOK, RowsCombined, DutiesOwed, OutcomesAccounted
<1>2. CASE LeaveTry
  <2>1. active' \in Seq(SUBSET Classes)
    BY <1>2 DEF LeaveTry, IInv, TypeOK
  <2> QED
    BY <1>2, <2>1 DEF LeaveTry, IInv, TypeOK, RowsCombined, DutiesOwed, OutcomesAccounted
<1>3. ASSUME NEW site \in Sites, NEW declared \in {Undeclared, ContractCategory},
             NEW classes \in SUBSET MayRaise[site], Raise(site, classes, declared)
      PROVE  IInv'
  BY <1>3, RaisePreserves
<1>4. ASSUME NEW cls \in Classes, Report(cls) PROVE IInv'
  BY <1>4 DEF Report, IInv, TypeOK, RowsCombined, DutiesOwed, OutcomesAccounted
<1>5. ASSUME NEW p \in Sites, NEW classes \in SUBSET Classes, EndStatement(p, classes)
      PROVE  IInv'
  BY <1>5, EndStatementPreserves
<1>6. CASE UNCHANGED vars
  BY <1>6 DEF vars, IInv, TypeOK, RowsCombined, DutiesOwed, OutcomesAccounted
<1> QED
  BY <1>1, <1>2, <1>3, <1>4, <1>5, <1>6 DEF Next

\* The invariant holds of every reachable state.
THEOREM LogInvariant == Spec => []IInv
<1>1. IInv /\ [Next]_vars => IInv'
  BY NextPreserves
<1> QED
  BY InitEstablishes, <1>1, PTL DEF Spec

\* Type correctness of the log.
THEOREM LogTyped == Spec => []TypeOK
<1>1. IInv => TypeOK
  BY DEF IInv
<1> QED
  BY LogInvariant, <1>1, PTL

\* Verdicts of different contexts are combined and not raced (mraise): whatever the
\* order, a row is abort exactly when some context aborted it.
THEOREM VerdictsCombined == Spec => []RowsCombined
<1>1. IInv => RowsCombined
  BY DEF IInv
<1> QED
  BY LogInvariant, <1>1, PTL

\* The rows and the obligations record the same aborts (mraise, oblige).
THEOREM AbortsAreOwed == Spec => []DutiesOwed
<1>1. IInv => DutiesOwed
  BY DEF IInv
<1> QED
  BY LogInvariant, <1>1, PTL

\* No exception of the interpreter ends a statement unreported and unowed
\* (verifyReported).
THEOREM OutcomesReported == Spec => []OutcomesAccounted
<1>1. IInv => OutcomesAccounted
  BY DEF IInv
<1> QED
  BY LogInvariant, <1>1, PTL

-----------------------------------------------------------------------------
(* The log implements ProofDuties. *)

\* An empty log owes nothing.
LEMMA InitMaps == Init => Promise!Init
BY DEF Init, Promise!Init, Policies, Promise!Policies, Keys

\* One raise of the log is one judgement: the keys it adds to the rows are judged,
\* and the ones it turns to abort are owed.
LEMMA RaiseMaps ==
  ASSUME TypeOK,
         NEW site \in Sites, NEW declared, NEW classes \in SUBSET MayRaise[site],
         Raise(site, classes, declared)
  PROVE  Promise!Judge(site, classes, declared)
<1> DEFINE aborted == {cls \in classes : Aborts(policy, active, cls, declared)}
<1>1. aborted \subseteq classes /\ classes \subseteq Classes
  BY SitesAssumption
<1>2. At(site, classes) \subseteq Keys /\ At(site, aborted) \subseteq Keys
  BY <1>1 DEF At, Keys
<1>3. \A k \in Keys : /\ k \in At(site, classes) <=> k[1] = site /\ k[2] \in classes
                      /\ k \in At(site, aborted) <=> k[1] = site /\ k[2] \in aborted
  BY DEF At, Keys
<1>4. {k \in Keys : rows'[k] # "none"} = {k \in Keys : rows[k] # "none"} \cup At(site, classes)
  BY <1>2, <1>3, RowAfterRaise
<1>5. {k \in Keys : rows'[k] = "abort"} = {k \in Keys : rows[k] = "abort"} \cup At(site, aborted)
  BY <1>2, <1>3, RowAfterRaise
<1>6. UNCHANGED <<policy, active>>
  BY DEF Raise
<1>7. \A cls : Promise!Aborts(policy, active, cls, declared) <=> Aborts(policy, active, cls, declared)
  BY DEF Aborts, PolicyAborts, Category, HandledHere, Undeclared, UserCategory,
         Promise!Aborts, Promise!PolicyAborts, Promise!Category, Promise!HandledHere,
         Promise!Undeclared, Promise!UserCategory
<1>8. aborted = {cls \in classes : Promise!Aborts(policy, active, cls, declared)}
  BY <1>7
<1>9. \A some : Promise!At(site, some) = At(site, some)
  BY DEF At, Promise!At
<1> HIDE DEF aborted
<1> QED
  BY <1>4, <1>5, <1>6, <1>8, <1>9 DEF Promise!Judge

\* Every operation judges some classes of a site or leaves the duties alone.
LEMMA NextMaps ==
  ASSUME TypeOK, [Next]_vars
  PROVE  [Promise!Next]_(Promise!vars)
<1>1. ASSUME NEW caught \in Caught, EnterTry(caught) PROVE Promise!Next
  BY <1>1 DEF EnterTry, Promise!Next, Promise!EnterTry
<1>2. CASE LeaveTry
  BY <1>2 DEF LeaveTry, Promise!Next, Promise!LeaveTry
<1>3. ASSUME NEW site \in Sites, NEW declared \in {Undeclared, ContractCategory},
             NEW classes \in SUBSET MayRaise[site], Raise(site, classes, declared)
      PROVE  Promise!Next
  BY <1>3, RaiseMaps DEF Promise!Next, Promise!Undeclared, Promise!ContractCategory, Undeclared,
                        ContractCategory
<1>4. ASSUME NEW cls \in Classes, Report(cls) PROVE UNCHANGED Promise!vars
  BY <1>4 DEF Report, Promise!vars
<1>5. ASSUME NEW p \in Sites, NEW classes \in SUBSET Classes, EndStatement(p, classes)
      PROVE  UNCHANGED Promise!vars
  BY <1>5 DEF EndStatement, Promise!vars
<1>6. CASE UNCHANGED vars
  BY <1>6 DEF vars, Promise!vars
<1> QED
  BY <1>1, <1>2, <1>3, <1>4, <1>5, <1>6 DEF Next

\* A proof duty is owed from the first context that aborts the raise and no later
\* verdict discharges it: the log implements ProofDuties.
THEOREM LogKeepsDuties == Spec => DutiesKept
<1>1. TypeOK /\ [Next]_vars => [Promise!Next]_(Promise!vars)
  BY NextMaps
<1> QED
  BY LogTyped, InitMaps, <1>1, PTL DEF Spec, DutiesKept, Promise!Spec
=============================================================================
