---------------------------- MODULE MachineRaises ----------------------------
(***************************************************************************)
(* The log of exceptions the interpreter itself raises (Pylate/Machine.lean *)
(* mraise, oblige, verifyReported).  One analysis reaches a node from many  *)
(* contexts: every function is an entry point of its own and is inlined at  *)
(* every call, and a loop body is analysed once per round.  Each context    *)
(* has its own enclosing try statements, so the same raise may be modelled  *)
(* in one and aborted in another; the log keeps one row per node and class. *)
(***************************************************************************)
EXTENDS AbortPolicy, Naturals

CONSTANTS Sites,    \* nodes that may raise
          MayRaise, \* [Sites -> SUBSET Classes]: what a node may raise
          Caught,   \* the class sets of the program's try statements
          MaxDepth  \* bound: try statements around a node, calls included

ASSUME SitesAssumption == /\ MayRaise \in [Sites -> SUBSET Classes]
                          /\ Caught \subseteq SUBSET Classes
                          /\ MaxDepth \in Nat

VARIABLES policy,      \* Actx.policy: the categories the run models
          active,      \* Actx.activeHandlers, innermost first
          rows,        \* Actx.machineRaises: the mode of each <<node, class>>
          obligations, \* Actx.obligations: <<node, kind>>, each filed once
          errors,      \* the classes some residual row reports
          verdicts,    \* history: every <<node, class, mode>> of any context
          outcomes     \* history: <<node, class>> of the interpreter's exceptions
                       \* that ended a statement

vars == <<policy, active, rows, obligations, errors, verdicts, outcomes>>

Keys  == Sites \X Classes
Modes == {"none", "model", "abort"}

AbortKind(cls) == <<"abort", cls>>
Unreported     == <<"unreported-outcome", "">>
Kinds          == {AbortKind(cls) : cls \in Classes} \cup {Unreported}

At(site, classes) == {<<site, cls>> : cls \in classes}

-----------------------------------------------------------------------------
(* mraise *)

\* Mutations: the last context decides; the first context decides.
LastVerdict(existing, mode)  == mode
FirstVerdict(existing, mode) == IF existing = "none" THEN mode ELSE existing

\* abort wins: it is a proof duty owed for the context that does not handle the
\* raise.
Combine(existing, mode) ==
  IF existing = "none" \/ (existing # "abort" /\ mode # "model") THEN mode ELSE existing

Mode(cls, aborted) == IF cls \in aborted THEN "abort" ELSE "model"

\* Mutation: a row that exists has filed its obligation.
NewDuties(site, aborted) ==
  {<<site, AbortKind(cls)>> : cls \in {a \in aborted : rows[<<site, a>>] = "none"}}

Duties(site, aborted) == {<<site, AbortKind(cls)>> : cls \in aborted}

Raise(site, classes, declared) ==
  LET aborted == {cls \in classes : Aborts(policy, active, cls, declared)}
  IN  /\ rows' = [k \in Keys |-> IF k \in At(site, classes)
                                 THEN Combine(rows[k], Mode(k[2], aborted)) ELSE rows[k]]
      /\ obligations' = obligations \cup Duties(site, aborted)
      /\ verdicts' = verdicts \cup {<<site, cls, Mode(cls, aborted)>> : cls \in classes}
      /\ UNCHANGED <<policy, active, errors, outcomes>>

-----------------------------------------------------------------------------
(* try statements and residual rows *)

\* The body of a try statement starts, here or in an inlined callee.
EnterTry(caught) ==
  /\ Len(active) < MaxDepth
  /\ active' = <<caught>> \o active
  /\ UNCHANGED <<policy, rows, obligations, errors, verdicts, outcomes>>

LeaveTry ==
  /\ active # <<>>
  /\ active' = Tail(active)
  /\ UNCHANGED <<policy, rows, obligations, errors, verdicts, outcomes>>

\* A site writes the failure into its residual row, before or after raising it.
Report(cls) ==
  /\ errors' = errors \cup {cls}
  /\ UNCHANGED <<policy, active, rows, obligations, verdicts, outcomes>>

MachineRaised == {k[2] : k \in {k \in Keys : rows[k] # "none"}}

\* Mutation: a logged raise counts as reported, which makes the check vacuous.
ReportedOrLogged == errors \cup MachineRaised

ReportedClasses == errors

\* A statement ends with exceptions the flow calls the interpreter's.  An explicit
\* raise that came through a loop is among them; it was never logged.
EndStatement(p, classes) ==
  LET machine == classes \cap MachineRaised
  IN  /\ obligations' = obligations \cup {<<p, Unreported>> : cls \in machine \ ReportedClasses}
      /\ outcomes' = outcomes \cup At(p, machine)
      /\ UNCHANGED <<policy, active, rows, errors, verdicts>>

Init ==
  /\ policy \in Policies
  /\ active = <<>>
  /\ rows = [k \in Keys |-> "none"]
  /\ obligations = {}
  /\ errors = {}
  /\ verdicts = {}
  /\ outcomes = {}

Next ==
  \/ \E caught \in Caught : EnterTry(caught)
  \/ LeaveTry
  \/ \E site \in Sites, declared \in {Undeclared, ContractCategory} :
       \E classes \in SUBSET MayRaise[site] : Raise(site, classes, declared)
  \/ \E cls \in Classes : Report(cls)
  \/ \E p \in Sites, classes \in SUBSET Classes : EndStatement(p, classes)

Spec == Init /\ [][Next]_vars

-----------------------------------------------------------------------------
(* What the log promises. *)

\* Every component has its type: an obligation names a node and a class (or the
\* unreported outcome), never something a reader of the log cannot resolve.
TypeOK ==
  /\ policy \in Policies
  /\ active \in Seq(SUBSET Classes)
  /\ rows \in [Keys -> Modes]
  /\ obligations \subseteq Sites \X Kinds
  /\ errors \subseteq Classes
  /\ verdicts \subseteq Sites \X Classes \X {"model", "abort"}
  /\ outcomes \subseteq Keys

\* The verdicts of all contexts are combined and not raced (mraise): in whatever
\* order they came, a row is abort exactly when some context aborted it.
RowsCombined ==
  \A k \in Keys :
    /\ rows[k] = "abort" <=> <<k[1], k[2], "abort">> \in verdicts
    /\ rows[k] = "none"  <=> \A mode \in Modes : <<k[1], k[2], mode>> \notin verdicts

\* The two records of one verdict agree: a row says abort exactly when the proof
\* obligation of that node and class is filed (mraise writes them separately).
DutiesOwed ==
  \A k \in Keys : rows[k] = "abort" <=> <<k[1], AbortKind(k[2])>> \in obligations

\* No exception of the interpreter ends a statement without a site that reports
\* its class or an obligation on the statement (verifyReported), however late or
\* in which context the report was made.
OutcomesAccounted ==
  \A o \in outcomes : o[2] \in errors \/ <<o[1], Unreported>> \in obligations

\* The invariant the proofs carry.
IInv == TypeOK /\ RowsCombined /\ DutiesOwed /\ OutcomesAccounted

\* The log implements its promise: what it calls abort is what is owed.
Promise == INSTANCE ProofDuties WITH
             judged <- {k \in Keys : rows[k] # "none"},
             owed   <- {k \in Keys : rows[k] = "abort"}

DutiesKept == Promise!Spec
=============================================================================
