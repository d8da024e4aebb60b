----------------------------- MODULE ProofDuties -----------------------------
(***************************************************************************)
(* What the log of machine raises promises, without how it is kept: a raise *)
(* at a site is judged in every context the site is reached from, and the   *)
(* site owes a proof for a class as soon as one context aborts it.          *)
(***************************************************************************)
EXTENDS AbortPolicy, Naturals

CONSTANTS Sites,    \* nodes that may raise
          MayRaise, \* [Sites -> SUBSET Classes]: what a node may raise
          Caught,   \* the class sets of the program's try statements
          MaxDepth  \* bound: try statements around a node, calls included

VARIABLES policy, \* the categories the run models
          active, \* classes caught by the enclosing try statements, innermost first
          judged, \* <<site, class>> some context has judged
          owed    \* <<site, class>> some context has aborted

vars == <<policy, active, judged, owed>>

At(site, classes) == {<<site, cls>> : cls \in classes}

Init == policy \in Policies /\ active = <<>> /\ judged = {} /\ owed = {}

EnterTry(caught) ==
  /\ Len(active) < MaxDepth
  /\ active' = <<caught>> \o active
  /\ UNCHANGED <<policy, judged, owed>>

LeaveTry ==
  /\ active # <<>>
  /\ active' = Tail(active)
  /\ UNCHANGED <<policy, judged, owed>>

Judge(site, classes, declared) ==
  /\ judged' = judged \cup At(site, classes)
  /\ owed' = owed \cup At(site, {cls \in classes : Aborts(policy, active, cls, declared)})
  /\ UNCHANGED <<policy, active>>

Next ==
  \/ \E caught \in Caught : EnterTry(caught)
  \/ LeaveTry
  \/ \E site \in Sites, declared \in {Undeclared, ContractCategory} :
       \E classes \in SUBSET MayRaise[site] : Judge(site, classes, declared)

Spec == Init /\ [][Next]_vars
=============================================================================
