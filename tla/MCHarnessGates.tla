---------------------------- MODULE MCHarnessGates ----------------------------
(* Instances of HarnessGates: two tested programs and one left to its own gate, *)
(* in checkouts whose manifest is covered and in one where only the log of the  *)
(* third program would cover it.                                                *)
EXTENDS HarnessGates

MCPrograms  == {"a", "b", "comp"}
MCCheckouts == {[a |-> "rejected", b |-> "rich", comp |-> "rich"],
                [a |-> "rejected", b |-> "plain", comp |-> "rich"]}
=============================================================================
