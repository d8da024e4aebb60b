----------------------------- MODULE BaselineGate -----------------------------
(***************************************************************************)
(* What the CPython oracle suite promises, without its stages, workers and *)
(* files: a run sees, for each method, what CPython, the generated program *)
(* and Strata did with it; recording a run keeps all of that, and checking *)
(* one passes exactly when no method the machine does not excuse differs   *)
(* from the record.  A run that does not get that far does not pass.       *)
(***************************************************************************)
CONSTANTS Methods,  \* the test methods of the suite
          Verdicts, \* what can be concluded of a method
          Excused,  \* the verdicts that depend on the machine alone
          Unseen    \* the method is not part of the run, or not of the record

VARIABLES recorded, \* the verdict on record for each method
          seen,     \* what this run saw
          answer    \* what the suite reported: "none" while a run is under way

vars == <<recorded, seen, answer>>

Nothing  == [m \in Methods |-> Unseen]
Answers  == {"none", "pass", "fail", "skip"}
Visible  == {m \in Methods : /\ recorded[m] \notin Excused /\ seen[m] \notin Excused
                             /\ recorded[m] # seen[m]}

Init == recorded = Nothing /\ seen = Nothing /\ answer = "skip"

Begin == answer # "none" /\ answer' = "none" /\ seen' = Nothing /\ UNCHANGED recorded

See ==
  /\ answer = "none"
  /\ \E ms \in SUBSET {m \in Methods : seen[m] = Unseen} :
       \E verdict \in [ms -> Verdicts] :
         seen' = [m \in Methods |-> IF m \in ms THEN verdict[m] ELSE seen[m]]
  /\ UNCHANGED <<recorded, answer>>

Abandon == answer = "none" /\ answer' \in {"fail", "skip"} /\ seen' = Nothing
             /\ UNCHANGED recorded

Record == answer = "none" /\ recorded' = seen /\ answer' = "pass" /\ seen' = Nothing

Check ==
  /\ answer = "none"
  /\ answer' = IF Visible = {} /\ recorded # Nothing THEN "pass" ELSE "fail"
  /\ seen' = Nothing
  /\ UNCHANGED recorded

Next == Begin \/ See \/ Abandon \/ Record \/ Check

Spec == Init /\ [][Next]_vars
=============================================================================
