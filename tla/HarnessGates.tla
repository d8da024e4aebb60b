----------------------------- MODULE HarnessGates -----------------------------
(***************************************************************************)
(* The regression gates of Pylate (harness/gates.py, gates/run_all.py,     *)
(* gates/coverage.py, gates/admission.py): a corpus of programs analysed   *)
(* in a pool of workers, which leave one log each beside the sources; the  *)
(* digests of the logs compared with a pinned file, the logs compared with *)
(* a coverage manifest, the admission verdicts compared with another pinned *)
(* file.  A developer changes the programs and the analyzer between any    *)
(* two steps and may interrupt any command.                                *)
(***************************************************************************)
EXTENDS Naturals, Sequences, FiniteSets

CONSTANTS Programs,      \* names a corpus program may have
          PrecisionOnly, \* those left to a gate of their own
          Manifest,      \* what the coverage manifest asks the logs to exercise
          Checkouts,     \* what the programs of a checkout may come to
          MaxEdits, MaxCommands, MaxKills \* bounds on edits, commands and interruptions

\* What analysing a program comes to: a digest, or a failure before a log is written
\* ("broken"), or a log that a check on it refuses ("unsound").
Digests  == {"rejected", "plain", "rich"}
Outcomes == Digests \cup {"broken", "unsound"}
Features(log) == CASE log = "rejected" -> {"violation"}
                   [] log \in {"rich", "unsound"} -> {"dispatch"}
                   [] OTHER -> {}

ASSUME GatesAssumption ==
  /\ PrecisionOnly \subseteq Programs
  /\ Manifest \subseteq {"violation", "dispatch"}
  /\ Checkouts \subseteq [Programs -> Digests \cup {"absent"}]
  /\ MaxEdits \in Nat /\ MaxCommands \in Nat /\ MaxKills \in Nat

VARIABLES
  tree,      \* what analysing each program of the working tree comes to
  logs,      \* the log on disk beside each program
  expected,  \* expected.json
  admitted,  \* admission_expected.json
  command,   \* the command that runs or ran last
  stage,     \* of that gate
  gates,     \* the gate under way and those still to come
  todo,      \* programs not yet analysed
  results,   \* digests the workers have returned
  raised,    \* a worker has raised
  failed,    \* gates that have failed
  verdict,   \* of the last command
  cleared,   \* history: the command has removed the logs it found
  steady,    \* history: nothing has been edited since the command began
  edits, commands, kills

vars == <<tree, logs, expected, admitted, command, stage, gates, todo, results, raised, failed,
          verdict, cleared, steady, edits, commands, kills>>

Corpus == {p \in Programs : tree[p] # "absent"}
Tested == Corpus \ PrecisionOnly
NoLogs == [p \in Programs |-> "none"]

\* A pinned file, whole or cut off while it was written.
Pinned(pins) == [whole |-> TRUE, pins |-> pins]
Torn         == [whole |-> FALSE, pins |-> <<>>]

Admission(outcome) == IF outcome = "rejected" THEN "rejected" ELSE "accepted"
AdmissionsNow == [p \in Corpus |-> Admission(tree[p])]
DigestsNow    == [p \in Tested |-> tree[p]]

Init ==
  /\ tree \in Checkouts
  /\ logs = NoLogs
  /\ expected = Pinned(DigestsNow) /\ admitted = Pinned(AdmissionsNow)
  /\ command = "none" /\ stage = "idle" /\ gates = <<>>
  /\ todo = {} /\ results = <<>> /\ raised = FALSE /\ failed = {}
  /\ verdict = "none" /\ cleared = FALSE /\ steady = TRUE
  /\ edits = 0 /\ commands = 0 /\ kills = 0

-----------------------------------------------------------------------------
(* Commands *)

\* The gates of each command, in order; those of "gates" are of the fast tier.
Plan(c) == CASE c = "gates"     -> <<"admission", "corpus", "coverage">>
             [] c = "check"     -> <<"corpus">>
             [] OTHER           -> <<c>>

Start(c, files, at) ==
  /\ stage = "idle" /\ commands < MaxCommands
  /\ command' = c /\ gates' = Plan(c) /\ stage' = at /\ todo' = files
  /\ results' = <<>> /\ raised' = FALSE /\ failed' = {} /\ verdict' = "none"
  /\ cleared' = FALSE /\ steady' = TRUE
  /\ commands' = commands + 1
  /\ UNCHANGED <<tree, logs, expected, admitted, edits, kills>>

Begin ==
  \E c \in {"gates", "check", "bless", "run", "coverage", "admission", "restate"} :
    Start(c, {}, "start")

\* run_all.py FILE: any program may be named, nothing is removed or compared.
BeginFile == \E p \in Corpus : Start("file", {p}, "analyse")

\* A gate ends; the next one starts whatever came of it.
Ended(ok) ==
  /\ gates' = Tail(gates) /\ stage' = "start"
  /\ failed' = IF ok THEN failed ELSE failed \cup {Head(gates)}

Over ==
  /\ stage = "start" /\ gates = <<>>
  /\ stage' = "idle" /\ verdict' = IF failed = {} THEN "ok" ELSE "failed"
  /\ results' = <<>> /\ raised' = FALSE /\ failed' = {}
  /\ UNCHANGED <<tree, logs, expected, admitted, command, gates, todo, cleared, steady, edits,
                 commands, kills>>

\* The gates that analyse the whole corpus: compared, blessed, or neither.
FullRuns == {"corpus", "bless", "run"}

At(gs, where) == stage = where /\ gates # <<>> /\ Head(gates) \in gs

-----------------------------------------------------------------------------
(* The corpus gate *)

\* The interpreter's own operators are checked first, and may have drifted.
CheckOracle ==
  /\ At(FullRuns, "start")
  /\ \/ stage' = "clear" /\ UNCHANGED <<gates, failed>>
     \/ Ended(FALSE)
  /\ UNCHANGED <<tree, logs, expected, admitted, command, todo, results, raised, verdict, cleared,
                 steady, edits, commands, kills>>

\* Mutation: the logs of earlier runs stay.
Overwrite ==
  /\ At(FullRuns, "clear")
  /\ stage' = "analyse" /\ todo' = Tested /\ raised' = (Tested = {})
  /\ cleared' = TRUE
  /\ UNCHANGED <<tree, logs, expected, admitted, command, gates, results, failed, verdict, steady,
                 edits, commands, kills>>

\* Every log is removed and the programs are listed; a pool for none of them is refused.
Clear ==
  /\ At(FullRuns, "clear")
  /\ logs' = NoLogs /\ cleared' = TRUE
  /\ stage' = "analyse" /\ todo' = Tested /\ raised' = (Tested = {})
  /\ UNCHANGED <<tree, expected, admitted, command, gates, results, failed, verdict, steady,
                 edits, commands, kills>>

LogAfter(p) == IF tree[p] \in {"absent", "broken"} THEN logs[p] ELSE tree[p]

Left(p) == todo \ {p}

\* A worker analyses one program, in any order.  Once one has raised the driver collects
\* no further results, but the pool still empties its queue.
Analyse ==
  /\ stage = "analyse"
  /\ \E p \in todo :
       /\ logs' = [logs EXCEPT ![p] = LogAfter(p)]
       /\ todo' = Left(p)
       /\ IF tree[p] \in Digests
          THEN /\ results' = IF raised THEN results
                             ELSE [q \in DOMAIN results \cup {p} |->
                                     IF q = p THEN tree[p] ELSE results[q]]
               /\ UNCHANGED raised
          ELSE raised' = TRUE /\ UNCHANGED results
  /\ UNCHANGED <<tree, expected, admitted, command, stage, gates, failed, verdict, cleared,
                 steady, edits, commands, kills>>

\* Does the run go on to its pinned file?  Mutation: it does with what it has collected.
Collected == TRUE
Complete  == ~raised

\* The pool is empty.
Drained ==
  /\ stage = "analyse" /\ todo = {}
  /\ IF Complete /\ command \notin {"file", "run"}
     THEN stage' = "pin" /\ UNCHANGED <<gates, failed>>
     ELSE Ended(Complete)
  /\ UNCHANGED <<tree, logs, expected, admitted, command, todo, results, raised, verdict, cleared,
                 steady, edits, commands, kills>>

\* The drift report over the names of both.  Mutation: over the names of the run.
MatchesRun(pinned) ==
  pinned.whole /\ \A p \in DOMAIN results : p \in DOMAIN pinned.pins /\ pinned.pins[p] = results[p]
Matches(pinned) == pinned.whole /\ pinned.pins = results

Compare ==
  /\ At({"corpus"}, "pin")
  /\ Ended(Matches(expected))
  /\ UNCHANGED <<tree, logs, expected, admitted, command, todo, results, raised, verdict, cleared,
                 steady, edits, commands, kills>>

\* The file is opened, which empties it, and then written.
OpenExpected ==
  /\ At({"bless"}, "pin")
  /\ expected' = Torn /\ stage' = "write"
  /\ UNCHANGED <<tree, logs, admitted, command, gates, todo, results, raised, failed, verdict,
                 cleared, steady, edits, commands, kills>>

WriteExpected ==
  /\ At({"bless"}, "write")
  /\ expected' = Pinned(results)
  /\ Ended(TRUE)
  /\ UNCHANGED <<tree, logs, admitted, command, todo, results, raised, verdict, cleared,
                 steady, edits, commands, kills>>

-----------------------------------------------------------------------------
(* The coverage and admission gates *)

\* Every entry of the manifest is exercised by some log on disk, whoever left it there.
Coverage ==
  /\ At({"coverage"}, "start")
  /\ Ended(/\ \A p \in Programs : logs[p] # "torn"
           /\ \A f \in Manifest : \E p \in Programs : f \in Features(logs[p]))
  /\ UNCHANGED <<tree, logs, expected, admitted, command, todo, results, raised, verdict, cleared,
                 steady, edits, commands, kills>>

Checkable == \A p \in Corpus : tree[p] # "broken"

\* The checker is run again on every program, the excluded ones too.
CheckAdmissions ==
  /\ At({"admission"}, "start")
  /\ Ended(Checkable /\ Corpus # {} /\ admitted = Pinned(AdmissionsNow))
  /\ UNCHANGED <<tree, logs, expected, admitted, command, todo, results, raised, verdict, cleared,
                 steady, edits, commands, kills>>

\* Restating the manifest reads the old one first, for what else it holds.
Restate ==
  /\ At({"restate"}, "start")
  /\ IF Checkable /\ admitted.whole
     THEN /\ results' = AdmissionsNow /\ admitted' = Torn /\ stage' = "write"
          /\ UNCHANGED <<gates, failed>>
     ELSE Ended(FALSE) /\ UNCHANGED <<results, admitted>>
  /\ UNCHANGED <<tree, logs, expected, command, todo, raised, verdict, cleared,
                 steady, edits, commands, kills>>

WriteManifest ==
  /\ At({"restate"}, "write")
  /\ admitted' = Pinned(results)
  /\ Ended(TRUE)
  /\ UNCHANGED <<tree, logs, expected, command, todo, results, raised, verdict, cleared,
                 steady, edits, commands, kills>>

-----------------------------------------------------------------------------
(* The developer *)

Edit ==
  /\ edits < MaxEdits
  /\ \E p \in Programs, o \in Outcomes \cup {"absent"} :
       tree[p] # o /\ tree' = [tree EXCEPT ![p] = o]
  /\ steady' = FALSE /\ edits' = edits + 1
  /\ UNCHANGED <<logs, expected, admitted, command, stage, gates, todo, results, raised, failed,
                 verdict, cleared, commands, kills>>

\* What an interruption may leave of the logs: some removed, or one cut off.
Interrupted ==
  {logs} \cup (IF stage = "clear"
               THEN {[p \in Programs |-> IF p \in kept THEN logs[p] ELSE "none"] : kept \in SUBSET Programs}
               ELSE {[logs EXCEPT ![p] = "torn"] : p \in todo})

Kill ==
  /\ stage # "idle" /\ kills < MaxKills
  /\ logs' \in Interrupted
  /\ stage' = "idle" /\ verdict' = "killed" /\ gates' = <<>> /\ todo' = {}
  /\ results' = <<>> /\ raised' = FALSE /\ failed' = {}
  /\ kills' = kills + 1
  /\ UNCHANGED <<tree, expected, admitted, command, cleared, steady, edits, commands>>

Step ==
  \/ Over \/ CheckOracle \/ Clear \/ Analyse \/ Drained \/ Compare \/ OpenExpected
  \/ WriteExpected \/ Coverage \/ CheckAdmissions \/ Restate \/ WriteManifest

Next == Begin \/ BeginFile \/ Step \/ Edit \/ Kill

Spec == Init /\ [][Next]_vars

-----------------------------------------------------------------------------
(* Properties *)

Quiet == stage = "idle" /\ steady

\* What a command that passed says of the tree as it is, if nothing was edited under it:
\* a passing check, that the pinned digests are those of exactly the tested programs; a
\* passing tier (gates.py:91-108), also that every program is admitted or rejected as
\* stated and that every manifest entry is exercised by a program that is there, though
\* the coverage gate only reads the logs it finds (coverage.py:37-51).
GreenIsCurrent ==
  Quiet /\ verdict = "ok" =>
    /\ command \in {"check", "gates", "bless"} => expected = Pinned(DigestsNow)
    /\ command \in {"gates", "restate"} => admitted = Pinned(AdmissionsNow)
    /\ command = "gates" =>
         \A f \in Manifest : \E p \in Tested : f \in Features(tree[p])

\* Once a run of the whole corpus has got past its first check, the logs on disk are those of the
\* tested programs and of no other, whichever workers raised and in whatever order: so
\* the coverage gate that follows a failed corpus gate still judges this corpus
\* (run_all.py:874-882, 979-994).
LogsOfThisRun ==
  Quiet /\ cleared /\ verdict # "killed" =>
    logs = [p \in Programs |->
              IF p \in Tested /\ tree[p] # "broken" THEN tree[p] ELSE "none"]

\* The pinned digests change only when blessed, and to those of a run in which every
\* program was analysed and passed its own checks, never to what a run that raised had
\* collected; or they are lost for good to an interruption (run_all.py:994-1002).
BlessedWhole ==
  [][expected' # expected =>
       /\ command = "bless" /\ ~raised
       /\ expected' = Torn \/ ~steady \/
            (expected' = Pinned(DigestsNow) /\ \A p \in Tested : tree[p] \in Digests)]_vars
=============================================================================
