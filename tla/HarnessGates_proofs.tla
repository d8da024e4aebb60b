-------------------------- MODULE HarnessGates_proofs --------------------------
(* For every corpus, manifest and number of edits, commands and interruptions: what *)
(* a passing command says of the tree, whose logs are on disk, and what is blessed. *)
EXTENDS HarnessGates, TLAPS

Lines == {<<"admission", "corpus", "coverage">>, <<"corpus", "coverage">>, <<"coverage">>, <<>>}

\* The gates still to come are the last ones of the command's.
InLine ==
  \/ command = "gates" /\ gates \in Lines
  \/ command = "check" /\ gates \in {<<"corpus">>, <<>>}
  \/ command = "bless" /\ gates \in {<<"bless">>, <<>>}
  \/ command = "run" /\ gates \in {<<"run">>, <<>>}
  \/ command = "coverage" /\ gates \in {<<"coverage">>, <<>>}
  \/ command = "admission" /\ gates \in {<<"admission">>, <<>>}
  \/ command = "restate" /\ gates \in {<<"restate">>, <<>>}
  \/ command = "file" /\ gates \in {<<"file">>, <<>>}

\* Where a gate can be.
InStage ==
  /\ stage \in {"idle", "start", "clear", "analyse", "pin", "write"}
  /\ stage = "analyse" => /\ gates # <<>> /\ (command = "file" \/ cleared)
                         /\ command \in {"gates", "check", "bless", "run", "file"}
  /\ stage \in {"analyse", "clear", "pin"} /\ command = "gates" => gates = <<"corpus", "coverage">>
  /\ stage \in {"clear", "pin"} => command \in {"gates", "check", "bless", "run"} /\ gates # <<>>
  /\ stage = "pin" => command # "run" /\ ~raised /\ cleared
  /\ stage = "write" => command \in {"bless", "restate"} /\ gates # <<>>
  /\ stage = "write" /\ command = "bless" => ~raised
  /\ stage # "analyse" => todo = {}
  /\ stage # "idle" => verdict = "none"

\* The logs on disk while the workers run, and after them.
LogsSoFar == [p \in Programs |->
                IF p \in Tested \ todo /\ tree[p] # "broken" THEN tree[p] ELSE "none"]
Logged == steady /\ cleared /\ verdict # "killed" => logs = LogsSoFar /\ todo \subseteq Tested

\* The digests collected so far.
Counted ==
  /\ stage \in {"start", "clear"} /\ gates \notin {<<>>, <<"coverage">>} =>
       results = <<>> /\ ~cleared
  /\ steady /\ stage = "analyse" /\ command # "file" /\ ~raised =>
       /\ results = [p \in Tested \ todo |-> tree[p]]
       /\ \A p \in Tested \ todo : tree[p] \in Digests
  /\ steady /\ stage \in {"pin", "write"} /\ command # "restate" =>
       results = DigestsNow /\ \A p \in Tested : tree[p] \in Digests
  /\ steady /\ stage = "write" /\ command = "restate" => results = AdmissionsNow

CorpusGreen == expected = Pinned(DigestsNow) /\ cleared /\ \A p \in Tested : tree[p] \in Digests
Exercised   == \A f \in Manifest : \E p \in Tested : f \in Features(tree[p])

\* What the gates that are over and have not failed have shown.
Shown ==
  steady /\ stage # "idle" =>
    /\ command = "gates" =>
         /\ gates \in Lines \ {<<"admission", "corpus", "coverage">>} /\ "admission" \notin failed =>
              admitted = Pinned(AdmissionsNow)
         /\ gates \in {<<"coverage">>, <<>>} /\ "corpus" \notin failed => CorpusGreen
         /\ gates = <<>> /\ failed = {} => Exercised
    /\ command \in {"check", "bless"} /\ gates = <<>> /\ failed = {} =>
         expected = Pinned(DigestsNow)
    /\ command = "restate" /\ gates = <<>> /\ failed = {} => admitted = Pinned(AdmissionsNow)

\* The pinned digests are whole or torn.
PinnedOrTorn == expected = Torn \/ \E pins : expected = Pinned(pins)

GatesInv ==
  /\ PinnedOrTorn
  /\ tree \in [Programs -> Outcomes \cup {"absent"}]
  /\ logs \in [Programs -> Outcomes \cup {"none", "torn"}]
  /\ todo \subseteq Programs
  /\ (stage # "idle" => InLine) /\ InStage /\ Logged /\ Counted /\ Shown /\ GreenIsCurrent

\* Heads and tails of the gates' sequences.
LEMMA OfLines ==
  /\ Head(<<"admission", "corpus", "coverage">>) = "admission"
  /\ Tail(<<"admission", "corpus", "coverage">>) = <<"corpus", "coverage">>
  /\ Head(<<"corpus", "coverage">>) = "corpus" /\ Tail(<<"corpus", "coverage">>) = <<"coverage">>
  /\ \A g : Head(<<g>>) = g /\ Tail(<<g>>) = <<>> /\ <<g>> # <<>>
  OBVIOUS

\* The gates a head belongs to.
LEMMA HeadOfLine ==
  ASSUME InLine, gates # <<>>
  PROVE  /\ Head(gates) = "corpus" => command \in {"gates", "check"}
         /\ Head(gates) \in {"bless", "run", "restate", "file"} => command = Head(gates) /\ gates = <<command>>
         /\ Head(gates) = "coverage" => gates = <<"coverage">> /\ command \in {"gates", "coverage"}
         /\ Head(gates) = "corpus" /\ command = "gates" => gates = <<"corpus", "coverage">>
         /\ Head(gates) = "admission" /\ command = "gates" => gates = <<"admission", "corpus", "coverage">>
         /\ command # "gates" => Tail(gates) = <<>>
         /\ command = "check" => Head(gates) = "corpus"
         /\ command \in {"bless", "run", "restate", "file"} => Head(gates) = command
  BY OfLines DEF InLine, Lines

\* The initial state satisfies the invariant.
LEMMA GatesInit == Init => GatesInv
  <1> SUFFICES ASSUME Init PROVE GatesInv
    OBVIOUS
  <1>1. tree \in [Programs -> Outcomes \cup {"absent"}]
    BY GatesAssumption DEF Init, Outcomes
  <1>2. logs \in [Programs -> Outcomes \cup {"none", "torn"}] /\ todo \subseteq Programs
    BY DEF Init, NoLogs
  <1>3. InStage /\ Logged /\ Counted /\ Shown /\ GreenIsCurrent
    BY DEF Init, InStage, Logged, Counted, Shown, GreenIsCurrent
  <1>4. stage = "idle"
    BY DEF Init
  <1> QED
    BY <1>1, <1>2, <1>3, <1>4 DEF GatesInv, PinnedOrTorn, Init

\* What is left to show when a gate ends.
LEMMA GateEnds ==
  ASSUME GatesInv, NEW ok \in BOOLEAN, Ended(ok), gates # <<>>,
         stage \in {"start", "analyse", "pin", "write"}, todo = {},
         UNCHANGED <<tree, logs, command, todo, verdict, cleared, steady, raised>>,
         UNCHANGED expected \/ PinnedOrTorn',
         stage = "start" => results' = results,
         Shown'
  PROVE  GatesInv'
  <1>1. gates' = Tail(gates) /\ stage' = "start"
    BY DEF Ended
  <1>2. InLine /\ verdict = "none"
    BY DEF GatesInv, InStage
  <1>3. InLine'
    BY <1>1, <1>2, OfLines DEF InLine, Lines
  <1>4. InStage'
    BY <1>1, <1>2 DEF InStage
  <1>5. Logged'
    BY <1>1 DEF GatesInv, Logged, LogsSoFar, Tested, Corpus
  <1>6. Counted'
    <2>1. ASSUME gates' \notin {<<>>, <<"coverage">>}
          PROVE  stage = "start" /\ gates \notin {<<>>, <<"coverage">>}
      BY <1>1, <1>2, <2>1, OfLines DEF GatesInv, InStage, InLine, Lines
    <2> QED
      BY <1>1, <2>1 DEF GatesInv, Counted
  <1>7. GreenIsCurrent'
    BY <1>1 DEF GreenIsCurrent, Quiet
  <1>8. /\ tree' \in [Programs -> Outcomes \cup {"absent"}]
        /\ logs' \in [Programs -> Outcomes \cup {"none", "torn"}]
        /\ todo' \subseteq Programs
    BY DEF GatesInv
  <1> QED
    BY <1>1, <1>3, <1>4, <1>5, <1>6, <1>7, <1>8 DEF GatesInv, PinnedOrTorn

\* What the gates that are over have shown stays shown while the next one works.
LEMMA StillShown ==
  ASSUME GatesInv, stage # "idle",
         UNCHANGED <<tree, expected, admitted, command, gates, failed, steady>>,
         cleared => cleared'
  PROVE  Shown'
  BY DEF GatesInv, Shown, CorpusGreen, Exercised, DigestsNow, AdmissionsNow, Tested, Corpus

\* The interpreter's operators are checked, and the gate goes on or fails.
LEMMA CheckOracleKeeps == ASSUME GatesInv, CheckOracle PROVE GatesInv'
  <1>0. /\ stage = "start" /\ gates # <<>> /\ Head(gates) \in FullRuns /\ InLine /\ todo = {}
        /\ UNCHANGED <<tree, logs, expected, admitted, command, todo, results, raised, verdict,
                       cleared, steady>>
    BY DEF CheckOracle, At, GatesInv, InStage
  <1>1. ASSUME stage' = "clear", UNCHANGED <<gates, failed>> PROVE GatesInv'
    <2>1. Shown'
      BY <1>0, <1>1, StillShown
    <2>2. InLine' /\ InStage'
      BY <1>0, <1>1, HeadOfLine DEF GatesInv, InLine, InStage, FullRuns
    <2>3. gates \notin {<<>>, <<"coverage">>}
      BY <1>0, OfLines DEF FullRuns
    <2>4. Counted'
      BY <1>0, <1>1, <2>3 DEF GatesInv, Counted
    <2>5. Logged' /\ GreenIsCurrent'
      BY <1>0, <1>1 DEF GatesInv, Logged, LogsSoFar, Tested, Corpus, GreenIsCurrent, Quiet
    <2> QED
      BY <1>0, <2>1, <2>2, <2>4, <2>5 DEF GatesInv, PinnedOrTorn
  <1>2. ASSUME Ended(FALSE) PROVE GatesInv'
    <2>1. failed' = failed \cup {Head(gates)} /\ gates' = Tail(gates)
      BY <1>2 DEF Ended
    <2>2. Shown'
      BY <1>0, <2>1, HeadOfLine, OfLines DEF GatesInv, Shown, FullRuns, Lines, AdmissionsNow, Corpus
    <2> QED
      BY <1>0, <1>2, <2>2, GateEnds
  <1> QED
    BY <1>1, <1>2 DEF CheckOracle

\* The logs are removed.
LEMMA ClearKeeps == ASSUME GatesInv, Clear PROVE GatesInv'
  <1>1. /\ stage = "clear" /\ gates # <<>> /\ logs' = NoLogs /\ cleared'
        /\ stage' = "analyse" /\ todo' = Tested /\ raised' = (Tested = {})
        /\ UNCHANGED <<tree, expected, admitted, command, gates, results, failed, verdict, steady>>
    BY DEF Clear, At
  <1>2. Shown'
    BY <1>1, StillShown
  <1>3. InLine' /\ InStage'
    BY <1>1 DEF GatesInv, InLine, InStage
  <1>4. Logged'
    BY <1>1 DEF Logged, LogsSoFar, NoLogs, Tested, Corpus
  <1>5. results = <<>>
    BY <1>1, OfLines DEF GatesInv, InStage, InLine, Counted
  <1>6. Counted'
    <2>1. <<>> = [p \in Tested \ Tested |-> tree[p]]
      OBVIOUS
    <2>2. Tested' = Tested
      BY <1>1 DEF Tested, Corpus
    <2> QED
      BY <1>1, <1>5, <2>1, <2>2 DEF Counted
  <1>7. logs' \in [Programs -> Outcomes \cup {"none", "torn"}] /\ todo' \subseteq Programs
    BY <1>1 DEF NoLogs, Tested, Corpus
  <1>8. GreenIsCurrent'
    BY <1>1 DEF GreenIsCurrent, Quiet
  <1> QED
    BY <1>1, <1>2, <1>3, <1>4, <1>6, <1>7, <1>8 DEF GatesInv, PinnedOrTorn

\* A worker analyses a program.
LEMMA AnalyseKeeps == ASSUME GatesInv, Analyse PROVE GatesInv'
  <1>1. PICK p \in todo :
          /\ logs' = [logs EXCEPT ![p] = LogAfter(p)]
          /\ todo' = todo \ {p}
          /\ IF tree[p] \in Digests
             THEN /\ results' = IF raised THEN results
                                ELSE [q \in DOMAIN results \cup {p} |->
                                        IF q = p THEN tree[p] ELSE results[q]]
                  /\ UNCHANGED raised
             ELSE raised' = TRUE /\ UNCHANGED results
    BY DEF Analyse, Left
  <1>2. /\ stage = "analyse" /\ p \in Programs
        /\ UNCHANGED <<tree, expected, admitted, command, stage, gates, failed, verdict, cleared,
                       steady>>
    BY DEF Analyse, GatesInv
  <1>3. logs' \in [Programs -> Outcomes \cup {"none", "torn"}] /\ todo' \subseteq Programs
    BY <1>1, <1>2 DEF GatesInv, LogAfter
  <1>4. Shown'
    BY <1>2, StillShown
  <1>5. InLine' /\ InStage'
    BY <1>1, <1>2 DEF GatesInv, InLine, InStage
  <1>6. Logged'
    <2> SUFFICES ASSUME steady, cleared, verdict # "killed"
                 PROVE  logs' = LogsSoFar' /\ todo' \subseteq Tested
      BY <1>2 DEF Logged, Tested, Corpus
    <2>1. logs = LogsSoFar /\ todo \subseteq Tested
      BY DEF GatesInv, Logged
    <2>2. Tested' = Tested
      BY <1>2 DEF Tested, Corpus
    <2>3. ASSUME NEW q \in Programs
          PROVE  logs'[q] = (IF q \in Tested \ todo' /\ tree[q] # "broken" THEN tree[q] ELSE "none")
      <3>1. CASE q = p
        BY <1>1, <1>2, <2>1, <3>1 DEF GatesInv, LogAfter, LogsSoFar, Tested, Corpus
      <3>2. CASE q # p
        BY <1>1, <2>1, <3>2 DEF GatesInv, LogsSoFar
      <3> QED
        BY <3>1, <3>2
    <2>4. logs' = [q \in Programs |-> logs'[q]]
      BY <1>3
    <2> QED
      BY <1>1, <1>2, <2>1, <2>2, <2>3, <2>4 DEF LogsSoFar
  <1>7. Counted'
    <2> SUFFICES ASSUME steady, command # "file", ~raised'
                 PROVE  /\ results' = [q \in Tested \ todo' |-> tree[q]]
                        /\ \A q \in Tested \ todo' : tree[q] \in Digests
      BY <1>2 DEF Counted, Tested, Corpus
    <2>1. tree[p] \in Digests /\ ~raised
      BY <1>1
    <2>2. /\ results = [q \in Tested \ todo |-> tree[q]]
          /\ \A q \in Tested \ todo : tree[q] \in Digests
      BY <1>2, <2>1 DEF GatesInv, Counted
    <2>3. p \in Tested
      BY <1>2 DEF GatesInv, Logged, InStage
    <2>4. Tested \ todo' = (Tested \ todo) \cup {p}
      BY <1>1, <2>3
    <2> QED
      BY <1>1, <2>1, <2>2, <2>4
  <1>8. GreenIsCurrent'
    BY <1>2 DEF GreenIsCurrent, Quiet
  <1> QED
    BY <1>2, <1>3, <1>4, <1>5, <1>6, <1>7, <1>8 DEF GatesInv, PinnedOrTorn

\* A gate that fails shows nothing, and takes nothing back.
LEMMA FailedShown ==
  ASSUME GatesInv, stage # "idle", gates # <<>>, Ended(FALSE),
         UNCHANGED <<tree, expected, admitted, command, cleared, steady>>
  PROVE  Shown'
  <1>1. /\ gates' = Tail(gates) /\ failed' = failed \cup {Head(gates)} /\ failed' # {}
        /\ InLine
    BY DEF Ended, GatesInv
  <1>2. ASSUME command = "gates", gates' \in {<<"coverage">>, <<>>}, "corpus" \notin failed'
        PROVE  gates = <<"coverage">> /\ "corpus" \notin failed
    <2>1. gates \in Lines
      BY <1>1, <1>2 DEF InLine
    <2>2. gates # <<"corpus", "coverage">>
      BY <1>1, <1>2, OfLines
    <2>3. gates # <<"admission", "corpus", "coverage">>
      <3>1. <<"corpus", "coverage">> \notin {<<"coverage">>, <<>>}
        OBVIOUS
      <3> QED
        BY <3>1, <1>1, <1>2, OfLines
    <2> QED
      BY <1>1, <1>2, <2>1, <2>2, <2>3 DEF Lines
  <1>3. ASSUME command = "gates", "admission" \notin failed'
        PROVE  gates \in Lines \ {<<"admission", "corpus", "coverage">>} /\ "admission" \notin failed
    BY <1>1, <1>3, OfLines DEF InLine, Lines
  <1> QED
    BY <1>1, <1>2, <1>3 DEF GatesInv, Shown, CorpusGreen, DigestsNow, AdmissionsNow, Tested, Corpus

\* The pool is empty.
LEMMA DrainedKeeps == ASSUME GatesInv, Drained PROVE GatesInv'
  <1>1. /\ stage = "analyse" /\ todo = {} /\ gates # <<>> /\ InLine
        /\ UNCHANGED <<tree, logs, expected, admitted, command, todo, results, raised, verdict,
                       cleared, steady>>
    BY DEF Drained, GatesInv, InStage
  <1>2. ASSUME ~raised, command \notin {"file", "run"}, stage' = "pin", UNCHANGED <<gates, failed>>
        PROVE  GatesInv'
    <2>1. Shown'
      BY <1>1, <1>2, StillShown
    <2>2. InLine' /\ command \in {"gates", "check", "bless"}
      BY <1>1, <1>2 DEF GatesInv, InStage, InLine
    <2>3. InStage'
      BY <1>1, <1>2, <2>2 DEF GatesInv, InStage
    <2>4. Tested \ todo = Tested
      BY <1>1
    <2>5. steady => results = DigestsNow /\ \A p \in Tested : tree[p] \in Digests
      BY <1>1, <1>2, <2>4 DEF GatesInv, Counted, DigestsNow
    <2>6. Counted'
      BY <1>1, <1>2, <2>2, <2>5 DEF Counted, DigestsNow, Tested, Corpus
    <2>7. Logged' /\ GreenIsCurrent'
      BY <1>1, <1>2 DEF GatesInv, Logged, LogsSoFar, Tested, Corpus, GreenIsCurrent, Quiet
    <2> QED
      BY <1>1, <2>1, <2>2, <2>3, <2>6, <2>7 DEF GatesInv, PinnedOrTorn
  <1>3. ASSUME NEW ok \in BOOLEAN, Ended(ok), ok => command \in {"file", "run"} PROVE GatesInv'
    <2>3. Shown'
      <3>1. CASE ~ok
        BY <1>1, <1>3, <3>1, FailedShown
      <3>2. CASE ok
        BY <1>1, <1>3, <3>2 DEF Shown
      <3> QED
        BY <3>1, <3>2
    <2> QED
      BY <1>1, <1>3, <2>3, GateEnds
  <1> QED
    BY <1>1, <1>2, <1>3 DEF Drained, Complete

\* The digests are compared with the pinned file.
LEMMA CompareKeeps == ASSUME GatesInv, Compare PROVE GatesInv'
  <1>1. /\ stage = "pin" /\ gates # <<>> /\ Head(gates) = "corpus" /\ InLine /\ todo = {}
        /\ Ended(Matches(expected)) /\ Matches(expected) \in BOOLEAN
        /\ UNCHANGED <<tree, logs, expected, admitted, command, todo, results, raised, verdict,
                       cleared, steady>>
    BY DEF Compare, At, GatesInv, InStage, Matches
  <1>2. CASE ~Matches(expected)
    BY <1>1, <1>2, FailedShown, GateEnds
  <1>3. CASE Matches(expected)
    <2>0. gates' = Tail(gates) /\ failed' = failed
      BY <1>1, <1>3 DEF Ended
    <2>1. /\ command \in {"gates", "check"}
          /\ command = "gates" => gates = <<"corpus", "coverage">> /\ gates' = <<"coverage">>
      BY <1>1, <2>0, HeadOfLine, OfLines
    <2>2. steady => expected.whole /\ expected.pins = DigestsNow /\ \A p \in Tested : tree[p] \in Digests
      BY <1>1, <1>3, <2>1 DEF GatesInv, Counted, Matches
    <2>3. expected = Pinned(expected.pins) \/ expected = Torn
      <3>1. \A pins : Pinned(pins).pins = pins
        BY DEF Pinned
      <3> QED
        BY <3>1 DEF GatesInv, PinnedOrTorn
    <2>4. steady => expected = Pinned(DigestsNow)
      <3> SUFFICES ASSUME steady PROVE expected = Pinned(DigestsNow)
        OBVIOUS
      <3>1. expected.whole
        BY <2>2, Zenon
      <3>2. ~Torn.whole
        BY DEF Torn
      <3>3. expected # Torn
        BY <3>1, <3>2, Zenon
      <3>4. expected.pins = DigestsNow
        BY <2>2
      <3> QED
        BY <2>3, <3>3, <3>4
    <2>5. command = "gates" => cleared
      BY <1>1 DEF GatesInv, InStage
    <2>6. Shown'
      BY <1>1, <2>0, <2>1, <2>2, <2>4, <2>5
         DEF GatesInv, Shown, CorpusGreen, DigestsNow, AdmissionsNow, Tested, Corpus, Lines
    <2> QED
      BY <1>1, <2>6, GateEnds
  <1> QED
    BY <1>2, <1>3

\* The pinned file is opened, and written.
LEMMA BlessKeeps == ASSUME GatesInv, OpenExpected \/ WriteExpected PROVE GatesInv'
  <1>1. CASE OpenExpected
    <2>1. /\ stage = "pin" /\ gates # <<>> /\ Head(gates) = "bless" /\ stage' = "write" /\ expected' = Torn
          /\ UNCHANGED <<tree, logs, admitted, command, gates, todo, results, raised, failed, verdict,
                         cleared, steady>>
      BY <1>1 DEF OpenExpected, At
    <2>2. command = "bless" /\ gates = <<"bless">>
      BY <2>1, HeadOfLine DEF GatesInv
    <2>3. InLine' /\ InStage' /\ Counted'
      BY <2>1, <2>2 DEF GatesInv, InLine, InStage, Counted, DigestsNow, Tested, Corpus
    <2>4. Logged' /\ Shown' /\ GreenIsCurrent'
      BY <2>1, <2>2 DEF GatesInv, Logged, LogsSoFar, Tested, Corpus, Shown, GreenIsCurrent, Quiet
    <2> QED
      BY <2>1, <2>3, <2>4 DEF GatesInv, PinnedOrTorn
  <1>2. CASE WriteExpected
    <2>1. /\ stage = "write" /\ gates # <<>> /\ Head(gates) = "bless" /\ Ended(TRUE)
          /\ expected' = Pinned(results) /\ todo = {}
          /\ UNCHANGED <<tree, logs, admitted, command, todo, results, raised, verdict, cleared, steady>>
      BY <1>2 DEF WriteExpected, At, GatesInv, InStage
    <2>2. command = "bless"
      BY <2>1, HeadOfLine DEF GatesInv
    <2>3. steady => expected' = Pinned(DigestsNow)
      BY <2>1, <2>2 DEF GatesInv, Counted
    <2>4. Shown'
      BY <2>1, <2>2, <2>3 DEF Shown, DigestsNow, Tested, Corpus
    <2>5. PinnedOrTorn'
      BY <2>1 DEF PinnedOrTorn, Pinned
    <2> QED
      BY <2>1, <2>4, <2>5, GateEnds
  <1> QED
    BY <1>1, <1>2

\* The manifest is held against the logs on disk.
LEMMA CoverageKeeps == ASSUME GatesInv, Coverage PROVE GatesInv'
  <1> DEFINE ok == /\ \A p \in Programs : logs[p] # "torn"
                   /\ \A f \in Manifest : \E p \in Programs : f \in Features(logs[p])
  <1>1. /\ stage = "start" /\ gates # <<>> /\ Head(gates) = "coverage" /\ InLine /\ todo = {}
        /\ Ended(ok)
        /\ UNCHANGED <<tree, logs, expected, admitted, command, todo, results, raised, verdict,
                       cleared, steady>>
    BY DEF Coverage, At, GatesInv, InStage
  <1>2. CASE ~ok
    <2>1. Ended(FALSE)
      BY <1>1, <1>2 DEF Ended
    <2> QED
      BY <1>1, <2>1, FailedShown, GateEnds
  <1>3. CASE ok
    <2>1. gates = <<"coverage">> /\ command \in {"gates", "coverage"} /\ gates' = <<>> /\ failed' = failed
      BY <1>1, <1>3, HeadOfLine, OfLines DEF Ended
    <2>2. ASSUME steady, command = "gates", "corpus" \notin failed PROVE CorpusGreen /\ Exercised
      <3>1. CorpusGreen
        BY <1>1, <2>1, <2>2 DEF GatesInv, Shown
      <3>2. logs = LogsSoFar /\ todo = {}
        BY <1>1, <2>2, <3>1 DEF GatesInv, InStage, Logged, CorpusGreen
      <3>3. ASSUME NEW p \in Programs, NEW f, f \in Features(logs[p])
            PROVE  p \in Tested /\ f \in Features(tree[p])
        BY <3>2, <3>3 DEF LogsSoFar, Features
      <3>4. Exercised
        BY <1>3, <3>3 DEF Exercised
      <3> QED
        BY <3>1, <3>4
    <2> HIDE DEF ok
    <2>3. Shown'
      BY <1>1, <2>1, <2>2
         DEF GatesInv, Shown, CorpusGreen, Exercised, DigestsNow, AdmissionsNow, Tested, Corpus, Lines
    <2> QED
      BY <1>1, <1>3, <2>3, GateEnds
  <1> QED
    BY <1>2, <1>3

\* The admission verdicts are compared, and restated.
LEMMA AdmissionsKeep == ASSUME GatesInv, CheckAdmissions \/ Restate \/ WriteManifest PROVE GatesInv'
  <1>1. CASE CheckAdmissions
    <2> DEFINE ok == Checkable /\ Corpus # {} /\ admitted = Pinned(AdmissionsNow)
    <2>1. /\ stage = "start" /\ gates # <<>> /\ Head(gates) = "admission" /\ InLine /\ todo = {}
          /\ Ended(ok)
          /\ UNCHANGED <<tree, logs, expected, admitted, command, todo, results, raised, verdict,
                         cleared, steady>>
      BY <1>1 DEF CheckAdmissions, At, GatesInv, InStage
    <2>2. CASE ~ok
      <3>1. Ended(FALSE)
        BY <2>1, <2>2 DEF Ended
      <3> QED
        BY <2>1, <3>1, FailedShown, GateEnds
    <2>3. CASE ok
      <3>1. /\ command \in {"gates", "admission"} /\ failed' = failed
            /\ command = "gates" => gates' = <<"corpus", "coverage">>
        BY <2>1, <2>3, HeadOfLine, OfLines DEF Ended, InLine
      <3>2. admitted' = Pinned(AdmissionsNow)'
        BY <2>1, <2>3 DEF AdmissionsNow, Corpus, Pinned
      <3> HIDE DEF ok
      <3>3. Shown'
        BY <2>1, <3>1, <3>2 DEF Shown
      <3> QED
        BY <2>1, <2>3, <3>3, GateEnds
    <2> QED
      BY <2>2, <2>3
  <1>2. CASE Restate
    <2>1. /\ stage = "start" /\ gates # <<>> /\ Head(gates) = "restate" /\ todo = {}
          /\ UNCHANGED <<tree, logs, expected, command, todo, raised, verdict, cleared, steady>>
      BY <1>2 DEF Restate, At, GatesInv, InStage
    <2>2. command = "restate" /\ gates = <<"restate">>
      BY <2>1, HeadOfLine DEF GatesInv
    <2>3. ASSUME results' = AdmissionsNow, stage' = "write", UNCHANGED <<gates, failed>> PROVE GatesInv'
      <3>1. InLine' /\ InStage' /\ Counted'
        BY <2>1, <2>2, <2>3 DEF GatesInv, InLine, InStage, Counted, AdmissionsNow, Corpus
      <3>2. Logged' /\ Shown' /\ GreenIsCurrent'
        BY <2>1, <2>2, <2>3 DEF GatesInv, Logged, LogsSoFar, Tested, Corpus, Shown, GreenIsCurrent, Quiet
      <3> QED
        BY <2>1, <3>1, <3>2 DEF GatesInv, PinnedOrTorn
    <2>4. ASSUME Ended(FALSE), UNCHANGED <<results, admitted>> PROVE GatesInv'
      <3>1. Shown' /\ PinnedOrTorn'
        BY <2>1, <2>4, FailedShown DEF GatesInv, PinnedOrTorn
      <3> QED
        BY <2>1, <2>4, <3>1, GateEnds
    <2> QED
      BY <1>2, <2>3, <2>4 DEF Restate
  <1>3. CASE WriteManifest
    <2>1. /\ stage = "write" /\ gates # <<>> /\ Head(gates) = "restate" /\ Ended(TRUE) /\ todo = {}
          /\ admitted' = Pinned(results)
          /\ UNCHANGED <<tree, logs, expected, command, todo, results, raised, verdict, cleared, steady>>
      BY <1>3 DEF WriteManifest, At, GatesInv, InStage
    <2>2. command = "restate"
      BY <2>1, HeadOfLine DEF GatesInv
    <2>3. steady => admitted' = Pinned(AdmissionsNow)
      BY <2>1, <2>2 DEF GatesInv, Counted
    <2>4. Shown'
      BY <2>1, <2>2, <2>3 DEF Shown, AdmissionsNow, Corpus
    <2> QED
      BY <2>1, <2>4, GateEnds DEF GatesInv, PinnedOrTorn
  <1> QED
    BY <1>1, <1>2, <1>3

\* A command ends.
LEMMA OverKeeps == ASSUME GatesInv, Over PROVE GatesInv'
  <1>1. /\ stage = "start" /\ gates = <<>> /\ todo = {} /\ stage' = "idle"
        /\ verdict' = (IF failed = {} THEN "ok" ELSE "failed")
        /\ UNCHANGED <<tree, logs, expected, admitted, command, gates, todo, cleared, steady>>
    BY DEF Over, GatesInv, InStage
  <1>2. verdict # "killed"
    BY <1>1 DEF GatesInv, InStage
  <1>3. Logged'
    BY <1>1, <1>2 DEF GatesInv, Logged, LogsSoFar, Tested, Corpus
  <1>4. InStage' /\ Counted' /\ Shown'
    BY <1>1 DEF InStage, Counted, Shown
  <1>5. GreenIsCurrent'
    <2> SUFFICES ASSUME steady, failed = {}
                 PROVE  /\ command \in {"check", "gates", "bless"} => expected = Pinned(DigestsNow)
                        /\ command \in {"gates", "restate"} => admitted = Pinned(AdmissionsNow)
                        /\ command = "gates" => Exercised
      BY <1>1 DEF GreenIsCurrent, Quiet, Exercised, DigestsNow, AdmissionsNow, Tested, Corpus
    <2>1. <<>> \in Lines \ {<<"admission", "corpus", "coverage">>}
      BY DEF Lines
    <2> QED
      BY <1>1, <2>1 DEF GatesInv, Shown, CorpusGreen
  <1> QED
    BY <1>1, <1>3, <1>4, <1>5 DEF GatesInv, PinnedOrTorn

\* A command begins.
LEMMA BeginKeeps == ASSUME GatesInv, Begin \/ BeginFile PROVE GatesInv'
  <1>1. ASSUME NEW c \in {"gates", "check", "bless", "run", "coverage", "admission", "restate", "file"},
               NEW files \in SUBSET Programs, NEW at \in {"start", "analyse"}, Start(c, files, at),
               at = "start" => files = {} /\ c # "file", at = "analyse" => c = "file"
        PROVE  GatesInv'
    <2>1. /\ command' = c /\ gates' = Plan(c) /\ stage' = at /\ todo' = files
          /\ results' = <<>> /\ raised' = FALSE /\ failed' = {} /\ verdict' = "none"
          /\ cleared' = FALSE /\ steady' = TRUE
          /\ UNCHANGED <<tree, logs, expected, admitted>>
      BY <1>1 DEF Start
    <2>2. InLine' /\ gates' # <<>>
      BY <2>1 DEF InLine, Lines, Plan
    <2>3. InStage'
      BY <1>1, <2>1, <2>2 DEF InStage
    <2>4. Logged' /\ Counted' /\ GreenIsCurrent'
      BY <1>1, <2>1 DEF Logged, Counted, GreenIsCurrent, Quiet
    <2>5. command' = "gates" => gates' = <<"admission", "corpus", "coverage">>
      BY <2>1 DEF Plan
    <2>6. <<"admission", "corpus", "coverage">> \notin {<<"coverage">>, <<>>}
      OBVIOUS
    <2>7. Shown'
      BY <2>1, <2>2, <2>5, <2>6 DEF Shown
    <2> QED
      BY <1>1, <2>1, <2>2, <2>3, <2>4, <2>7 DEF GatesInv, PinnedOrTorn
  <1>2. CASE Begin
    BY <1>1, <1>2 DEF Begin
  <1>3. CASE BeginFile
    BY <1>1, <1>3 DEF BeginFile, Corpus
  <1> QED
    BY <1>2, <1>3

\* A program or the analyzer is changed.
LEMMA EditKeeps == ASSUME GatesInv, Edit PROVE GatesInv'
  <1>1. PICK p \in Programs, o \in Outcomes \cup {"absent"} : tree' = [tree EXCEPT ![p] = o]
    BY DEF Edit
  <1>2. /\ steady' = FALSE
        /\ UNCHANGED <<logs, expected, admitted, command, stage, gates, todo, results, raised, failed,
                       verdict, cleared>>
    BY DEF Edit
  <1>3. tree' \in [Programs -> Outcomes \cup {"absent"}]
    BY <1>1 DEF GatesInv
  <1>4. InLine = InLine'
    BY <1>2 DEF InLine
  <1>5. InStage' /\ Logged' /\ Counted' /\ Shown' /\ GreenIsCurrent'
    BY <1>2 DEF GatesInv, InStage, Logged, Counted, Shown, GreenIsCurrent, Quiet
  <1> QED
    BY <1>2, <1>3, <1>4, <1>5 DEF GatesInv, PinnedOrTorn

\* A command is interrupted.
LEMMA KillKeeps == ASSUME GatesInv, Kill PROVE GatesInv'
  <1>1. /\ logs' \in Interrupted
        /\ stage' = "idle" /\ verdict' = "killed" /\ gates' = <<>> /\ todo' = {}
        /\ UNCHANGED <<tree, expected, admitted, command, cleared, steady>>
    BY DEF Kill
  <1>2. logs' \in [Programs -> Outcomes \cup {"none", "torn"}]
    BY <1>1 DEF Interrupted, GatesInv
  <1>3. InStage' /\ Logged' /\ Counted' /\ Shown' /\ GreenIsCurrent'
    BY <1>1 DEF InStage, Logged, Counted, Shown, GreenIsCurrent, Quiet
  <1> QED
    BY <1>1, <1>2, <1>3 DEF GatesInv, PinnedOrTorn

\* Every step keeps the invariant.
LEMMA GatesNext == GatesInv /\ [Next]_vars => GatesInv'
  <1> SUFFICES ASSUME GatesInv, [Next]_vars PROVE GatesInv'
    OBVIOUS
  <1>1. CASE UNCHANGED vars
    <2>1. UNCHANGED <<tree, logs, expected, admitted, command, stage, gates, todo, results, raised, failed,
                      verdict, cleared, steady>>
      BY <1>1 DEF vars
    <2>2. Corpus' = Corpus /\ Tested' = Tested /\ InLine' = InLine /\ InStage' = InStage
      BY <2>1 DEF Corpus, Tested, InLine, InStage
    <2>3. Counted' /\ Logged'
      BY <2>1, <2>2 DEF GatesInv, Counted, Logged, LogsSoFar, DigestsNow, AdmissionsNow
    <2>4. Shown' /\ GreenIsCurrent'
      BY <2>1, <2>2 DEF GatesInv, Shown, CorpusGreen, Exercised, DigestsNow, AdmissionsNow,
                        GreenIsCurrent, Quiet
    <2> QED
      BY <2>1, <2>2, <2>3, <2>4 DEF GatesInv, PinnedOrTorn
  <1> QED
    BY <1>1, BeginKeeps, OverKeeps, CheckOracleKeeps, ClearKeeps, AnalyseKeeps, DrainedKeeps,
       CompareKeeps, BlessKeeps, CoverageKeeps, AdmissionsKeep, EditKeeps, KillKeeps DEF Next, Step

-----------------------------------------------------------------------------

\* The invariant holds of every reachable state.
LEMMA GatesAlways == Spec => []GatesInv
  BY GatesInit, GatesNext, PTL DEF Spec

\* What a passing command says is so, if nothing was edited while it ran, whatever logs
\* and pinned files earlier commands left and wherever those were interrupted.
THEOREM GreenMeansCurrent == Spec => []GreenIsCurrent
  <1>1. GatesInv => GreenIsCurrent
    BY DEF GatesInv
  <1> QED
    BY <1>1, GatesAlways, PTL

\* The logs on disk are those of the run that removed the others.
THEOREM LogsAreOfTheRun == Spec => []LogsOfThisRun
  <1>1. ASSUME GatesInv PROVE LogsOfThisRun
    <2> SUFFICES ASSUME stage = "idle", steady, cleared, verdict # "killed"
                 PROVE  logs = [p \in Programs |->
                                  IF p \in Tested /\ tree[p] # "broken" THEN tree[p] ELSE "none"]
      BY DEF LogsOfThisRun, Quiet
    <2>1. todo = {} /\ logs = LogsSoFar
      BY <1>1 DEF GatesInv, InStage, Logged
    <2> QED
      BY <2>1 DEF LogsSoFar
  <1> QED
    BY <1>1, GatesAlways, PTL

\* The pinned digests change only to those of a whole run, or are torn.
THEOREM BlessedAreWhole == Spec => BlessedWhole
  <1> DEFINE Change == /\ command = "bless" /\ ~raised
                       /\ expected' = Torn \/ ~steady \/
                            (expected' = Pinned(DigestsNow) /\ \A p \in Tested : tree[p] \in Digests)
  <1>1. ASSUME GatesInv, Next, expected' # expected PROVE Change
    <2>1. OpenExpected \/ WriteExpected
      BY <1>1 DEF Next, Step, Begin, BeginFile, Start, Over, CheckOracle, Clear, Analyse, Drained, Compare,
                  Coverage, CheckAdmissions, Restate, WriteManifest, Edit, Kill
    <2>2. CASE OpenExpected
      <3>1. stage = "pin" /\ gates # <<>> /\ Head(gates) = "bless" /\ expected' = Torn
        BY <2>2 DEF OpenExpected, At
      <3> QED
        BY <1>1, <3>1, HeadOfLine DEF GatesInv, InStage
    <2>3. CASE WriteExpected
      <3>1. stage = "write" /\ gates # <<>> /\ Head(gates) = "bless" /\ expected' = Pinned(results)
        BY <2>3 DEF WriteExpected, At
      <3>2. command = "bless" /\ ~raised
        BY <1>1, <3>1, HeadOfLine DEF GatesInv, InStage
      <3> QED
        BY <1>1, <3>1, <3>2 DEF GatesInv, Counted
    <2> QED
      BY <2>1, <2>2, <2>3
  <1>2. GatesInv /\ [Next]_vars => [expected' # expected => Change]_vars
    BY <1>1
  <1> QED
    BY <1>2, GatesAlways, PTL DEF Spec, BlessedWhole
=============================================================================
