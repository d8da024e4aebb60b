------------------------- MODULE CpythonOracle_proofs -------------------------
(* For every suite, number of workers and history of killed and failed runs: no    *)
(* run reads what an earlier one left, every planned method is accounted for, a    *)
(* regression never passes, and the pipeline implements BaselineGate.              *)
EXTENDS CpythonOracle, TLAPS

Late == {"oracle", "compare"}

\* No translation of an earlier run is in the way once the plan is made, and none was used.
NothingStale ==
  /\ stage \in {"extract", "runner"} \cup Late => \A m \in Methods : ion[m] # "old"
  /\ \A m \in Methods : ~codes[m].stale

\* A worker that is done has run each subprocess that the ones before it called for.
WorkDone(m) ==
  pc[m] = "done" =>
    /\ codes[m].translate # NoCode
    /\ ClassifyParse(codes[m].translate, codes[m].ionExists) = "ok" => codes[m].generate # NoCode
WorkStarted(m) == pc[m] \in {"interpret", "generate"} => codes[m].translate # NoCode
Work == clash = {} /\ \A m \in Methods : WorkDone(m) /\ WorkStarted(m)

\* What the later stages read is what the workers of this run kept.
HandedOn ==
  /\ stage \notin Late => engines.of = NoneOf(NoResult)
  /\ stage \in Late =>
       /\ engines.age = "new"
       /\ \A m \in selection : pc[m] = "done"
       /\ engines.of = [m \in Methods |-> IF pc[m] = "done" THEN ResultOf(m) ELSE NoResult]
  /\ stage = "compare" => oracle.age = "new" /\ \A m \in selection : oracle.of[m] # Missing

\* What is extracted for a release is of that release, or torn.
Libraries ==
  /\ \A v \in Versions : lib[v] \in {"absent", "torn", v}
  /\ stage \in {"runner"} \cup Late => lib[version] # "absent"

\* The script answers when it ends.
Answered == exit = -1 <=> stage # "idle"

OracleInv == TypeOK /\ NothingStale /\ Work /\ HandedOn /\ Libraries /\ Answered

\* What is said of the files that outlive a run.
FilesOK(l, i, b) ==
  /\ l \in [Versions -> Versions \cup {"absent", "torn"}]
  /\ \A v \in Versions : l[v] \in {"absent", "torn", v}
  /\ i \in [Methods -> {"none", "old", "new"}]
  /\ b \in [Methods -> Buckets \cup {NoRow}]

\* The initial state satisfies the invariant.
LEMMA InvInit == Init => OracleInv
  <1> SUFFICES ASSUME Init PROVE OracleInv
    OBVIOUS
  <1>1. TypeOK
    <2>1. runs \in 0..Len(Flags)
      BY OracleAssumption DEF Init
    <2>2. options \in AllFlags
      BY DEF Init, NoOptions, AllFlags
    <2>3. engines \in [age : {"none", "old", "new"}, of : [Methods -> Results]]
      BY DEF Init, Json, NoneOf, NoResult, Results, Result, NoStage
    <2>4. oracle \in [age : {"none", "old", "new"}, of : [Methods -> Outcomes \cup {Missing}]]
      BY DEF Init, Json, NoneOf, Missing
    <2>5. codes \in [Methods -> [translate : {NoCode, 0, 1, TimeoutRc}, ionExists : BOOLEAN,
                            interpret : {NoCode, TimeoutRc} \cup InterpretCodes,
                            generate  : {NoCode, 0, 1, TimeoutRc}, stale : BOOLEAN]]
      BY DEF Init, NoneOf, NoCodes
    <2> QED
      BY <2>1, <2>2, <2>3, <2>4, <2>5, OracleAssumption
         DEF Init, TypeOK, Stages, NoneOf, Subprocs, Finished
  <1>2. NothingStale /\ Work
    BY DEF Init, NothingStale, Work, WorkDone, WorkStarted, NoneOf, NoCodes, Late
  <1>3. HandedOn /\ Libraries /\ Answered
    BY DEF Init, HandedOn, Libraries, Answered, Json, Late
  <1> QED
    BY <1>1, <1>2, <1>3 DEF OracleInv

\* Leaving the script, for whatever reason, restores everything but the files.
LEMMA LeaveKeeps ==
  ASSUME OracleInv, NEW code \in {0, 1, 3, 137}, Leave(code), FilesOK(lib', ion', baseline')
  PROVE  OracleInv'
  <1>1. /\ stage' = "idle" /\ exit' = code
        /\ selection' = {} /\ hung' = {} /\ clash' = {}
        /\ pc' = NoneOf("idle") /\ codes' = NoneOf(NoCodes)
        /\ options' = NoOptions
        /\ UNCHANGED <<runs, version>>
    BY DEF Leave
  <1>2. engines' = Json(IF engines.age = "none" THEN "none" ELSE "old", NoneOf(NoResult))
    BY DEF Leave
  <1>3. oracle' = Json(IF oracle.age = "none" THEN "none" ELSE "old", NoneOf(Missing))
    BY DEF Leave
  <1>4. TypeOK'
    <2>2. options' \in AllFlags
      BY <1>1 DEF NoOptions, AllFlags
    <2>3. engines' \in [age : {"none", "old", "new"}, of : [Methods -> Results]]
      BY <1>2 DEF Json, NoneOf, NoResult, Results, Result, NoStage
    <2>4. oracle' \in [age : {"none", "old", "new"}, of : [Methods -> Outcomes \cup {Missing}]]
      BY <1>3 DEF Json, NoneOf, Missing
    <2>5. codes' \in [Methods -> [translate : {NoCode, 0, 1, TimeoutRc}, ionExists : BOOLEAN,
                            interpret : {NoCode, TimeoutRc} \cup InterpretCodes,
                            generate  : {NoCode, 0, 1, TimeoutRc}, stale : BOOLEAN]]
      BY <1>1 DEF NoneOf, NoCodes
    <2> QED
      BY <1>1, <2>2, <2>3, <2>4, <2>5
         DEF OracleInv, TypeOK, FilesOK, Stages, NoneOf, Subprocs, Finished
  <1>5. NothingStale' /\ Work'
    BY <1>1 DEF NothingStale, Work, WorkDone, WorkStarted, NoneOf, NoCodes, Late
  <1>6. engines'.of = NoneOf(NoResult)
    BY <1>2 DEF Json
  <1>7. HandedOn' /\ Libraries' /\ Answered'
    BY <1>1, <1>6 DEF HandedOn, Libraries, Answered, FilesOK, Late
  <1> QED
    BY <1>4, <1>5, <1>7 DEF OracleInv

\* The files as they are satisfy it, and so does what a run's translations become.
LEMMA FilesStay ==
  ASSUME OracleInv
  PROVE  /\ FilesOK(lib, ion, baseline)
         /\ FilesOK(lib, Aged(ion), baseline)
         /\ \A b \in [Methods -> Buckets \cup {NoRow}] :
              FilesOK(lib, Aged(ion), b) /\ FilesOK(lib, NoneOf("none"), b)
  BY DEF OracleInv, TypeOK, Libraries, FilesOK, Aged, NoneOf

\* The script's own stages keep the invariant.
LEMMA StartKeeps == ASSUME OracleInv, NEW flags \in AllFlags, Start(flags) PROVE OracleInv'
  <1>1. runs' \in 0..Len(Flags)
    BY OracleAssumption DEF Start, OracleInv, TypeOK
  <1>2. /\ stage = "idle" /\ stage' = "plan" /\ exit' = -1
        /\ options' = flags /\ version' \in Versions
        /\ UNCHANGED <<lib, ion, engines, oracle, baseline, selection, pc, hung, clash, codes>>
    BY DEF Start, disk
  <1>3. TypeOK'
    BY <1>1, <1>2 DEF OracleInv, TypeOK, Stages
  <1>4. NothingStale' /\ Libraries' /\ Answered'
    BY <1>2 DEF OracleInv, NothingStale, Libraries, Answered, Late
  <1>5. Work'
    BY <1>2 DEF OracleInv, Work, WorkDone, WorkStarted
  <1>6. HandedOn'
    BY <1>2 DEF OracleInv, HandedOn, Late
  <1> QED
    BY <1>3, <1>4, <1>5, <1>6 DEF OracleInv

\* Planning writes new sources and plans, and the selection nobody has touched yet.
LEMMA PlanKeeps == ASSUME OracleInv, Plan PROVE OracleInv'
  <1>1. selection' \subseteq Methods
    BY DEF Plan, OracleInv, TypeOK, AllFlags
  <1>2. \A m \in Methods : ion'[m] = "none"
    BY DEF Plan, ClearGen, NoneOf
  <1>3. TypeOK'
    BY <1>1 DEF Plan, OracleInv, TypeOK, Stages, ClearGen, NoneOf
  <1> QED
    BY <1>2, <1>3 DEF Plan, OracleInv, NothingStale, Work, WorkDone, WorkStarted, HandedOn,
                      Libraries, Answered, Late

\* Extraction hands the workers a library, of the version asked for or what is left of one.
LEMMA ExtractKeeps == ASSUME OracleInv, Extract PROVE OracleInv'
  <1>1. lib' = [lib EXCEPT ![version] = IF lib[version] = "absent" THEN version ELSE lib[version]]
    BY DEF Extract, LibDir
  <1>2. TypeOK'
    <2>1. lib' \in [Versions -> Versions \cup {"absent", "torn"}]
      BY <1>1 DEF OracleInv, TypeOK
    <2>2. pc' \in [Methods -> {"idle", "queued"} \cup Subprocs \cup Finished]
      BY DEF Extract
    <2> QED
      BY <2>1, <2>2 DEF Extract, OracleInv, TypeOK, Stages
  <1>3. Libraries'
    BY <1>1, OracleAssumption DEF Extract, OracleInv, TypeOK, Libraries, Late
  <1>4. \A m \in Methods : pc'[m] \in {"queued", "idle"}
    BY DEF Extract
  <1>5. Work'
    BY <1>4 DEF Extract, OracleInv, Work, WorkDone, WorkStarted
  <1> QED
    BY <1>2, <1>3, <1>5 DEF Extract, OracleInv, NothingStale, HandedOn, Answered, Late

\* The results are written when every planned file has one.
LEMMA WriteEnginesKeeps == ASSUME OracleInv, WriteEngines PROVE OracleInv'
  <1>1. \A m \in Methods : ResultOf(m) \in Results
    <2> SUFFICES ASSUME NEW m \in Methods PROVE ResultOf(m) \in Results
      OBVIOUS
    <2> DEFINE parse == ClassifyParse(codes[m].translate, codes[m].ionExists)
    <2>1. parse \in {"ok", "failed", "timeout"}
      BY DEF ClassifyParse
    <2>2. ClassifyInterpret(codes[m].interpret) \in {"ran", "timeout", "untranslatable", "runtimeProblem", "error"}
      BY DEF ClassifyInterpret
    <2>3. ClassifyGenerated(IF m \in clash THEN 1 ELSE codes[m].generate) \in {"clean", "timeout", "failed"}
      BY DEF ClassifyGenerated
    <2> QED
      BY <2>1, <2>2, <2>3 DEF ResultOf, Results, Result, NoResult, NoStage
  <1>2. engines' = Json("new", [m \in Methods |-> IF pc[m] = "done" THEN ResultOf(m) ELSE NoResult])
    BY DEF WriteEngines
  <1>3. NoResult \in Results
    BY DEF NoResult, Result, Results
  <1>4. engines' \in [age : {"none", "old", "new"}, of : [Methods -> Results]]
    BY <1>1, <1>2, <1>3 DEF Json
  <1>5. TypeOK'
    BY <1>4 DEF WriteEngines, OracleInv, TypeOK, Stages
  <1>6. engines'.age = "new" /\ engines'.of = [m \in Methods |-> IF pc[m] = "done" THEN ResultOf(m) ELSE NoResult]
    BY <1>2 DEF Json
  <1>7. \A m : ResultOf(m)' = ResultOf(m)
    BY DEF WriteEngines, ResultOf
  <1>8. HandedOn'
    BY <1>6, <1>7 DEF WriteEngines, Drained, HandedOn, Late
  <1> QED
    BY <1>5, <1>8 DEF WriteEngines, OracleInv, NothingStale, Work, WorkDone, WorkStarted,
                      Libraries, Answered, Late

\* The originals give every planned file an outcome.
LEMMA RunOracleKeeps == ASSUME OracleInv, RunOracle PROVE OracleInv'
  <1>1. PICK outcome \in [selection -> Outcomes] :
          oracle' = Json("new", [m \in Methods |-> IF m \in selection THEN outcome[m] ELSE Missing])
    BY DEF RunOracle
  <1>2. oracle' \in [age : {"none", "old", "new"}, of : [Methods -> Outcomes \cup {Missing}]]
    BY <1>1 DEF Json
  <1>3. \A m \in selection : oracle'.of[m] # Missing
    BY <1>1 DEF Json, OracleInv, TypeOK, Outcomes, Missing
  <1>4. oracle'.age = "new"
    BY <1>1 DEF Json
  <1>5. TypeOK'
    BY <1>2 DEF RunOracle, OracleInv, TypeOK, Stages
  <1>6. \A m : ResultOf(m)' = ResultOf(m)
    BY DEF RunOracle, ResultOf
  <1>7. HandedOn'
    BY <1>3, <1>4, <1>6 DEF RunOracle, OracleInv, HandedOn, Late
  <1> QED
    BY <1>5, <1>7 DEF RunOracle, OracleInv, NothingStale, Work, WorkDone, WorkStarted,
                      Libraries, Answered, Late

\* The rows of a comparison are buckets.
LEMMA RowsTyped == OracleInv => Rows \in [Methods -> Buckets \cup {NoRow}]
  <1>1. \A r, o : Bucket(r, o) \in Buckets
    BY DEF Bucket, InterpretBucket, Buckets, Exclusions
  <1> QED
    BY <1>1 DEF Rows

\* Whatever ends the script keeps the invariant.
LEMMA EndsKeep ==
  OracleInv /\ (\/ Unsupported \/ (\E code \in {1, 137} : Killed(code)) \/ KilledExtracting
                \/ RunnerFails \/ Update \/ Compare) => OracleInv'
  <1> SUFFICES ASSUME OracleInv PROVE
        (\/ Unsupported \/ (\E code \in {1, 137} : Killed(code)) \/ KilledExtracting
         \/ RunnerFails \/ Update \/ Compare) => OracleInv'
    OBVIOUS
  <1>1. CASE Unsupported
    <2>1. Leave(3) /\ FilesOK(lib', ion', baseline')
      BY <1>1, FilesStay DEF Unsupported
    <2> QED
      BY <2>1, LeaveKeeps
  <1>2. ASSUME NEW code \in {1, 137}, Killed(code) PROVE OracleInv'
    <2>1. Leave(code) /\ FilesOK(lib', ion', baseline')
      BY <1>2, FilesStay DEF Killed
    <2> QED
      BY <2>1, LeaveKeeps
  <1>3. CASE KilledExtracting
    <2>1. FilesOK(lib', ion', baseline')
      <3>1. ion' = Aged(ion) /\ baseline' = baseline
        BY <1>3 DEF KilledExtracting
      <3>2. lib' \in {lib, [lib EXCEPT ![version] = IF lib[version] = "absent" THEN "torn" ELSE lib[version]]}
        BY <1>3 DEF KilledExtracting, LibDir
      <3> QED
        BY <3>1, <3>2, FilesStay DEF FilesOK
    <2> QED
      BY <1>3, <2>1, LeaveKeeps DEF KilledExtracting
  <1>4. CASE RunnerFails
    <2>1. Leave(1) /\ FilesOK(lib', ion', baseline')
      BY <1>4, FilesStay DEF RunnerFails
    <2> QED
      BY <2>1, LeaveKeeps
  <1>5. CASE Update
    <2>1. Leave(0) /\ FilesOK(lib', ion', baseline')
      BY <1>5, FilesStay, RowsTyped DEF Update, Recorded
    <2> QED
      BY <2>1, LeaveKeeps
  <1>6. CASE Compare
    <2>1. FilesOK(lib', ion', baseline')
      <3>1. baseline \in [Methods -> Buckets \cup {NoRow}]
        BY DEF OracleInv, TypeOK
      <3> QED
        BY <1>6, <3>1, FilesStay DEF Compare
    <2>2. PICK code \in {0, 1} : Leave(code)
      BY <1>6 DEF Compare
    <2> QED
      BY <2>1, <2>2, LeaveKeeps
  <1> QED
    BY <1>1, <1>2, <1>3, <1>4, <1>5, <1>6

\* A step of the workers leaves alone what the script hands on.
LEMMA WorkerKeeps ==
  ASSUME OracleInv, stage = "runner",
         UNCHANGED <<stage, runs, options, version, selection, lib, engines, oracle, baseline,
                     exit>>,
         TypeOK', Work',
         \A m \in Methods : ion'[m] # "old" /\ ~codes'[m].stale
  PROVE  OracleInv'
  <1>1. NothingStale' /\ Libraries' /\ Answered'
    BY DEF OracleInv, NothingStale, Libraries, Answered, Late
  <1>2. HandedOn'
    BY DEF OracleInv, HandedOn, Late
  <1> QED
    BY <1>1, <1>2 DEF OracleInv

\* A subprocess returns.
LEMMA ReturnKeeps ==
  ASSUME OracleInv, NEW m \in Methods, NEW rc \in {0, 1, TimeoutRc} \cup InterpretCodes,
         rc \in Codes(pc[m]) \cup {TimeoutRc}, Returns(m, rc), hung' \subseteq Methods,
         UNCHANGED <<stage, runs, options, version, selection, lib, engines, oracle, baseline,
                     exit>>
  PROVE  OracleInv'
  <1> DEFINE C == [translate : {NoCode, 0, 1, TimeoutRc}, ionExists : BOOLEAN,
                   interpret : {NoCode, TimeoutRc} \cup InterpretCodes,
                   generate  : {NoCode, 0, 1, TimeoutRc}, stale : BOOLEAN]
  <1>0. /\ codes \in [Methods -> C] /\ codes[m] \in C
        /\ pc \in [Methods -> {"idle", "queued"} \cup Subprocs \cup Finished]
        /\ ion \in [Methods -> {"none", "old", "new"}]
        /\ clash = {} /\ rc # NoCode
    BY OracleAssumption DEF OracleInv, TypeOK, Work, NoCode, TimeoutRc
  <1>1. ASSUME NEW writes \in BOOLEAN, Translated(m, rc, writes) PROVE OracleInv'
    <2> DEFINE file == IF rc = 0 /\ writes THEN "new" ELSE ion[m]
    <2> DEFINE ok == ClassifyParse(rc, file # "none") = "ok"
    <2>1. /\ stage = "runner" /\ pc[m] = "translate"
          /\ ion' = [ion EXCEPT ![m] = file]
          /\ codes' = [codes EXCEPT ![m].translate = rc, ![m].ionExists = file # "none",
                                    ![m].stale = ok /\ file = "old"]
          /\ pc' = [pc EXCEPT ![m] = IF ok THEN "interpret" ELSE "done"]
          /\ UNCHANGED clash
      BY <1>1 DEF Translated, Running
    <2>2. file \in {"none", "new"} /\ rc \in {0, 1, TimeoutRc}
      BY <1>0, <2>1 DEF OracleInv, NothingStale, Codes
    <2>3. codes'[m] = [translate |-> rc, ionExists |-> (file # "none"), interpret |-> codes[m].interpret,
                       generate |-> codes[m].generate, stale |-> FALSE]
      BY <1>0, <2>1, <2>2
    <2>4. \A o \in Methods \ {m} : codes'[o] = codes[o] /\ pc'[o] = pc[o] /\ ion'[o] = ion[o]
      BY <1>0, <2>1
    <2>5. codes'[m] \in C /\ codes'[m].translate = rc /\ codes'[m].ionExists = (file # "none") /\ ~codes'[m].stale
      BY <1>0, <2>2, <2>3
    <2>6. codes' \in [Methods -> C]
      BY <1>0, <2>1, <2>4, <2>5
    <2>7. pc'[m] = (IF ok THEN "interpret" ELSE "done") /\ ion'[m] = file
      BY <1>0, <2>1
    <2>8. TypeOK'
      <3>1. pc' \in [Methods -> {"idle", "queued"} \cup Subprocs \cup Finished]
        BY <1>0, <2>1 DEF Subprocs, Finished
      <3>2. ion' \in [Methods -> {"none", "old", "new"}]
        BY <1>0, <2>1, <2>2
      <3> QED
        BY <3>1, <3>2, <2>1, <2>6 DEF OracleInv, TypeOK
    <2>9. Work'
      <3>1. ASSUME NEW o \in Methods \ {m} PROVE WorkDone(o)' /\ WorkStarted(o)'
        BY <2>4 DEF OracleInv, Work, WorkDone, WorkStarted
      <3>2. WorkDone(m)' /\ WorkStarted(m)'
        BY <1>0, <2>5, <2>7 DEF WorkDone, WorkStarted
      <3> QED
        BY <3>1, <3>2, <1>0, <2>1 DEF Work
    <2>10. \A o \in Methods : ion'[o] # "old" /\ ~codes'[o].stale
      BY <2>1, <2>2, <2>4, <2>5, <2>7 DEF OracleInv, NothingStale
    <2> HIDE DEF file, ok, C
    <2> QED
      BY <2>1, <2>8, <2>9, <2>10, WorkerKeeps
  <1>2. CASE Interpreted(m, rc)
    <2>1. /\ stage = "runner" /\ pc[m] = "interpret"
          /\ codes' = [codes EXCEPT ![m].interpret = rc]
          /\ pc' = [pc EXCEPT ![m] = "generate"]
          /\ UNCHANGED ion
      BY <1>2 DEF Interpreted, Running
    <2>2. clash' = {}
      <3>1. {o \in MakesFile \ {m} : pc[o] = "generate" /\ Cwd(o) = Cwd(m)} = {}
        BY DEF Cwd
      <3> QED
        BY <3>1, <1>0, <1>2 DEF Interpreted
    <2>3. rc \in InterpretCodes \cup {TimeoutRc}
      BY <2>1 DEF Codes
    <2>4. \A o \in Methods \ {m} : codes'[o] = codes[o] /\ pc'[o] = pc[o]
      BY <1>0, <2>1
    <2>5. /\ codes'[m] \in C /\ codes'[m].translate = codes[m].translate
          /\ codes'[m].stale = codes[m].stale /\ pc'[m] = "generate"
      BY <1>0, <2>1, <2>3
    <2>6. codes' \in [Methods -> C]
      BY <1>0, <2>1, <2>4, <2>5
    <2>7. TypeOK'
      <3>1. pc' \in [Methods -> {"idle", "queued"} \cup Subprocs \cup Finished]
        BY <1>0, <2>1 DEF Subprocs, Finished
      <3> QED
        BY <3>1, <2>1, <2>2, <2>6 DEF OracleInv, TypeOK
    <2>8. Work'
      <3>1. ASSUME NEW o \in Methods \ {m} PROVE WorkDone(o)' /\ WorkStarted(o)'
        BY <2>4 DEF OracleInv, Work, WorkDone, WorkStarted
      <3>2. WorkDone(m)' /\ WorkStarted(m)'
        BY <2>1, <2>5 DEF OracleInv, Work, WorkDone, WorkStarted
      <3> QED
        BY <3>1, <3>2, <2>2 DEF Work
    <2>9. \A o \in Methods : ion'[o] # "old" /\ ~codes'[o].stale
      BY <2>1, <2>4, <2>5 DEF OracleInv, NothingStale
    <2> HIDE DEF C
    <2> QED
      BY <2>1, <2>7, <2>8, <2>9, WorkerKeeps
  <1>3. CASE Generated(m, rc)
    <2>1. /\ stage = "runner" /\ pc[m] = "generate"
          /\ codes' = [codes EXCEPT ![m].generate = rc]
          /\ pc' = [pc EXCEPT ![m] = "done"]
          /\ UNCHANGED <<ion, clash>>
      BY <1>3 DEF Generated, Running
    <2>3. rc \in {0, 1, TimeoutRc}
      BY <2>1 DEF Codes
    <2>4. \A o \in Methods \ {m} : codes'[o] = codes[o] /\ pc'[o] = pc[o]
      BY <1>0, <2>1
    <2>5. /\ codes'[m] \in C /\ codes'[m].translate = codes[m].translate
          /\ codes'[m].generate = rc
          /\ codes'[m].stale = codes[m].stale /\ pc'[m] = "done"
      BY <1>0, <2>1, <2>3
    <2>6. codes' \in [Methods -> C]
      BY <1>0, <2>1, <2>4, <2>5
    <2>7. TypeOK'
      <3>1. pc' \in [Methods -> {"idle", "queued"} \cup Subprocs \cup Finished]
        BY <1>0, <2>1 DEF Subprocs, Finished
      <3> QED
        BY <3>1, <2>1, <2>6 DEF OracleInv, TypeOK
    <2>8. Work'
      <3>1. ASSUME NEW o \in Methods \ {m} PROVE WorkDone(o)' /\ WorkStarted(o)'
        BY <2>4 DEF OracleInv, Work, WorkDone, WorkStarted
      <3>2. WorkDone(m)' /\ WorkStarted(m)'
        BY <1>0, <2>1, <2>5 DEF OracleInv, Work, WorkDone, WorkStarted
      <3> QED
        BY <3>1, <3>2, <1>0, <2>1 DEF Work
    <2>9. \A o \in Methods : ion'[o] # "old" /\ ~codes'[o].stale
      BY <2>1, <2>4, <2>5 DEF OracleInv, NothingStale
    <2> HIDE DEF C
    <2> QED
      BY <2>1, <2>7, <2>8, <2>9, WorkerKeeps
  <1> QED
    BY <1>1, <1>2, <1>3 DEF Returns

\* A worker that starts, is stuck or raises.
LEMMA WorkersKeep ==
  ASSUME OracleInv, NEW m \in Methods, Worker(m) \/ Hangs(m) \/ Raises(m)
  PROVE  OracleInv'
  <1>1. CASE Ends(m)
    <2>1. PICK rc \in {0, 1} \cup InterpretCodes : rc \in Codes(pc[m]) /\ Returns(m, rc)
      BY <1>1 DEF Ends
    <2>2. hung' \subseteq Methods
      BY <1>1 DEF Ends, OracleInv, TypeOK
    <2> QED
      BY <1>1, <2>1, <2>2, ReturnKeeps DEF Ends
  <1>2. CASE Expire(m)
    <2>1. hung' \subseteq Methods /\ Returns(m, TimeoutRc)
      BY <1>2 DEF Expire, OracleInv, TypeOK
    <2> QED
      BY <1>2, <2>1, ReturnKeeps DEF Expire
  <1>3. ASSUME NEW to \in {"translate", "raised"}, pc' = [pc EXCEPT ![m] = to], stage = "runner",
               UNCHANGED <<stage, runs, options, version, selection, disk, hung, clash, codes, exit>>
        PROVE  OracleInv'
    <2>1. \A o \in Methods : pc'[o] = (IF o = m THEN to ELSE pc[o])
      BY <1>3 DEF OracleInv, TypeOK
    <2>2. TypeOK'
      BY <1>3, <2>1 DEF OracleInv, TypeOK, disk, Subprocs, Finished
    <2>3. Work'
      BY <1>3, <2>1 DEF OracleInv, Work, WorkDone, WorkStarted
    <2>4. \A o \in Methods : ion'[o] # "old" /\ ~codes'[o].stale
      BY <1>3 DEF OracleInv, NothingStale, disk
    <2> QED
      BY <1>3, <2>2, <2>3, <2>4, WorkerKeeps DEF disk
  <1>4. CASE Hangs(m)
    <2>1. stage = "runner" /\ hung' \subseteq Methods
          /\ UNCHANGED <<stage, runs, options, version, selection, disk, pc, clash, codes, exit>>
      BY <1>4 DEF Hangs, OracleInv, TypeOK
    <2>2. TypeOK'
      BY <2>1 DEF OracleInv, TypeOK, disk
    <2>3. Work'
      BY <2>1 DEF OracleInv, Work, WorkDone, WorkStarted
    <2>4. \A o \in Methods : ion'[o] # "old" /\ ~codes'[o].stale
      BY <2>1 DEF OracleInv, NothingStale, disk
    <2> QED
      BY <2>1, <2>2, <2>3, <2>4, WorkerKeeps DEF disk
  <1>5. CASE Take(m)
    BY <1>3, <1>5 DEF Take
  <1>6. CASE Raises(m)
    BY <1>3, <1>6 DEF Raises
  <1> QED
    BY <1>1, <1>2, <1>4, <1>5, <1>6 DEF Worker

\* Every step keeps the invariant.
LEMMA InvNext == OracleInv /\ [Next]_vars => OracleInv'
  <1> SUFFICES ASSUME OracleInv, [Next]_vars PROVE OracleInv'
    OBVIOUS
  <1>1. ASSUME hung' \subseteq Methods,
               UNCHANGED <<stage, runs, options, version, selection, disk, pc, clash, codes, exit>>
        PROVE  OracleInv'
    <2>1. UNCHANGED <<lib, ion, engines, oracle, baseline>>
      BY <1>1 DEF disk
    <2>2. TypeOK' /\ NothingStale' /\ Libraries' /\ Answered'
      BY <1>1, <2>1 DEF OracleInv, TypeOK, NothingStale, Libraries, Answered
    <2>3. Work'
      BY <1>1 DEF OracleInv, Work, WorkDone, WorkStarted
    <2>4. \A m : ResultOf(m)' = ResultOf(m)
      BY <1>1 DEF ResultOf
    <2>5. HandedOn'
      BY <1>1, <2>1, <2>4 DEF OracleInv, HandedOn
    <2> QED
      BY <2>2, <2>3, <2>5 DEF OracleInv
  <1>2. CASE UNCHANGED vars
    <2>1. hung' \subseteq Methods
      BY <1>2 DEF vars, OracleInv, TypeOK
    <2> QED
      BY <1>1, <1>2, <2>1 DEF vars
  <1>3. ASSUME NEW m \in Methods, OriginalHangs(m) PROVE OracleInv'
    <2>1. hung' \subseteq Methods
      BY <1>3 DEF OriginalHangs
    <2> QED
      BY <1>1, <1>3, <2>1 DEF OriginalHangs
  <1> QED
    BY <1>2, <1>3, StartKeeps, PlanKeeps, ExtractKeeps, WriteEnginesKeeps, RunOracleKeeps, EndsKeep,
       WorkersKeep DEF Next, Script

\* The invariant holds of every reachable state.
THEOREM RunsOfTheSuite == Spec => []OracleInv
  BY InvInit, InvNext, PTL DEF Spec

\* The variables stay in their types, for every suite and pool.
THEOREM OracleTyped == Spec => []TypeOK
  <1>1. OracleInv => TypeOK
    BY DEF OracleInv
  <1> QED
    BY <1>1, RunsOfTheSuite, PTL

\* No run reads what an earlier one left, wherever that one was killed.
THEOREM ReadsItsOwn == Spec => []OwnArtifacts
  <1>1. OracleInv => OwnArtifacts
    BY DEF OracleInv, OwnArtifacts, NothingStale, HandedOn, Late
  <1> QED
    BY <1>1, RunsOfTheSuite, PTL

\* What the later stages read of a planned method.
LEMMA ResultsRead ==
  ASSUME OracleInv, stage \in Late, NEW m \in selection
  PROVE  /\ m \in Methods /\ pc[m] = "done"
         /\ engines.of[m] = ResultOf(m) /\ ResultOf(m) # NoResult
  <1>1. m \in Methods /\ pc[m] = "done"
    BY DEF OracleInv, TypeOK, HandedOn
  <1>2. engines.of[m] = ResultOf(m)
    BY <1>1 DEF OracleInv, HandedOn
  <1>3. codes[m].translate # NoCode
    BY <1>1 DEF OracleInv, Work, WorkDone
  <1>4. ResultOf(m).parse # NoStage
    BY <1>3 DEF ResultOf, Result, ClassifyParse, NoStage
  <1> QED
    BY <1>1, <1>2, <1>4 DEF NoResult, Result

\* Every planned method reaches the comparison.
THEOREM AllAccounted == Spec => []PlannedAccounted
  <1>1. OracleInv => PlannedAccounted
    BY ResultsRead DEF OracleInv, HandedOn, PlannedAccounted, Late
  <1> QED
    BY <1>1, RunsOfTheSuite, PTL

\* The lowering is judged by its own program, however many run at once.
THEOREM JudgedAlone == Spec => []LoweringJudgedAlone
  <1>1. ASSUME OracleInv PROVE LoweringJudgedAlone
    <2> SUFFICES ASSUME NEW m \in Methods, engines.of[m].generated # NoStage
                 PROVE  engines.of[m].generated = ClassifyGenerated(codes[m].generate)
      BY DEF LoweringJudgedAlone
    <2>1. stage \in Late
      BY <1>1 DEF OracleInv, HandedOn, NoneOf, NoResult, Result
    <2>2. engines.of[m] = (IF pc[m] = "done" THEN ResultOf(m) ELSE NoResult)
      BY <1>1, <2>1 DEF OracleInv, HandedOn
    <2>3. engines.of[m] = ResultOf(m)
      BY <2>2 DEF NoResult, Result
    <2>4. m \notin clash
      BY <1>1 DEF OracleInv, Work
    <2> QED
      BY <2>3, <2>4 DEF ResultOf, Result, NoResult
  <1> QED
    BY <1>1, RunsOfTheSuite, PTL

\* The originals run with the helpers of their own release, or with what is left of them.
THEOREM HelpersAreOfVersion == Spec => []HelpersOfVersion
  <1>1. OracleInv => HelpersOfVersion
    BY DEF OracleInv, TypeOK, Libraries, HelpersOfVersion, LibDir, Late
  <1> QED
    BY <1>1, RunsOfTheSuite, PTL

-----------------------------------------------------------------------------

\* A comparison sees of each planned method what its subprocesses returned.
LEMMA RowsAreSeen == ASSUME OracleInv, stage = "compare" PROVE Rows = Seen
  <1> SUFFICES ASSUME NEW m \in Methods PROVE Rows[m] = Seen[m]
    BY DEF Rows, Seen
  <1>1. CASE m \notin selection
    BY <1>1 DEF Rows, Seen
  <1>2. CASE m \in selection
    <2>1. engines.of[m] = ResultOf(m) /\ ResultOf(m) # NoResult
      BY <1>2, ResultsRead DEF Late
    <2>2. ASSUME ResultOf(m).parse = "ok"
          PROVE  [ResultOf(m) EXCEPT !.generated = ClassifyGenerated(codes[m].generate)] = ResultOf(m)
      <3>1. m \notin clash
        BY DEF OracleInv, Work
      <3>2. ResultOf(m) = Result("ok", ClassifyInterpret(codes[m].interpret), ClassifyGenerated(codes[m].generate))
        BY <2>1, <2>2, <3>1 DEF ResultOf, Result
      <3> QED
        BY <3>2 DEF Result
    <2> QED
      BY <1>2, <2>1, <2>2 DEF Rows, Seen
  <1> QED
    BY <1>1, <1>2

\* The fields of a result are the stages it was put together from.
LEMMA ResultFields ==
  \A p, i, g : /\ Result(p, i, g).parse = p /\ Result(p, i, g).interpret = i
               /\ Result(p, i, g).generated = g
  BY DEF Result

\* A method that is lost shows in the comparison.
LEMMA LossShows ==
  ASSUME OracleInv, stage = "compare", NEW m \in Methods, Lost(m)
  PROVE  m \in Changed(Rows, baseline)
  <1>1. baseline[m] = "agree" /\ m \in DOMAIN baseline
    BY DEF Lost, OracleInv, TypeOK
  <1>2. CASE m \notin selection
    BY <1>1, <1>2 DEF Rows, Changed, Exclusions, NoRow
  <1>3. CASE m \in selection
    <2>1. /\ pc[m] = "done" /\ engines.of[m] = ResultOf(m) /\ ResultOf(m) # NoResult
          /\ oracle.of[m] = "clean" /\ ~AllRan(m) /\ codes[m].generate \in {NoCode, 0, TimeoutRc}
      BY <1>3, ResultsRead DEF Late, Lost
    <2>2. codes[m].translate # NoCode /\ m \notin clash
      BY <2>1 DEF OracleInv, Work, WorkDone
    <2>3. Rows[m] = Bucket(ResultOf(m), "clean")
      BY <1>3, <2>1 DEF Rows
    <2>4. ASSUME NEW how, how = ClassifyParse(codes[m].translate, codes[m].ionExists), how # "ok"
          PROVE  m \in Changed(Rows, baseline)
      <3>1. ResultOf(m) = Result(how, NoStage, NoStage)
        BY <2>2, <2>4 DEF ResultOf
      <3>2. ResultOf(m).parse = how /\ ResultOf(m).generated = NoStage
        BY <3>1, ResultFields
      <3>3. Rows[m] \in {"error", "untranslatable"}
        BY <2>3, <2>4, <3>2 DEF Bucket, Missing, NoStage
      <3> QED
        BY <1>1, <3>3 DEF Changed, Exclusions
    <2>5. CASE ClassifyParse(codes[m].translate, codes[m].ionExists) = "ok"
      <3>1. ResultOf(m) = Result("ok", ClassifyInterpret(codes[m].interpret), ClassifyGenerated(codes[m].generate))
        BY <2>2, <2>5 DEF ResultOf
      <3>2. codes[m].generate \in {0, TimeoutRc} /\ codes[m].translate = 0
        BY <2>1, <2>5 DEF OracleInv, Work, WorkDone, ClassifyParse
      <3>3. CASE codes[m].generate = TimeoutRc
        <4>1. Rows[m] = "error"
          BY <2>3, <3>1, <3>3 DEF Bucket, Result, ClassifyGenerated, TimeoutRc, Missing
        <4> QED
          BY <1>1, <4>1 DEF Changed, Exclusions
      <3>4. CASE codes[m].generate = 0
        <4>1. codes[m].interpret # 0
          BY <2>1, <3>2, <3>4 DEF AllRan
        <4>2. Rows[m] = InterpretBucket(ClassifyInterpret(codes[m].interpret))
          BY <2>3, <3>1, <3>4 DEF Bucket, Result, ClassifyGenerated, TimeoutRc, Missing
        <4>3. ClassifyInterpret(codes[m].interpret) \in {"timeout", "untranslatable", "runtimeProblem", "error"}
          BY <4>1 DEF ClassifyInterpret
        <4>4. Rows[m] \in {"error", "untranslatable", "needsTriage"}
          BY <4>2, <4>3 DEF InterpretBucket
        <4> QED
          BY <1>1, <4>4 DEF Changed, Exclusions
      <3> QED
        BY <3>2, <3>3, <3>4
    <2> QED
      BY <2>4, <2>5
  <1> QED
    BY <1>2, <1>3

\* A run that loses a method does not pass.
THEOREM RegressionsFail == Spec => RegressionFails
  <1>1. ASSUME OracleInv, Next, stage = "compare", ~options.update, NEW m \in Methods, Lost(m)
        PROVE  exit' # 0
    <2>1. CASE Compare
      BY <1>1, <2>1, LossShows DEF Compare, Leave
    <2>2. ASSUME NEW code \in {1, 137}, Killed(code) PROVE exit' # 0
      BY <2>2 DEF Killed, Leave
    <2>3. ASSUME NEW o \in Methods PROVE ~(Take(o) \/ Hangs(o) \/ Raises(o) \/ OriginalHangs(o) \/ Ends(o) \/ Expire(o))
      BY <1>1 DEF Take, Hangs, Raises, OriginalHangs, Ends, Expire, Returns, Translated, Interpreted, Generated, Running
    <2> QED
      BY <1>1, <2>1, <2>2, <2>3
         DEF Next, Script, Worker, Start, Unsupported, KilledExtracting, Plan, Extract, WriteEngines,
             RunnerFails, RunOracle, Update
  <1>2. OracleInv /\ [Next]_vars =>
          [stage = "compare" /\ ~options.update /\ (\E m \in Methods : Lost(m)) => exit' # 0]_vars
    BY <1>1
  <1> QED
    BY <1>2, RunsOfTheSuite, PTL DEF Spec, RegressionFails

-----------------------------------------------------------------------------

\* Nothing is seen of a run before its comparison.
LEMMA UnseenBefore == stage # "compare" => Seen = Gate!Nothing
  BY DEF Seen, Gate!Nothing

\* The suite starts where the gate does.
LEMMA GateInit == Init => Gate!Init
  BY DEF Init, Gate!Init, Gate!Nothing, Seen, Answer, NoneOf

\* Leaving the script ends a run of the gate.
LEMMA GateLeaves ==
  ASSUME OracleInv, stage # "idle", NEW code \in {0, 1, 3, 137}, Leave(code)
  PROVE  /\ Answer = "none" /\ Seen' = Gate!Nothing
         /\ Answer' = (IF code = 0 THEN "pass" ELSE IF code = 3 THEN "skip" ELSE "fail")
  <1>1. exit = -1 /\ exit' = code /\ stage' = "idle"
    BY DEF OracleInv, Answered, Leave
  <1> QED
    BY <1>1 DEF Answer, Seen, Gate!Nothing

\* The comparison checks or records what the gate has seen.
LEMMA GateEnds == ASSUME OracleInv, Compare \/ Update PROVE Gate!Next
  <1>1. Rows = Seen /\ stage = "compare"
    BY RowsAreSeen DEF Compare, Update
  <1>2. CASE Update
    <2>1. Leave(0) /\ baseline' = Seen
      BY <1>1, <1>2 DEF Update, Recorded
    <2>2. Answer = "none" /\ Seen' = Gate!Nothing /\ Answer' = "pass"
      BY <1>1, <2>1, GateLeaves
    <2> QED
      BY <2>1, <2>2 DEF Gate!Next, Gate!Record
  <1>3. CASE Compare
    <2> DEFINE code == IF baseline = NoneOf(NoRow) \/ Changed(Rows, baseline) # {} THEN 1 ELSE 0
    <2>1. Leave(code) /\ UNCHANGED baseline
      BY <1>3 DEF Compare
    <2>2. Answer = "none" /\ Seen' = Gate!Nothing /\ Answer' = (IF code = 0 THEN "pass" ELSE "fail")
      <3>1. code \in {0, 1}
        OBVIOUS
      <3> HIDE DEF code
      <3> QED
        BY <1>1, <2>1, <3>1, GateLeaves
    <2>3. Changed(Rows, baseline) = Gate!Visible
      <3>1. DOMAIN baseline = Methods
        BY DEF OracleInv, TypeOK
      <3> QED
        BY <1>1, <3>1 DEF Changed, Gate!Visible
    <2>4. NoneOf(NoRow) = Gate!Nothing
      BY DEF NoneOf, Gate!Nothing
    <2>5. Answer' = (IF Gate!Visible = {} /\ baseline # Gate!Nothing THEN "pass" ELSE "fail")
      BY <2>2, <2>3, <2>4
    <2> QED
      BY <2>1, <2>2, <2>5 DEF Gate!Next, Gate!Check
  <1> QED
    BY <1>2, <1>3

\* What ends a run early abandons it.
LEMMA GateAbandons ==
  ASSUME OracleInv,
         \/ Unsupported \/ (\E code \in {1, 137} : Killed(code)) \/ KilledExtracting
         \/ RunnerFails
  PROVE  Gate!Next
  <1>1. PICK code \in {1, 3, 137} : Leave(code) /\ stage # "idle" /\ UNCHANGED baseline
    BY DEF Unsupported, Killed, KilledExtracting, RunnerFails
  <1>2. Answer = "none" /\ Seen' = Gate!Nothing /\ Answer' \in {"fail", "skip"}
    BY <1>1, GateLeaves
  <1> QED
    BY <1>1, <1>2 DEF Gate!Next, Gate!Abandon

\* The oracle's outcomes show every planned method at once.
LEMMA GateSees == ASSUME OracleInv, RunOracle PROVE Gate!Next
  <1>1. /\ stage = "oracle" /\ stage' = "compare"
        /\ UNCHANGED <<selection, baseline, exit, codes>>
    BY DEF RunOracle
  <1>2. Answer = "none" /\ Answer' = Answer
    BY <1>1 DEF OracleInv, Answered, Answer
  <1>3. Seen = Gate!Nothing
    BY <1>1, UnseenBefore
  <1>4. \A m \in Methods : Seen'[m] = NoRow \/ Seen'[m] \in Buckets
    <2>1. \A r, o : Bucket(r, o) \in Buckets
      BY DEF Bucket, InterpretBucket, Buckets, Exclusions
    <2>2. \A r, o : Bucket(r, o)' \in Buckets
      BY <2>1 DEF Bucket, InterpretBucket
    <2> QED
      BY <2>1, <2>2 DEF Seen
  <1> DEFINE ms == {m \in Methods : Seen'[m] # NoRow}
  <1> DEFINE verdict == [m \in ms |-> Seen'[m]]
  <1>5. verdict \in [ms -> Buckets] /\ ms \in SUBSET {m \in Methods : Seen[m] = NoRow}
    BY <1>3, <1>4 DEF Gate!Nothing
  <1>6. Seen' = [m \in Methods |-> IF m \in ms THEN verdict[m] ELSE Seen[m]]
    <2>1. Seen' = [m \in Methods |-> Seen'[m]]
      BY DEF Seen
    <2>2. \A m \in Methods : Seen'[m] = (IF m \in ms THEN verdict[m] ELSE Seen[m])
      BY <1>3 DEF Gate!Nothing
    <2> QED
      BY <2>1, <2>2
  <1> HIDE DEF ms, verdict
  <1>7. Gate!See
    BY <1>1, <1>2, <1>5, <1>6 DEF Gate!See
  <1> QED
    BY <1>7 DEF Gate!Next

\* Every step of the suite is a step of the gate, or one it does not see.
LEMMA GateNext == OracleInv /\ [Next]_vars => [Gate!Next]_Gate!vars
  <1> SUFFICES ASSUME OracleInv, [Next]_vars PROVE [Gate!Next]_Gate!vars
    OBVIOUS
  <1>1. ASSUME stage # "compare", stage' # "compare", UNCHANGED <<baseline, exit>>
        PROVE  UNCHANGED Gate!vars
    <2>1. Seen' = Seen
      BY <1>1 DEF Seen
    <2> QED
      BY <1>1, <2>1 DEF Gate!vars, Answer
  <1>2. CASE UNCHANGED vars
    <2>1. UNCHANGED <<stage, selection, codes, oracle, clash, baseline, exit>>
      BY <1>2 DEF vars, disk
    <2>2. Seen' = Seen
      BY <2>1 DEF Seen, ResultOf
    <2> QED
      BY <2>1, <2>2 DEF Gate!vars, Answer
  <1>3. ASSUME NEW flags \in AllFlags, Start(flags) PROVE Gate!Next
    <2>1. stage = "idle" /\ stage' = "plan" /\ exit' = -1 /\ UNCHANGED baseline
      BY <1>3 DEF Start, disk
    <2>2. Answer # "none" /\ Answer' = "none"
      BY <2>1 DEF OracleInv, Answered, Answer
    <2>3. Seen' = Gate!Nothing
      BY <2>1 DEF Seen, Gate!Nothing
    <2> QED
      BY <2>1, <2>2, <2>3 DEF Gate!Next, Gate!Begin
  <1>4. CASE Plan \/ Extract \/ WriteEngines
    BY <1>1, <1>4 DEF Plan, Extract, WriteEngines
  <1>5. ASSUME NEW m \in Methods, Worker(m) \/ Hangs(m) \/ Raises(m) \/ OriginalHangs(m)
        PROVE  UNCHANGED Gate!vars
    <2>1. stage \in {"runner", "oracle"} /\ UNCHANGED <<stage, baseline, exit>>
      BY <1>5 DEF Worker, Take, Hangs, Raises, OriginalHangs, Ends, Expire, Returns, Translated, Interpreted,
                  Generated, Running, disk
    <2> QED
      BY <1>1, <2>1
  <1> QED
    BY <1>2, <1>3, <1>4, <1>5, GateEnds, GateAbandons, GateSees DEF Next, Script

\* The pipeline implements the gate: what it reports is what the record and the run's own
\* subprocesses say, and nothing else of its stages, workers and files shows.
THEOREM PipelineImplementsGate == Spec => ImplementsGate
  BY GateInit, GateNext, RunsOfTheSuite, PTL DEF Spec, ImplementsGate, Gate!Spec
=============================================================================
