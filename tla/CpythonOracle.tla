---------------------------- MODULE CpythonOracle ----------------------------
(***************************************************************************)
(* CPython's own tests as an oracle for the front end (StrataPythonTest/   *)
(* cpython_oracle: run_cpython_oracle.sh, plan.py, corpus.py, runner.py,   *)
(* oracle.py, compare.py).  A run plans which methods to take and extracts *)
(* CPython's test library, runs every method through a pool of workers,    *)
(* runs the originals under CPython, and compares with the baseline.  The  *)
(* stages hand files to each other in one build directory that outlives    *)
(* the run: a run may be killed anywhere, and the next one starts over it. *)
(* A file of an earlier run is "old"; its content is not kept.             *)
(***************************************************************************)
EXTENDS OracleBuckets, FiniteSets, Sequences

CONSTANTS Methods,   \* stems of the methods the manifest's files hold
          MakesFile, \* methods whose program creates one file, by a relative path
          Versions,  \* CPython releases the corpus may come from
          Shipped,   \* the release of the first run
          InterpretCodes, \* what pyInterpret may exit with
          Workers,   \* size of the runner's pool
          Flags      \* bound: the command lines each run of the suite may have

ASSUME OracleAssumption ==
  /\ IsFiniteSet(Methods) /\ MakesFile \subseteq Methods
  /\ Shipped \in Versions /\ Versions \cap {"absent", "torn"} = {}
  /\ InterpretCodes \subseteq Nat \ {TimeoutRc}
  /\ Workers \in Nat \ {0}
  /\ Flags \in Seq(SUBSET [matching : SUBSET Methods, keep : BOOLEAN, update : BOOLEAN])

VARIABLES
  stage,     \* what the script is running, "idle" between runs
  runs,      \* runs started
  options,   \* --filter (the stems it matches), --keep, --update
  version,   \* the release the corpus is read from
  lib,       \* cpythonlib/<version>: what is extracted there
  selection, \* selection.json: the planned methods
  ion,       \* gen/<stem>.python.st.ion
  pc,        \* where each method's worker is
  hung,      \* methods whose current subprocess, or original, will not end by itself
  clash,     \* methods whose program found the file of another in its directory
  codes,     \* what the subprocesses of a method returned, run by themselves
  engines,   \* engines.json: its age and the result of each method
  oracle,    \* oracle.json: its age and the outcome of each method
  baseline,  \* baseline.txt
  exit       \* the script's exit code, -1 while it runs

disk == <<lib, ion, engines, oracle, baseline>>
vars == <<stage, runs, options, version, selection, pc, hung, clash, codes, exit, disk>>

-----------------------------------------------------------------------------
(* State of a worker and of the build directory *)

Stages    == {"idle", "plan", "extract", "runner", "oracle", "compare"}
Subprocs  == {"translate", "interpret", "generate"}
Finished  == {"done", "raised"}
NoCode    == -1
NoCodes   == [translate |-> NoCode, ionExists |-> FALSE, interpret |-> NoCode,
              generate |-> NoCode, stale |-> FALSE]
AllFlags  == [matching : SUBSET Methods, keep : BOOLEAN, update : BOOLEAN]
NoOptions == [matching |-> Methods, keep |-> FALSE, update |-> FALSE]
NoneOf(x) == [m \in Methods |-> x]
Json(age, content) == [age |-> age, of |-> content]

Busy      == {m \in Methods : pc[m] \in Subprocs}

\* The directory a generated program runs in; the mutation shares one.
SharedCwd(m) == "gen"
Cwd(m)       == m

\* The directory a release is extracted to; the mutation has one path for all.
FixedLibDir(v) == Shipped
LibDir(v)      == v

ResultOf(m) ==
  IF codes[m].translate = NoCode THEN NoResult
  ELSE LET parse == ClassifyParse(codes[m].translate, codes[m].ionExists)
       IN  IF parse # "ok" THEN Result(parse, NoStage, NoStage)
           ELSE Result(parse, ClassifyInterpret(codes[m].interpret),
                       ClassifyGenerated(IF m \in clash THEN 1 ELSE codes[m].generate))

Init ==
  /\ stage = "idle" /\ runs = 0 /\ exit = 3
  /\ options = NoOptions
  /\ version = Shipped
  /\ lib = [v \in Versions |-> "absent"]
  /\ selection = {} /\ hung = {} /\ clash = {}
  /\ ion = NoneOf("none") /\ pc = NoneOf("idle") /\ codes = NoneOf(NoCodes)
  /\ engines = Json("none", NoneOf(NoResult)) /\ oracle = Json("none", NoneOf(Missing))
  /\ baseline = NoneOf(NoRow)

-----------------------------------------------------------------------------
(* run_cpython_oracle.sh: a stage that fails ends the script *)

Leave(code) ==
  /\ stage' = "idle" /\ exit' = code
  /\ selection' = {} /\ hung' = {} /\ clash' = {}
  /\ pc' = NoneOf("idle") /\ codes' = NoneOf(NoCodes)
  /\ engines' = Json(IF engines.age = "none" THEN "none" ELSE "old", NoneOf(NoResult))
  /\ oracle' = Json(IF oracle.age = "none" THEN "none" ELSE "old", NoneOf(Missing))
  /\ options' = NoOptions
  /\ UNCHANGED <<runs, version>>

Aged(files) == [m \in Methods |-> IF files[m] = "none" THEN "none" ELSE "old"]

\* The corpus may be of another release than in the run before.
Start(flags) ==
  /\ stage = "idle" /\ runs < Len(Flags) /\ flags \in Flags[runs + 1]
  /\ stage' = "plan" /\ runs' = runs + 1 /\ exit' = -1
  /\ options' = flags
  /\ version' \in Versions
  /\ UNCHANGED <<disk, selection, pc, hung, clash, codes>>

\* No usable Python, or no corpus: the suite is skipped before anything is written.
Unsupported == stage = "plan" /\ Leave(3) /\ UNCHANGED <<lib, ion, baseline>>

\* A kill, or an exception in the stage's own process.
Killed(code) ==
  /\ stage \in Stages \ {"idle", "extract"}
  /\ Leave(code)
  /\ ion' = Aged(ion)
  /\ UNCHANGED <<lib, baseline>>

-----------------------------------------------------------------------------
(* plan.py *)

\* Every artifact of an earlier run is removed; the mutation removes the .py files only.
ClearSources(files) == files
ClearGen(files)     == NoneOf("none")

Plan ==
  /\ stage = "plan"
  /\ stage' = "extract"
  /\ ion' = ClearGen(ion)
  /\ selection' \in SUBSET options.matching
  /\ UNCHANGED <<runs, options, version, lib, engines, oracle, baseline, pc, hung, clash,
                 codes, exit>>

\* corpus.py extract_lib: files that exist are skipped; selection.json is written after.
Extract ==
  LET dir == LibDir(version)
  IN  /\ stage = "extract"
      /\ stage' = "runner"
      /\ lib' = [lib EXCEPT ![dir] = IF lib[dir] = "absent" THEN version ELSE lib[dir]]
      /\ pc' = [m \in Methods |-> IF m \in selection THEN "queued" ELSE "idle"]
      /\ UNCHANGED <<runs, options, version, selection, ion, engines, oracle, baseline,
                     hung, clash, codes, exit>>

\* A kill while a file is being written leaves a part of it, which exists.
KilledExtracting ==
  LET dir == LibDir(version)
  IN  /\ stage = "extract"
      /\ Leave(137)
      /\ ion' = Aged(ion)
      /\ lib' \in {lib, [lib EXCEPT ![dir] = IF lib[dir] = "absent" THEN "torn" ELSE lib[dir]]}
      /\ UNCHANGED baseline

-----------------------------------------------------------------------------
(* runner.py: process, one worker per method, at most Workers at a time *)

Codes(proc) == CASE proc = "translate" -> {0, 1}
                 [] proc = "interpret" -> InterpretCodes
                 [] proc = "generate"  -> {0, 1}

Running(m, proc) == stage = "runner" /\ pc[m] = proc

Take(m) ==
  /\ stage = "runner" /\ pc[m] = "queued" /\ Cardinality(Busy) < Workers
  /\ pc' = [pc EXCEPT ![m] = "translate"]
  /\ UNCHANGED <<stage, runs, options, version, selection, disk, hung, clash, codes, exit>>

\* rc 0 does not mean that the translator wrote its output.
Translated(m, rc, writes) ==
  LET file == IF rc = 0 /\ writes THEN "new" ELSE ion[m]
      ok   == ClassifyParse(rc, file # "none") = "ok"
  IN  /\ Running(m, "translate")
      /\ ion' = [ion EXCEPT ![m] = file]
      /\ codes' = [codes EXCEPT ![m].translate = rc, ![m].ionExists = file # "none",
                                ![m].stale = ok /\ file = "old"]
      /\ pc' = [pc EXCEPT ![m] = IF ok THEN "interpret" ELSE "done"]
      /\ UNCHANGED clash

\* Then the generated program starts, in a directory of its own.
Interpreted(m, rc) ==
  LET others == {o \in MakesFile \ {m} : pc[o] = "generate" /\ Cwd(o) = Cwd(m)}
  IN  /\ Running(m, "interpret")
      /\ codes' = [codes EXCEPT ![m].interpret = rc]
      /\ pc' = [pc EXCEPT ![m] = "generate"]
      /\ clash' = IF m \in MakesFile /\ others # {} THEN clash \cup {m} ELSE clash
      /\ UNCHANGED ion

Generated(m, rc) ==
  /\ Running(m, "generate")
  /\ codes' = [codes EXCEPT ![m].generate = rc]
  /\ pc' = [pc EXCEPT ![m] = "done"]
  /\ UNCHANGED <<ion, clash>>

Returns(m, rc) ==
  \/ \E writes \in BOOLEAN : Translated(m, rc, writes)
  \/ Interpreted(m, rc)
  \/ Generated(m, rc)

Ends(m) ==
  /\ m \notin hung
  /\ \E rc \in {0, 1} \cup InterpretCodes : pc[m] \in Subprocs /\ rc \in Codes(pc[m]) /\ Returns(m, rc)
  /\ UNCHANGED <<stage, runs, options, version, selection, lib, engines, oracle, baseline,
                 hung, exit>>

Hangs(m) ==
  /\ stage = "runner" /\ pc[m] \in Subprocs /\ m \notin hung
  /\ hung' = hung \cup {m}
  /\ UNCHANGED <<stage, runs, options, version, selection, disk, pc, clash, codes, exit>>

\* _run: a subprocess that outlasts the timeout is killed, and returns TimeoutRc; the
\* mutation leaves that to the translator's stage.
TimesOutTranslating(m) == m \in hung /\ pc[m] = "translate"
TimesOut(m)            == m \in hung

Expire(m) ==
  /\ TimesOut(m)
  /\ hung' = hung \ {m}
  /\ Returns(m, TimeoutRc)
  /\ UNCHANGED <<stage, runs, options, version, selection, lib, engines, oracle, baseline,
                 exit>>

\* The worker raises (it cannot read the output, or write the .interp).
Raises(m) ==
  /\ stage = "runner" /\ pc[m] \in Subprocs /\ m \notin hung
  /\ pc' = [pc EXCEPT ![m] = "raised"]
  /\ UNCHANGED <<stage, runs, options, version, selection, disk, hung, clash, codes, exit>>

\* f.result() raises what a worker raised, once the pool has shut down; the mutation
\* keeps the results there are.
DrainedOrRaised == \A m \in selection : pc[m] \in Finished
Drained         == \A m \in selection : pc[m] = "done"

WriteEngines ==
  /\ stage = "runner" /\ Drained
  /\ stage' = "oracle"
  /\ engines' = Json("new", [m \in Methods |-> IF pc[m] = "done" THEN ResultOf(m)
                                               ELSE NoResult])
  /\ UNCHANGED <<runs, options, version, lib, selection, ion, oracle, baseline, pc, hung,
                 clash, codes, exit>>

RunnerFails ==
  /\ stage = "runner"
  /\ \A m \in selection : pc[m] \in Finished
  /\ \E m \in selection : pc[m] = "raised"
  /\ Leave(1)
  /\ ion' = Aged(ion)
  /\ UNCHANGED <<lib, baseline>>

-----------------------------------------------------------------------------
(* oracle.py and compare.py *)

\* Each file's methods run in one process, after the fixtures; a file that cannot be
\* loaded ends the stage, unless it skips itself (Killed).
RunOracle ==
  /\ stage = "oracle" /\ hung = {}
  /\ stage' = "compare"
  /\ \E outcome \in [selection -> Outcomes] :
       oracle' = Json("new", [m \in Methods |-> IF m \in selection THEN outcome[m]
                                                ELSE Missing])
  /\ UNCHANGED <<runs, options, version, lib, selection, ion, engines, baseline, pc, hung,
                 clash, codes, exit>>

\* The originals run in that process itself, and nothing ends one that does not return.
OriginalHangs(m) ==
  /\ stage = "oracle" /\ hung = {} /\ m \in selection
  /\ hung' = {m}
  /\ UNCHANGED <<stage, runs, options, version, selection, disk, pc, clash, codes, exit>>

\* A row for each result of a planned method.
Rows == [m \in Methods |-> IF m \in selection /\ engines.of[m] # NoResult
                           THEN Bucket(engines.of[m], oracle.of[m]) ELSE NoRow]

\* write_baseline records every row; the mutation leaves the exclusions out.
RecordedCompared(rows) == [m \in Methods |-> IF rows[m] \in Exclusions THEN NoRow ELSE rows[m]]
Recorded(rows)         == rows

Update ==
  /\ stage = "compare" /\ options.update
  /\ baseline' = Recorded(Rows)
  /\ ion' = IF options.keep THEN Aged(ion) ELSE NoneOf("none")
  /\ Leave(0)
  /\ UNCHANGED lib

Compare ==
  /\ stage = "compare" /\ ~options.update
  /\ ion' = IF options.keep THEN Aged(ion) ELSE NoneOf("none")
  /\ Leave(IF baseline = NoneOf(NoRow) \/ Changed(Rows, baseline) # {} THEN 1 ELSE 0)
  /\ UNCHANGED <<lib, baseline>>

Worker(m) == Take(m) \/ Ends(m) \/ Expire(m)

Script == Plan \/ Extract \/ WriteEngines \/ RunnerFails \/ RunOracle \/ Update \/ Compare

Next ==
  \/ \E flags \in AllFlags : Start(flags)
  \/ Unsupported
  \/ \E code \in {1, 137} : Killed(code)
  \/ KilledExtracting
  \/ Script
  \/ \E m \in Methods : Worker(m) \/ Hangs(m) \/ Raises(m) \/ OriginalHangs(m)

Spec == Init /\ [][Next]_vars

\* The scheduler runs the script and the workers; nothing makes a subprocess or an original
\* hang, and nothing makes a user start a run or kill one.
FairSpec == Spec /\ WF_vars(Script) /\ \A m \in Methods : WF_vars(Worker(m))

-----------------------------------------------------------------------------
(* Properties *)

TypeOK ==
  /\ stage \in Stages /\ runs \in 0..Len(Flags) /\ exit \in {-1, 0, 1, 3, 137}
  /\ options \in AllFlags
  /\ version \in Versions
  /\ lib \in [Versions -> Versions \cup {"absent", "torn"}]
  /\ selection \subseteq Methods /\ hung \subseteq Methods /\ clash \subseteq Methods
  /\ ion \in [Methods -> {"none", "old", "new"}]
  /\ pc \in [Methods -> {"idle", "queued"} \cup Subprocs \cup Finished]
  /\ codes \in [Methods -> [translate : {NoCode, 0, 1, TimeoutRc}, ionExists : BOOLEAN,
                            interpret : {NoCode, TimeoutRc} \cup InterpretCodes,
                            generate  : {NoCode, 0, 1, TimeoutRc}, stale : BOOLEAN]]
  /\ engines \in [age : {"none", "old", "new"}, of : [Methods -> Results]]
  /\ oracle \in [age : {"none", "old", "new"}, of : [Methods -> Outcomes \cup {Missing}]]
  /\ baseline \in [Methods -> Buckets \cup {NoRow}]

\* No run judges a method by what an earlier run left in the build directory: the
\* interpreter is handed the translation of this run, and the comparison reads this run's
\* files.
OwnArtifacts ==
  /\ \A m \in Methods : ~codes[m].stale
  /\ stage \in {"oracle", "compare"} => engines.age = "new"
  /\ stage = "compare" => oracle.age = "new"

\* Every planned method reaches the comparison with a result and an outcome: what fails
\* for one method is never a method less.
PlannedAccounted ==
  stage = "compare" =>
    \A m \in selection : engines.of[m] # NoResult /\ oracle.of[m] # Missing

\* Whether the lowering kept a method's meaning does not depend on which programs ran
\* beside it, although they create files of the same name.
LoweringJudgedAlone ==
  \A m \in Methods : engines.of[m].generated # NoStage =>
    engines.of[m].generated = ClassifyGenerated(codes[m].generate)

\* The originals run with the helpers of the release they come from, or with what a
\* killed extraction left of them.
HelpersOfVersion ==
  stage \in {"runner", "oracle"} => lib[LibDir(version)] \in {version, "torn"}

\* corpus.py:81-83 says that the helpers match the file under test exactly.  A file that
\* a killed extraction left half written exists, and is never extracted again.
HelpersMatch == stage \in {"runner", "oracle"} => lib[LibDir(version)] = version

AllRan(m) == codes[m].translate = 0 /\ codes[m].interpret = 0 /\ codes[m].generate = 0

\* A method on record as agreeing is lost when it is no longer planned, or when anything
\* but a broken lowering keeps it from running as it does under CPython: a failure of the
\* front end, or a hang of any of the three subprocesses.
Lost(m) ==
  /\ baseline[m] = "agree"
  /\ m \in selection => /\ oracle.of[m] = "clean"
                        /\ codes[m].generate \in {NoCode, 0, TimeoutRc}
                        /\ ~AllRan(m)

\* A run that loses a method does not pass.
RegressionFails ==
  [][stage = "compare" /\ ~options.update /\ (\E m \in Methods : Lost(m)) => exit' # 0]_vars

\* plan.py:7-9 says that --filter restricts the selection because compare.py would
\* otherwise report every unmatched method as a failure: a filtered run that sees its
\* methods as recorded would pass.  The unmatched methods of the baseline are reported as
\* gone.
FilteredRunPasses ==
  [][stage = "compare" /\ ~options.update
       /\ selection = {m \in options.matching : baseline[m] # NoRow} /\ selection # {}
       /\ (\A m \in selection : Rows[m] = baseline[m]) => exit' = 0]_vars

\* The pipeline implements the gate: what it sees of a method is the bucket of what the
\* method's subprocesses return when each is run by itself.
Seen == [m \in Methods |->
           IF stage = "compare" /\ m \in selection
           THEN Bucket(IF ResultOf(m).parse # "ok" THEN ResultOf(m)
                       ELSE [ResultOf(m) EXCEPT !.generated = ClassifyGenerated(codes[m].generate)],
                       oracle.of[m])
           ELSE NoRow]
Answer == CASE exit = -1 -> "none" [] exit = 0 -> "pass" [] exit = 3 -> "skip"
            [] OTHER -> "fail"

Gate == INSTANCE BaselineGate WITH Verdicts <- Buckets, Excused <- Exclusions,
          Unseen <- NoRow, recorded <- baseline, seen <- Seen, answer <- Answer
ImplementsGate == Gate!Spec

\* A run waits for nothing but an original under CPython that hangs: the runner waits for no
\* subprocess longer than its timeout, whichever and however many hang, and oracle.py runs
\* the originals without one.
OriginalHung == stage = "oracle" /\ hung # {}
RunEnds      == stage # "idle" ~> stage = "idle" \/ OriginalHung
=============================================================================
