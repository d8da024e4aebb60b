---------------------------- MODULE OracleBuckets ----------------------------
(***************************************************************************)
(* How one method of CPython's suite is judged (StrataPythonTest/          *)
(* cpython_oracle: runner.py classify_interpret and process, compare.py    *)
(* main).  A method's result is what its worker kept of three subprocesses:*)
(* the translator, Strata's interpreter and the generated program under    *)
(* CPython; NoStage stands for a subprocess the worker did not run.        *)
(***************************************************************************)
EXTENDS Integers

NoStage   == "not run"
TimeoutRc == 124

Exclusions == {"oracleNotClean", "loweringBroken"}
Buckets    == {"agree", "untranslatable", "needsTriage", "error", "oracleMissing"}
                \cup Exclusions
NoRow      == "none"
\* "raised": unittest recorded an error or a failure.
Outcomes   == {"clean", "raised", "skipped"}
Missing    == "missing"

Result(parse, interpret, generated) ==
  [parse |-> parse, interpret |-> interpret, generated |-> generated]
NoResult == Result(NoStage, NoStage, NoStage)
Results  == [parse     : {NoStage, "ok", "failed", "timeout"},
             interpret : {NoStage, "ran", "timeout", "untranslatable", "runtimeProblem",
                          "error"},
             generated : {NoStage, "clean", "timeout", "failed"}]

\* py_to_strata: a hang is not a coverage gap, and rc 0 without an .ion is a failure.
ClassifyParse(rc, ionExists) ==
  IF rc = TimeoutRc THEN "timeout" ELSE IF rc = 0 /\ ionExists THEN "ok" ELSE "failed"

ClassifyInterpret(rc) ==
  CASE rc = 0         -> "ran"
    [] rc = TimeoutRc -> "timeout"
    [] rc = 1         -> "untranslatable"
    [] rc = 2         -> "runtimeProblem"
    [] OTHER          -> "error"

ClassifyGenerated(rc) ==
  IF rc = 0 THEN "clean" ELSE IF rc = TimeoutRc THEN "timeout" ELSE "failed"

InterpretBucket(kind) ==
  CASE kind = "ran"            -> "agree"
    [] kind = "untranslatable" -> "untranslatable"
    [] kind = "runtimeProblem" -> "needsTriage"
    [] OTHER                   -> "error"

\* Mutation: a generated program that hangs counts as a broken lowering.
BucketHidesHangs(result, outcome) ==
  IF outcome = "clean" /\ result.generated = "timeout" THEN "loweringBroken"
  ELSE IF outcome # "clean" THEN "oracleNotClean"
  ELSE IF result.parse # "ok" THEN "untranslatable" ELSE InterpretBucket(result.interpret)

\* The order of the tests is the order of compare.py.
Bucket(result, outcome) ==
  IF outcome = Missing                    THEN "oracleMissing"
  ELSE IF outcome # "clean"               THEN "oracleNotClean"
  ELSE IF result.generated = "timeout"    THEN "error"
  ELSE IF result.generated = "failed"     THEN "loweringBroken"
  ELSE IF result.parse = "timeout"        THEN "error"
  ELSE IF result.parse # "ok"             THEN "untranslatable"
  ELSE InterpretBucket(result.interpret)

\* The methods the baseline diff reports: an exclusion on either side is machine-dependent
\* and says nothing about Strata.
Changed(now, baseline) ==
  {stem \in DOMAIN baseline : /\ baseline[stem] \notin Exclusions
                              /\ now[stem] \notin Exclusions
                              /\ baseline[stem] # now[stem]}
=============================================================================
