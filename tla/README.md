# A verification project for Strata-Python

Strata-Python turns Python programs into forms a verifier can work on.  This
directory holds TLA+ models of its parts, TLC configurations that check the
models on small instances, and proofs of theorems about them.  The models are
read off the Lean and Python sources (paths below are relative to `src/`).
CPython itself is not part of the repository; where a model needs to know what a
program does, it models CPython as the code assumes it and says so.

The models fall in four groups:

* **Pylate** (`Pylate/`), the abstract interpreter: its state, the list
  operations on it, its loops, its statement interpreter and its log of proof
  obligations.  Pylate promises one thing about all of them: "The one direction
  that matters is containment: the analyser may report an outcome that does not
  occur; it may not miss one that does."
  (`Pylate/doc/ALGORITHM_AND_SOUNDNESS.md:208`).  So these models run the analysis
  next to the program it analyses and ask whether it covers what the program does.
* **The lowering to Mantle** (`StrataPython/Mantle/`, `StrataMantle/Build.lean`):
  how the ways out of Python's statements become blocks, run in step with CPython.
* **The PySpec translator** (`StrataPython.lean`, `StrataPython/Specs.lean`): a
  cache of files that edits, kills and failed writes meet.
* **The test pipelines** that guard all of this: the CPython oracle
  (`StrataPythonTest/cpython_oracle/`) with its worker pool, build directory and
  baseline, the generator of its programs, and Pylate's regression gates
  (`Pylate/harness/`).

Contents: [inventory](#inventory), [what the code could get wrong](#hazards),
[the modules](#modules), [the runs](#runs), [bounds](#bounds),
[fairness](#fairness), [the proofs](#proofs), [disagreements](#disagreements),
[not modelled](#not-modelled), [plan](#plan).

## Inventory

### Pylate, the abstract interpreter (`Pylate/`)

A whole-program analyser: it executes a Python module on abstract states, once
for every function taken as an entry point, inlining calls, and prints the
states it found and the obligations a proof must discharge.

| Part | State | Operations | Hard, and what makes it correct |
| --- | --- | --- | --- |
| Sizes, emptiness (`Domains/Emptiness.lean`) | a count, "positive", or unknown | join, order, conversions | joins at zero; a count is never claimed of a list that does not have it |
| Values, cells (`Domains/Value.lean`, `Cells/State.lean`) | `AState`: names, cells of locations, sizes; a location is an allocation site and a recency bit | join, order, fold of the recent object into the summary, strong and weak updates | renaming must reach every place at once; a strong update only where one object is meant |
| Updates, list rules (`Engine/Update.lean`, `Rules/`, `RuleLang/Plan.lean`, `Transfers/Objects.lean`) | none of its own | literals, reads, append, extend, pop, remove, clear, copy, calls nothing is known of | sizes and cells have to tell one story; every exception the operation may end with is an outcome |
| Exception flow (`Engine/Exc.lean`, `Transfers/Flow.lean`, `Transfers/Compatibility.lean`) | `Completion`: five ways to end, each with a state | join, sequencing, the loop boundary, the bridge through `AMulti` | nothing is dropped or merged that a handler needs apart |
| Statements (`Transfers/Statements.lean`, `Rules/SyntaxPlans.lean`) | the `Actx` stacks `handling`, `activeHandlers`, and a snapshot per program point | one transfer per statement form | `finally` on five completions, handler names unbound on all ways out, bare `raise`, jumps through everything |
| Loops (`Transfers/Fixpoint.lean`) | the invariant, escapes and progress of the rounds so far | `close`, `whileFixpoint`, `forFixpoint` | ends without fuel; the closed head covers every iteration; the gate of `else` |
| Raises, obligations (`Machine.lean`, `Engine/Policy.lean`) | `machineRaises`, `obligations`, `residuals` | `mraise`, `oblige`, `verifyReported` | one node is judged in several contexts in an order nobody chose; verdicts are combined and never discharged |
| Calls, generators (`Transfers/Calls.lean`, `Transfers/Iteration.lean`) | `callStack`, `ctxFrames`, `yields` | inlining, eager generators | states of two callers of one function must stay apart; the stacks survive every completion |
| Expressions, tables (`Transfers/Expressions.lean`, `Dict.lean`, `Protocols.lean`, `Tables/`, `Rules/`) | none | per-type outcomes of operators and methods | row by row agreement with CPython |
| Rule language (`RuleLang/`) | the rules, fixed at start | compile, validate, dispatch | every plan is complete and well typed before it runs |
| Class table, admission (`Syntax/`) | classes, MRO caches | C3, `excMro`, rejection of what is not analysed | C3 is CPython's; everything admitted is handled |
| Driver, output (`Analyzer.lean`, `Emit.lean`) | `Actx` over a module | names, targets, entry points, JSON | one snapshot per program point and call chain |

### Mantle, the IR (`StrataMantle/`)

A typed SSA form with nested regions.  The builder (`Build.lean`) keeps the block
that is open, the finished blocks, fresh ids and the labels used, and records
misuse instead of failing at once: one block is open at a time, the first block
finished is the entry, every label is bound once.  Dominators (`Dom*.lean`) are
computed with the Cooper-Harvey-Kennedy iteration and proved correct in Lean;
`WF.lean` checks a function with them.  `Name`, `Util/NatTree23`, `Util/IndexMap`
and `Env` are data structures with Lean proofs, `DSL` and `DDM` surface syntax.

### The Python front ends (`StrataPython/`)

*Python to Mantle* (`Mantle/Scope.lean`, `Build.lean`, `Translate.lean`): a scope
pass binds every name, then each function is lowered with a stack of exits
(loops, handlers, cleanups).  `return`, `break` and `continue` walk that stack,
restoring the exception handled before at every handler they leave; `finally` and
`with` are entered with a completion and dispatch on it afterwards.  Correct when
the emitted control flow is Python's.

*PySpec* (`StrataPython.lean`, `Specs.lean`, `Specs/`, `PySpecPipeline.lean`):
translates the modules of a directory, each unless its specification file is
newer than its source, and the modules they import on the way, recursively; a
later pass reads the files, merges overload tables and drops duplicate
declarations.  State: the files and their times, and a table of resolved modules
for each translation under way.  Hard: edits, kills and failed writes between any
two steps, imports that form a cycle, packages, whose specification has two
names.  Correct when a file that counts as up to date is so, and only what fails
is reported.

*Python to Laurel*: the direct translator (`PythonToLaurel.lean`,
`Pipeline/PyAnalyzeLaurel.lean`), and the path through `Resolution.lean`,
`Translation.lean` and `FineGrainLaurel/Elaborate.lean`, which gives every
procedure an effect grade by iterating until no grade changes.  Correct when the
iteration ends and a grade is at least those of the callees.

*Others*: the deprecated Python to Core translator, regular expressions
(`Regex/`), command lines, scripts, and the Python AST exporter
(`Python/strata-python`).

### The CPython oracle (`StrataPythonTest/cpython_oracle/`)

Runs CPython's own unit tests through the front end.  `plan.py` selects test
methods (`selector.py`), turns each into a plain program (`lower.py`,
`prepare.py`) and writes it to a build directory; `corpus.py` extracts the test
library of the CPython release; `runner.py` sends every program through the
translator, the interpreter and CPython in a pool of workers with timeouts;
`oracle.py` runs the original methods; `compare.py` sorts each method into a
bucket and compares with `baseline.txt`.  State: the build directory, which
outlives runs, and the baseline.  Hard: kills, hangs and raising workers, files of
earlier runs, programs that create files of one name, a scaffold for
`assertRaises` that must mean what unittest means, a prelude collected from a set
in no particular order.  Correct when what is compared is this run's, a
regression never passes, and the generated program asserts what the test does.

### The regression gates of Pylate (`Pylate/harness/`)

`gates.py` runs gates in tiers: `run_all.py` analyses a corpus in a pool of
workers, writes a log beside each program and compares digests with
`expected.json`; `coverage.py` asks whether the logs exercise a manifest of
features; `admission.py` compares which programs are admitted.  `--bless` rewrites
the pinned files.  State: the logs and pinned files.  Hard: a gate that reads logs
another left, workers that raise, interruptions during a write.  Correct when a
passing command says something true of the tree as it is.  The other gates
(`harness/probes`, operator and conformance tables) evaluate expressions under
CPython and compare; the generators write corpus programs.

### How they interact

The exporter writes the AST of a program; Pylate and the front ends read it.
Inside Pylate, the driver hands `Services` (evaluate an expression, bind a
target, run a body) to statements, which call loops, which call back into
statements for their bodies; rules are executed as plans by `RuleLang/Plan.lean`;
all of them thread an `AState` and share one mutable `Actx`, which is where the
obligations, snapshots and stacks live.  The analysis is sequential: what
interleaves is contexts, not threads.  One node is visited from several call
sites, loop rounds and handler cases, and everything in `Actx` must not depend on
their order or mix them up.  The lowering to Mantle is sequential too, and its
state (the open block, the handler, the exits) is the thing to keep straight.

Around the tools, processes do interleave: the oracle's and the harness's pools of
workers, a run and the developer who edits under it or kills it, and runs that
meet the files of earlier ones.  Files are the only thing these share.

## Hazards

`PROJECT.json` lists each at its line.  They fall in these groups: *stale
locations and sizes* (a fold that misses a name, a size read before a mutation),
*exits* (which state a handler, a `finally`, an `else` or a loop exit is entered
with, which stacks are popped on the way, which exception is current, in the
analysis and in the lowering), *fixpoints* (an order coarser than the join,
escapes of early rounds, the element of a `for`, a closure searched in any order),
*contexts* (verdicts and snapshots of one node in several), the *builder
protocol*, and *files and runs* (artifacts of earlier and killed runs, torn and
stale files, workers that raise or hang, timeouts, cyclic imports).

## Modules

| Module | Models | Notes |
| --- | --- | --- |
| `CollectionSize` | `Domains/Emptiness.lean` | both lattices and the lengths a size stands for |
| `AbstractState` | `Cells/State.lean`, `Engine/Update.lean` | a value is the set of scalars and locations it may be |
| `PythonStore` | CPython's names and lists (external) | `Covers`: what it means that a state is right about a store |
| `ListMethods` | the mutations and conditions of `RuleLang/Plan.lean`, opaque calls | shared by the two models below |
| `CollectionCells` | list programs, analysed and run in lockstep | one action per operation |
| `LoopFixpoint` | `Transfers/Fixpoint.lean` | over any domain and any loop body: both are parameters |
| `LoopSoundness` | what `LoopFixpoint` must assume of them | and the inductive invariant |
| `AbortPolicy` | `Engine/Policy.lean`, `handledHere` | which raises become obligations |
| `Completion` | `Engine/Exc.lean`, `Flow.lean`, `Compatibility.lean` | five completions and their joins |
| `Statements` | `Transfers/Statements.lean`, the loops again | recursive, for TLC only |
| `PythonRun` | CPython's control flow (external) | a machine with a stack of frames |
| `StatementSoundness` | the interpreter against that machine | the properties of statements |
| `MachineRaises` | `mraise`, `oblige`, `verifyReported` | every order of contexts |
| `ProofDuties` | the promise of that log, without its keeping | `MachineRaises` implements it |
| `MantleBuilder` | `StrataMantle/Build.lean` | the open block and the recorded misuse |
| `PyStatements` | places, exceptions and completions | what the lowering and CPython have in common |
| `ExitLowering` | handlers, exits, completions and their dispatch in `Mantle/Translate.lean`, `Mantle/Build.lean` | |
| `StatementLowering` | the lowering of every statement | recursive, for TLC only |
| `MantleRun` | a whole function, well-formedness, and its run by `Mantle/Env.lean` | |
| `PythonExits` | the same statements under CPython (external) | with `with`, `match` and unbinding as operations |
| `LoweringSoundness` | both, in step | |
| `PySpecCache` | `pySpecsDir`, `resolveModule` | and the files, the clock and the developer |
| `OracleBuckets` | `classify_interpret`, `process`, `compare.main` | how one method is judged |
| `CpythonOracle` | the stages, the pool and the build directory | kills and hangs included |
| `BaselineGate` | what that suite promises | `CpythonOracle` implements it |
| `AssertionLowering` | `lower.py`, `_rewrite_cm` | a test under unittest, and the plain program under CPython |
| `Prelude` | `module_defs`, `prelude_for` | a search in any order |
| `ProgramGeneration` | one method from selection to a program | composes the two above |
| `HarnessGates` | `gates.py`, `run_all.py`, `coverage.py`, `admission.py` | |
| `MC*` | instances for TLC | constants only |
| `*_proofs` | theorems | of `CollectionCells`, `LoopFixpoint`, `MachineRaises`, `MantleBuilder`, `PySpecCache`, `CpythonOracle`, `ProgramGeneration`, `HarnessGates` |

### How state and actions correspond

*`CollectionCells`.*  `abs` is the `AState` the transfers thread; `store` is the
CPython frame and heap; an action is one statement on a list, with the state the
transfer computes and the classes it models on one side (`Step`'s `next` and
`raises`) and what CPython may do on the other (`results`).  `EnterIf` and
`LeaveIf` are an `if` without `else`: the analysis follows the arm and joins at
its end, the program takes the arm or skips it, and while it skips, the state the
arm was entered with (`entry`) speaks for it.  `outcome` records how the last
operation ended and what the analysis allowed; a run ends when the two part.
`uses` is the vocabulary the program is written in; it never changes.

*`LoopFixpoint`.*  `Round` is one recursion of `close`: one iteration step from
`invariant`, escapes joined in, and either the end or the next invariant.
`SkipBody` and `StartClosing` are the two starts of `forFixpoint`; a `while` has
the second only.  When the loop is closed, the program (`Iterate`, `Escape`,
`Exhaust`) runs from any store the entry state covers.

*`Statements` and `StatementSoundness`.*  Analysing a program is a function, as in
the code: a program goes in, a completion and a context with snapshots come out.
`StatementSoundness` computes it once per program and policy and then runs the
program; each property looks up what the analysis recorded for the point the run
is at.  A raise that the policy turned into an obligation excuses the run from
there on (`Excused`): the proof is owed, and what follows is not claimed.
The `Actx` stacks are `handling` and `active`; `snaps` is `states` restricted to
one context; objects are one scalar, as handler bindings and truth tests are all
that statements do with them.

*`MachineRaises`.*  `rows` is `machineRaises`, `obligations` is the list made a
set (`oblige` drops duplicates), `errors` the classes of the residual rows.
`Raise` is `mraise` with the row and the obligation in one step, `EnterTry` and
`LeaveTry` the push and pop of `activeHandlers`, in any order a program, its
callees and its entry points can produce.  `verdicts` and `outcomes` are history
variables.

*The lowering.*  A translator is a record: the builder's state and `handler`,
`handled`, `exits`, `targeted`, `classBody`, which are the fields of `Ctx` and
`TState` control flow depends on; a lowering operator takes one and gives the next.
Labels and values are named by the place of the statement they are made for, where
the code draws numbers.  The operands of a statement are one operation that may
fail, and a condition is one test.  Where a class body unbinds a name, the store
and the delete are one operation.  The arguments `pre-bound` to a handler are left
out, no statement gives any.  `BuiltFunc` is `toFunc`, the blocks no jump reaches
dropped and the rest held to the rule of `WF.lean`: that every use is dominated by
its definition is computed as what each block needs on entry, and the entry block
must need nothing.  What was misused or is not well formed becomes the stub, whose
run ends at once; so `InStep` fails for it too.  `MantleRun` executes the blocks;
`handled` is the run's `exc_info`.  An instruction that may fail is an operation
with an outcome, chosen once for both sides (`Operation`); everything else each
side does by itself (`MantleStep`, `PythonStep`).

*`PySpecCache`.*  `file` is the directory of specifications, `source` the sources
with the time of their last edit; `stack` holds a `Frame` per translation under
way, with a table of its own (`found`, `failed`), as `resolveModule` makes one for
every module it translates.  `NextModule` takes the modules of `pySpecsDir` in any
order, `Resolve` is one import, `OpenFile` and `WriteFile` the two halves of
`writeDDM`.  `Asked` and `Imported` are the two names a package's file has.
`Edit`, `Tick`, `Kill` and `WriteFails` are the world around it.

*`CpythonOracle`.*  `stage` is the stage the script is in; `pc`, `hung`, `codes`
are the worker of each method, its three subprocesses and what they returned;
`ion`, `engines`, `oracle`, `lib`, `baseline` are files, of which "old" ones are
only known to be of an earlier run.  `Leave` is the end of the script's process:
what was in memory is gone, what is on disk ages.  `OriginalHangs` is an
original method, which `oracle.py` runs in its own process, that never returns: the stage
then waits (`OriginalHung`) until somebody kills the run.  `clash` is a program that finds
another's file in its directory.  The release may change between two runs.

*Generation.*  `Unittest` runs a method under unittest and `Plainly` the lowered
one under CPython, from the same behaviour of the functions they call; a body is a
sequence of statements with bodies, and both, like the lowering itself (`LowerBlock`),
are recursive functions of it.  `Sight` is what the rest of a block is lowered in sight
of: the last scaffold's number and the binding in force, which the code applies by
rewriting the rest of the block at once.  Under unittest `cm` is one name: it is the
last manager bound (`Entered`, counted by `binds`), whichever block that was in, and
`Expected` gives an exception to the manager whose block it leaves, which `cm` may no
longer name.  `Prelude`
takes a name from the frontier in any order (`Pop`), scans for mutators when it is
empty (`Scan`) and goes on while a scan chose something (`Closed`).
`ProgramGeneration` has an action for each of `select_file`, `_lower_method`,
`prelude_for` and the checks at the end of `generate`.

*`HarnessGates`.*  `gates` is the list of gates a command runs and `stage` where
the first of them is; `Analyse` is one worker; `OpenExpected` and `WriteExpected`
are the truncation and the write of a pinned file.  `Edit` changes what analysing
a program comes to, whether by its text or the analyzer's.  `steady` and `cleared`
are history variables.

## Runs

| Run | Asks | Expected |
| --- | --- | --- |
| `cells` | does the state cover the store, and is no outcome missed, after any list program of six operations? | pass |
| `loop_fixpoint` | does a closed loop account for every run of it, and does closing end? | pass |
| `statements` | are the states at statements, join points, handler entries and exits right for 19777 programs around a `try`, strict and audit? | pass |
| `raises` | is the log right for every order of contexts, and does it implement `ProofDuties`? | pass |
| `lowering` | do the blocks of 900 functions and class bodies do what CPython does, whatever every operation comes to? | pass |
| `pyspec` | is what counts as up to date up to date, does failure have a cause, does every run end? | pass |
| `oracle` | does a run judge its own files, fail on a regression, end unless an original hangs, and implement `BaselineGate`? | pass |
| `generation` | does the generated program assert what the test asserts, with all it needs and nothing else? | pass |
| `gates` | is what a passing command says true of the tree, and are digests blessed whole? | pass |
| `cells_pop` | no outcome is missed: `pop` | violated |
| `finally_reraise` | the exits of a program: a bare raise in `finally` | violated |
| `pyspec_package` | after a run that succeeded, readers find the specification of the source: a package | violated |

What the passing runs show:

* `cells`: `NamesCoveredFixed`, `ElementsCoveredOnce`, `LengthsCoveredFixed` and
  `OutcomesContainedFixed` say that names, elements, lengths and outcomes of the
  store are among those of the state.  They set aside the programs of the
  disagreements below, by what those are written with: `Rebuilds` (a list made from
  a list), `ReadsBack` (an index as well) and `Resizes` (`extend`, `pop`, `remove`
  and the store into an unknown object).  The vocabularies overlap so that each
  operation is used in a program nothing is set aside for, except those of
  `Resizes`, whose names and elements are still checked, and lists made from lists,
  whose names, lengths and outcomes are.
* `loop_fixpoint`: `HeadCovered`, `EscapeCovered` and `ElseCovered` are about the
  closed loop; `Closes` is termination.  The assumptions of `LoopSoundness`, which
  the proofs use, are evaluated for the instance.
* `statements`: `StatementsCovered` and `JoinPointsCovered` are about the
  snapshots, `ExitCovered` about the completion of the whole program,
  `LiveHandlersKept` about the policy, `HandlersSeparate` and `FinallyReplaces`
  about precision the code promises: a handler sees only the raises it catches, an
  abrupt `finally` leaves nothing pending.
* `raises`: `RowsCombined`, `DutiesOwed`, `OutcomesAccounted`, and the
  refinement `DutiesKept`.
* `lowering`: `InStep` is one property of everything the lowering emits: the two
  sides come to the same operation, on the same exception, with the same one
  handled, in the same order, to the end, where the caller gets the same result and
  its own handled exception back.  Deadlock is checked, so neither side gets stuck.
* `pyspec`: `NewerIsCurrent` is the cache's promise, whatever coincides in one tick
  of the clock; `ImportsHold` that no failure leaves a file behind;
  `FailureHasCause` that a module is reported only for something wrong in what it
  reaches; `OverflowsOnCycles` and `RunEnds` that the recursion is as deep as the
  imports.
* `oracle`: `OwnArtifacts`, `PlannedAccounted`, `LoweringJudgedAlone` and
  `HelpersOfVersion` are about the hand-over of files between stages, workers and
  runs; `RegressionFails` and `ImplementsGate` about the answer; `RunEnds` about
  hangs: no subprocess keeps a run from ending, only an original method can.
* `generation`: `NothingStronger` and `NothingWeaker` compare the two runs of a
  method for every behaviour.  Both set aside what a return out of an asserting `with`
  and a `subTest` in one change (`Straight`), the first methods that read a binding
  out of its block (`ReadsBound`), the second only those where such a read is under an
  `assertRaises(Exception)`, which catches its NameError (`NoReadIsCaught`), and both a
  `with ... as cm` in the body of another (`NotRebound`; see `CmIsTheBlocks` under Disagreements).
  `PreludeClosed` and `NothingExtra` compare the prelude with what it needs; `Decided` is termination of the search.
* `gates`: `GreenIsCurrent`, `LogsOfThisRun`, `BlessedWhole`.

Every property has a mutant of the code that violates it, a definition kept
beside the one it changes and marked "Mutation" where it is not obvious.

## Bounds

| Constant | Value | Why it is enough |
| --- | --- | --- |
| `Vars`, `Sites` (cells) | 2 and 2 | an alias and its original; a site that is folded while another is not |
| `MaxObjs` | 3 | recent, summary, and a second object folded into the summary |
| `MaxLen` | 2 | empty, one, several; an index at the end |
| `MaxSteps` | 6 | allocate three times, alias, mutate, read; the disagreements below need three |
| `MaxCount` (loops) | 2 | a count that differs from the one a body leaves |
| bodies of loops | up to 2 operations | two iterations reach every state; bodies that clear, bind and break |
| programs of `statements` | one `try`, two statements in its body, up to two clauses, six placements | every pair of exits meets every part of the `try`, and each placement is a different continuation |
| `Classes` (statements) | 6 | a class, a subclass, the root, and the three the interpreter raises, in two categories |
| `MaxDepth` (raises) | 2 | a handler that catches inside one that does not, and the reverse |
| nodes, classes, categories (raises) | 2, 3, 2 | two classes at one node, one class at two, a class caught through its base |
| programs of `lowering` | every way out, inside each of 15 shapes, inside each of them, in a loop or none, in a function and a class | an exit that leaves two statements and a loop passes every pair of handlers, cleanups and loops in either order; a third level repeats one of these pairs |
| `Callers` | none, one | a bare raise and the restored exception depend on whether there is one |
| modules (pyspec) | 4: a package, one without a source, two that import | an import within an import, through a package, to a missing module, and a cycle |
| `MaxDepth` (pyspec) | 4 | at least the modules, so only a cycle is deeper |
| `MaxTime`, `MaxEdits`, `MaxRuns` (pyspec) | 2, 1, 2 | an edit in the same tick as a run and in a later one; a run over what another left |
| methods, workers, releases (oracle) | 2, 2, 2 | one program beside another, two at once, a change of release |
| `InterpretCodes` | 0, 2 | a pass and a failure; a hang is a code of its own |
| `Flags` | a run that updates or checks, then one that checks | a record and a check over it, over the build directory of the first |
| `Depth` (generation) | 3 | the bodies below are no deeper, and their code is as deep as they are |
| bodies (generation) | asserting withs nested twice around leaves, each followed by a read, a nested read, a read under `assertRaises(Exception)`, a call, or a binding again | a wrong exception inside, between and outside two scaffolds |
| modules (generation) | 3 statements of 12 shapes | a definition found late, two definitions of one name, one statement of two names, mutators that bring mutators |
| programs (gates) | 3, one left to a gate of its own | a log the gate may and one it may not count |
| `MaxEdits`, `MaxCommands`, `MaxKills` (gates) | 1, 3, 1 | spoil, then fail or bless, then check |

`MaxSteps`, `MaxObjs`, `MaxLen`, `MaxDepth` (raises), the counts of edits, kills,
commands and runs, and `MaxTime` are in guards of the actions; the code has no
such limits.  `MaxDepth` (pyspec) stands for the size of the process's stack.
Deadlock is checked where the system does not stop (`statements` and `lowering`,
whose finished programs stutter, and `raises`); list programs, loops, scripts and
commands end.

## Fairness

* `LoopFixpoint`: weak fairness of `SkipBody`, `StartClosing` and `Round`.
  `close` is a recursive function of a sequential program, so while a round can be
  taken it is.  The program side has none; a loop may run for ever.  `Closes` needs
  no more, because a chain of joins in a finite domain ends, and the domain is
  finite for a given program: scalars and locations are drawn from it, and of the
  sizes, which are not finite, the order sees only the emptiness.
* `CpythonOracle`: weak fairness of the script and of each worker's progress,
  its timeout included.  The operating system runs both.  Nothing makes a
  subprocess end, hang, or a user start or kill a run: no subprocess that hangs keeps
  a run from ending, because the timeout is the worker's own.  The originals have none:
  `oracle.py:75-89` runs them one by one in the process of the stage.  So `OriginalHangs`
  is possible wherever `RunOracle` is, and `RunEnds` says that a run ends or is in an
  original that hangs.
* `PySpecCache`: weak fairness of the steps of a run, which is one process; edits,
  kills and failed writes are not fair.
* `ProgramGeneration`: weak fairness of the search and the checks after it, which
  run in one thread.

## Proofs

`tlapm` checks all of them for every value of the constants.

* **Loops** (`LoopFixpoint_proofs`).  From the assumptions of `LoopSoundness` (a
  join covers its arguments, what is below a state is covered by it, one step of
  the analysis covers one iteration, the element value read at entry remains
  good), `LoopInvariant` proves `Spec => []IInv`, and `LoopTypeOK`,
  `LoopHeadCovered`, `LoopEscapeCovered` and `LoopElseCovered` follow.
  `HeadCovered` is not inductive: an iteration is covered only because the closed
  invariant is above its own back edge, an escape only because the last round
  recorded the escape of that invariant, an `else` only because a program that
  has turned implies a round that progressed.  `IInv` says these three things
  (`Closed`, `EscapeAbsorbed`, `turned => progressed`) and what holds before.
* **The domain and the lists** (`CollectionCells_proofs`).  `JoinCovers` and
  `LeCovers` are the first two of those assumptions, for the domain of
  `AbstractState` with any names, scalars, sites and counts; the lemmas on sizes
  show where the second stops: only emptiness is compared, so `LeCovers` speaks of a
  covering that reads sizes that way.  `AllocateCovers` is the recency abstraction's
  own claim: folding the recent object of a site into its summary keeps every name,
  element and length covered, for a store without dangling references
  (`WellFormed`).  On these rests `CellsInvariant`, `Spec => []CellsInv`: whatever a
  list program of any vocabulary does, the state that speaks for the store (in an
  arm the program skips, the one it was entered with) keeps what the vocabulary
  leaves true (`Keeps`).  No property of the run is inductive by itself.  Names need
  elements, because an index binds one; outcomes need lengths, because an index
  judged in range must be; and where a list is rebuilt while it is an element, the
  elements are lost, so the invariant keeps that a cell is not empty when the list
  is not (`KnownIn`), or a copy would be taken for an empty one.  `Sound` is what one
  operation owes; each has a lemma.  `NamesStayCovered`, `ElementsStayCovered`,
  `LengthsStayCovered` and `OutcomesStayContained` follow.
* **The log** (`MachineRaises_proofs`).  `LogInvariant` proves
  `TypeOK /\ RowsCombined /\ DutiesOwed /\ OutcomesAccounted`.  It is inductive as
  a whole: a row and an obligation agree after a raise because they agreed before
  and the raise changes both for the same classes.  `LogKeepsDuties` is the
  refinement of `ProofDuties`, step by step, and needs the invariant for the
  rows' type and for what a combination of modes can be.  `ContractAborts`,
  `UserRaisesModelled` and `HandledModelled` are about the policy alone:
  contracts abort under every policy, explicit raises never, caught ones never.
* **The builder** (`MantleBuilder_proofs`).  A client calls the builder's
  operations in any order.  `BuilderKeepsBlocks`: while no misuse is recorded, the
  labels used are those of the finished blocks and the open one, each once, so a
  block that was lost or opened twice is a misuse on record.  With its types it is
  inductive as it stands.
* **The cache** (`PySpecCache_proofs`), in three invariants, for any modules, imports
  and runs.  `IInv` dates what a translation under way read: unless its source was
  edited under the run, the text in a `Frame` is the source's and it is at some
  point of that text's imports; without errors so far, every import before that
  point is kept (`Kept`: it has a source that declares the name); no time is later
  than now; and what is being written has no imports left and no errors.
  `NewerCurrent` and `ImportsAreThere` follow.
  `CauseInv` explains what fails: while nothing is edited, the frames of the stack
  each import the next, and a frame in error, a module refused to one, and a
  reported module are all `Doomed`, they reach something with a fault of its own
  (`Hopeless`).  A half-written file is a fault only while no translation into that
  file is under way, which is about to replace it; so `Opened` must say of each frame
  that the file it is for could not be read when it was pushed, and `DoomedStays`
  that no write mends a module but the one written.  `FailuresHaveCauses` follows,
  and `CyclesOverflow` from the chain of imports: as many frames as there are
  modules and an import more hold one module twice (`Repeated`; the modules are
  finite).
  `DoneInv` says of every module a run has come to that it is the one at hand, was
  reported or is up to date, in the file the run makes for it.
  `SuccessCurrentAsked` follows: after success that file is of the source.  Next to
  the run `pyspec_package`, which shows that readers do not find it, this pins that
  disagreement to the file's name.  `CacheTypeOK` is type correctness.
* **The oracle** (`CpythonOracle_proofs`).  `RunsOfTheSuite` proves
  `Spec => []OracleInv`, which says stage by stage what the files hold:
  `NothingStale`, `Work` (where a worker is and what its codes say of it),
  `HandedOn` (what each stage finds of this run), `Libraries`, `Answered`.
  `ReadsItsOwn`, `AllAccounted`, `JudgedAlone` and `HelpersAreOfVersion` follow.
  `RegressionsFail` adds what the buckets make of codes: a method that runs cleanly
  under CPython and fails or hangs in one of the three subprocesses, its lowering
  not being broken, is in another bucket, and in one the comparison looks at.
  `PipelineImplementsGate` is the refinement of `BaselineGate`: `RowsAreSeen` shows
  that what the comparison computes from the files is what the subprocesses would
  have come to each by itself.
* **Generation** (`ProgramGeneration_proofs`).  First the prelude: `PreludeIsClosed` and
  `PreludeIsMinimal`, by `PreludeInv`: every name looked up that is defined has its
  definition chosen, every name a chosen statement mentions was looked up or is in the
  frontier, and what is chosen is in every self-contained set.  The order of the search
  is any.  `ClosureHasItsMutators` pins the disagreement about `MutatorsOfClosure` to
  statements that bind two names.
  Then the lowering, for bodies of any length, nested to any `Depth`.  That needs
  induction over bodies, and the library's induction theorems take an operator, which
  no backend can instantiate; so the induction is proved, for sets.  `NatInduct` rests
  on the pigeonhole theorem: numbers missing from a set that holds 0 and successors
  would map one to one, by `k - 1`, into themselves without their last.  `SeqInduct`
  and `BodyInduct` go by the length and the depth, and `WalkExists` gives every
  function that is defined by the values on a head's own body and on the tail, as the
  smallest relation closed under its equation: so `Unittest`, `Plainly`, `Inside`,
  `LowerBlock` and `ReadsInBlock` are what their definitions say (`UnittestDef` and so
  on), and code is no deeper than what it is lowered from (`LowerFits`).
  `LoweringSimulates` runs a body and its code side by side.  Related runs have done
  the same and, when a binding is in sight, the scaffold's local keeps what the manager
  holds; then so do their ends (`Agree`), and only handlers numbered on the way have
  run, or the code stopped at a failed `subTest` or a name out of sight (`Lost`).
  `ScaffoldAgrees` is its heart: an exception, its class and the pattern decide the
  `assertRaises` and the scaffold alike, which needs that the flag of a scaffold is
  cleared before its body, that no handler inside has its number, and that nothing inside
  has bound `cm` again, which `BindsStay` has of a body without bindings.  That is why the
  simulation asks of a body that no binding is in the body of another.
  `GenInv` says of a method what was checked of it, what its code is, and that the
  prelude was collected for the names the code mentions; since lowered code calls what
  the method calls (`LoweredCalls`), `NeverStronger` and `NeverWeaker` follow.
  `GenerationSearchesPrelude` says that generation implements `PreludeSpec`, so what is
  proved of the prelude holds of the one collected (`GeneratedPreludeIsClosed`,
  `GeneratedPreludeIsMinimal`).  `SelectedIsEmitted` pins the disagreement about
  `SelectionAgrees` in the same way: a selected body is refused exactly if a statement of
  it has no form or binds again in sight of a binding (`GeneratedWhenFit`), or if its
  prelude names something dynamic.
* **The gates** (`HarnessGates_proofs`).  `GreenMeansCurrent`, `LogsAreOfTheRun` and
  `BlessedAreWhole`, by `GatesInv`, which for a steady command relates the results
  collected, the programs left and the logs to the tree, and says which gates have
  passed by the gates still to come.

The assumptions on constants (`AbortPolicy`: every class is its own ancestor,
categories are distinct; `AbstractState` and `PythonStore`: values, references,
locations and the missing state differ, which their tags do in the code;
`PySpecCache`: the modules of a directory are finitely many and the stack is at least
as deep as that; `Prelude`: a module has finitely many statements; `AssertionLowering`:
`Depth` is a number; `ProgramGeneration`: methods are bodies of written statements, and
what they call are names; those named `...Assumption` in the other modules, which type the constants;
`LoopSoundness`) are evaluated by TLC in the passing runs.

Every property of a passing run has a theorem, but for these, which are only
model-checked: the properties of `Statements` and of the lowering to Mantle (`InStep`),
whose modules declare RECURSIVE operators, with which the prover loses its SMT backend;
and liveness (`Closes`, `RunEnds`, `Decided`), which is beyond the prover.  The
invariants of the proofs were checked with TLC on the instances of the runs
before they were proved.

## Disagreements

Found while modelling.  Three are reproduced by a run:

| Run | Code | What happens |
| --- | --- | --- |
| `cells_pop` | `Pylate/Rules/Builtins.lean:119` | `pop` leaves the recorded size; the second `pop` of a one-element list cannot fail, says the analysis |
| `finally_reraise` | `Pylate/Transfers/Statements.lean:176` | a bare `raise` in a `finally` interrupting an exception is a RuntimeError to the analysis |
| `pyspec_package` | `StrataPython.lean:165` | after an import wrote a package's specification and the package was edited, a run asked for it writes another file than the one readers take, and succeeds |

Others have a property that states what is expected and no run; adding the
property to the named configuration shows them:

| Property | Configuration | What happens |
| --- | --- | --- |
| `ElementsCovered` | `cells` | `x = [x]` twice: the element of the new list is read before the fold that renames it (`RuleLang/Plan.lean:1107`, `Cells/State.lean:274`) |
| `LengthsCovered` | `cells` | `extend` marks the receiver non-empty whatever it is extended by (`Plan.lean:956`); a list stored in an unknown object keeps its size (`Transfers/Objects.lean:659`); `remove` shortens no list (`Rules/Builtins.lean:130`), so `x = [k]`, `x.remove(k)`, `x[0]` misses its IndexError |
| `NamesCovered` | `cells`, with `load` among the operations of `Nested` | after a list is rebuilt while it is an element, an index binds an object the state does not list |
| `FinallyEntryCovered` | `statements` | the finally-entry snapshot has only the normal completion (`Transfers/Statements.lean:428`); its comment says all |
| `HelpersMatch` | `oracle` | a killed extraction leaves half a file, which exists and is never extracted again (`corpus.py:81-83` says the helpers match exactly) |
| `FilteredRunPasses` | `oracle` with `MCFiltered` | `--filter` reports every unmatched method of the baseline as gone (`plan.py:7-9` says it would not) |
| `MutatorsOfClosure` | `generation` | a definition chosen under another name it binds does not bring its mutators (`prepare.py:386`) |
| `LoweringIsTheAssertion` | `generation` | a `return` in an asserting `with` skips the assert; a `subTest` in an `assertRaises(AssertionError)` no longer fails by itself; a binding read out of its block is a NameError in the program, which an `assertRaises(Exception)` around the read takes for the expected exception (`lower.py:332-333`) |
| `CmIsTheBlocks` | `generation` | a `with assertRaises(...) as cm` in the body of another: after both, `cm` is the inner manager to Python, while `cm.exception` was rewritten for the outer one (`prepare.py:187-192`); where the test reads the inner exception, or stops at an AttributeError as the inner manager caught none, the program reads the outer exception and goes on; neither `prepare.py:80-103` nor the selector refuses it |
| `SelectionAgrees` | `generation` | a method that calls an assertion helper of its class is selected and then refused (`selector.py:240`) |

Noticed, without a property.

* Pylate: `AState.le` ignores counts (`Cells/State.lean:266`), so a loop may close
  with the count of its entry; a `for` does not see what its body appends to its
  list (`Fixpoint.lean:385`); `del` of a name that may be unbound raises nothing
  (`Analyzer.lean:372`), and the programs of `statements` delete bound names only;
  `resCase` labels a raise "abort" from the policy alone, also when a handler
  catches it and `mraise` modelled it (`Machine.lean:172` and `185`);
  `unreported-outcome` has no class in its kind, so the second unreported class of a
  statement is not filed (`Machine.lean:144`, `280`); `breakTarget` and `loopExit`
  are recorded for `while` only; explicit raises that pass a loop come back as the
  interpreter's own, which `Machine.lean:275` describes.
* PySpec: `Elaborate.lean:1732` calls fatal what `PySpecPipeline.lean:943-950`
  skips; a half-written file newer than its source makes every import of it fail
  until the source is touched, while `pySpecsDir` skips it as up to date; modules
  that import each other overflow the stack; `--skip` is not part of what a file is
  judged by; a specification made with an import that has changed since stays.
* The oracle: `prepare.py:59-61` says the run fails if a program behaves differently
  from its test, while the bucket `loweringBroken` is left out of the comparison;
  a method that was excluded may go unnoticed (`compare.py:64-66`); `--filter
  --update` overwrites the whole baseline; `oracleMissing` is unreachable; two
  invocations at once share a build directory, and stems that are equal a file;
  `setUpClass` runs once for all methods of a file (`oracle.py:75`); `import re as r`
  counts as an import of `re` (`prepare.py:331-332`, `673`); `cm.exception` read
  outside the block of its binding is not rewritten; an original method that hangs has
  no timeout and stops the suite (`oracle.py:86`), unlike its program (`runner.py:45-51`); the selector accepts an
  `assertRaises` statement without a callable, which generation refuses; the lowering of
  `assertWarns` (`lower.py:218-283`) is unreachable.
* The harness: the coverage gate run by itself reads whatever logs there are;
  `--check --bless` always passes; the admission gate cannot be blessed over a torn
  manifest.

## Not modelled

In Pylate: attributes, dictionaries, sets, strings and numbers (their cells follow
the rules of element cells; the tables behind them are data, compared with
CPython by the repository's harness); comprehensions and generators; calls, which
the plan takes next; annotations; residual rows beyond their classes; memo caches
and output.  Literal bags, signs and floats of values are proved in
`Domains/Gamma.lean` and stand outside what control flow depends on.

In the lowering: expressions (one operation each), the scope pass, comprehensions,
definitions, types and type arguments of the builder.  In PySpec: what a
specification says beyond the types it declares and imports; star and relative
imports.  In the oracle: the report, the download, and the one-to-one rewriting of
value assertions.  In the harness: the checks on one program, which are one verdict.

Elsewhere: everything in the plan below, and, for good, what is a syntax-directed
translation without state (`PythonToLaurel`, `Resolution`, `Translation`,
`PythonToCore`, `Regex`); the grades of `fullElaborate`, a fixpoint with nothing to
go wrong on the programs the translator makes, since every procedure declares an
Error output (`Translation.lean:966-977`, `1195`, `1269`) and the second round
changes none; what is static data checked at start (`RuleLang`'s validation,
`Tables`); what is proved in Lean beside the code (`NatTree23`, `IndexMap`,
dominators); the probes and generators of the harness, single passes whose result
is a function of their input; the programs of the corpus, which are data; and
input and output.

## Plan

In order of what matters most; what is above is done.

1. `Contexts`: inlining, call chains in snapshot keys, the yields stack of eager
   generators, recursion cut off; composed with the snapshots of `Statements`.
   Property: a snapshot of one chain covers the runs of that chain and holds
   nothing of another.  Proof: stacks balanced on every completion.
2. `Statements` and `StatementLowering` as recursive functions of a program, as
   `AssertionLowering` is, and with them the algebra of completions proved (join is an
   upper bound, the loop boundary and the bridge lose no state) and `InStep` as a
   simulation.
3. `OverloadMerge` (`PySpecPipeline.lean`) and `Linearization` (C3,
   `Syntax/ClassTable.lean`) as pure algorithms against reference definitions over
   bounded inputs, where the repository has no Lean proof.
