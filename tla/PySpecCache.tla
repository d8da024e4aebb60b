------------------------------ MODULE PySpecCache ------------------------------
(***************************************************************************)
(* The PySpec translator and its files (StrataPython.lean, pySpecsDir;     *)
(* StrataPython/Specs.lean, resolveModule): every module asked for is      *)
(* translated unless its specification is newer than its source, and a     *)
(* module met in an import is read from its specification or translated on *)
(* the way, recursively.  The specification of a package is a file under   *)
(* one name when the package is asked for and under another when it is     *)
(* imported.  A developer edits sources at any time, and a run may be      *)
(* killed or fail to write at any point.                                   *)
(***************************************************************************)
EXTENDS Naturals, Sequences, FiniteSets

CONSTANTS Modules,   \* the names imports use
          Packages,  \* modules whose source is an __init__.py
          Names,     \* type names
          TextsOf,   \* what the source of each module may say; nothing for one that has no source
          Requests,  \* the sets of modules a run may be asked for
          MaxDepth,  \* imports within imports before the stack of the process overflows
          MaxTime, MaxEdits, MaxRuns \* bounds on the clock, the edits and the runs

\* A source: whether it is translatable by itself, the types it declares and the
\* imports it makes, `from from import name' each; one that is not Python makes none.
Import == [from : Modules, name : Names]
Text   == [sound : BOOLEAN, own : SUBSET Names, imports : Seq(Import)]

ASSUME PySpecAssumption ==
  /\ IsFiniteSet(Modules) /\ Packages \subseteq Modules
  /\ \A m \in Modules : TextsOf[m] \subseteq Text
  /\ MaxDepth \in Nat /\ MaxDepth >= Cardinality(Modules)
  /\ MaxTime \in Nat \ {0} /\ MaxEdits \in Nat /\ MaxRuns \in Nat

Sourced == {m \in Modules : TextsOf[m] # {}}

ASSUME RequestsAssumption == Requests \subseteq (SUBSET Sourced) \ {{}}

\* The file a module asked for is translated to, and the one an import reads and writes.
Asked(m)    == <<m, IF m \in Packages THEN "init" ELSE "module">>
Imported(m) == <<m, "module">>
Files       == Modules \X {"module", "init"}

VARIABLES
  source,    \* for each module the text and the time of its last edit
  file,      \* for each specification: is it there, whole, when written, of which text
  now,       \* the clock behind modification times
  asked,     \* modules the run is asked for
  todo,      \* those not yet come to
  stack,     \* the translations under way, the innermost last
  writing,   \* the innermost translation has opened its file
  failures,  \* modules the run reports
  outcome,   \* of the last run
  unwritten, \* history: modules whose file could not be written in this run
  raced,     \* history: modules edited while a run was under way
  edits, runs

vars == <<source, file, now, asked, todo, stack, writing, failures, outcome, unwritten, raced,
          edits, runs>>
runVars == <<asked, todo, stack, writing, failures, outcome, unwritten, runs>>

Absent == [there |-> FALSE, whole |-> FALSE, at |-> 0, text |-> <<>>]

Init ==
  /\ source \in [Sourced -> [at : {0}, text : UNION {TextsOf[m] : m \in Modules}]]
  /\ \A m \in Sourced : source[m].text \in TextsOf[m]
  /\ file = [f \in Files |-> Absent]
  /\ now = 1
  /\ asked = {} /\ todo = {} /\ stack = <<>> /\ writing = FALSE
  /\ failures = {} /\ outcome = "none" /\ unwritten = {} /\ raced = {}
  /\ edits = 0 /\ runs = 0

-----------------------------------------------------------------------------
(* Translation *)

\* What importers of a specification find in it: its classes, and the types it imports.
Provides(text) == text.own \cup {text.imports[i].name : i \in DOMAIN text.imports}

\* isNewer.  Mutation: a file of the same age is newer.
NotOlder(f, m) == file[f].there /\ file[f].at >= source[m].at
Newer(f, m)    == file[f].there /\ file[f].at > source[m].at

\* A translation of one module: into which file, the imports still to be resolved, the
\* modules resolved for it and what they provide, and whether it has errors.  Each has
\* a table of its own.  The imports are resolved whatever else is wrong with the text.
Frame(m, f, text, bad) ==
  [mod |-> m, into |-> f, text |-> text, left |-> text.imports,
   found |-> [k \in {} |-> {}], failed |-> {}, bad |-> bad \/ ~text.sound]

Top   == stack[Len(stack)]
Under == SubSeq(stack, 1, Len(stack) - 1)
Running == todo # {} \/ stack # <<>>

\* The import at hand is of a module already resolved in this translation.
Take(fr) ==
  LET i == Head(fr.left)
  IN  [fr EXCEPT !.left = Tail(@),
                 !.bad = @ \/ (i.from \notin fr.failed /\ i.name \notin fr.found[i.from])]

\* parseAndResolveModule records the answer; an error in the import is one in the importer.
Learn(fr, k, names) == [fr EXCEPT !.found = [j \in DOMAIN @ \cup {k} |-> IF j = k THEN names ELSE @[j]]]
Refuse(fr, k)       == [fr EXCEPT !.failed = @ \cup {k}, !.bad = TRUE]

-----------------------------------------------------------------------------
(* The steps of a run *)

Begin ==
  /\ ~Running /\ runs < MaxRuns
  /\ asked' \in Requests /\ todo' = asked'
  /\ runs' = runs + 1
  /\ failures' = {} /\ unwritten' = {} /\ outcome' = "running"
  /\ UNCHANGED <<source, file, now, stack, writing, raced, edits>>

\* After a module the run goes on, or it was the last one and the run is over.
Over(result) ==
  /\ todo' = {} /\ stack' = <<>> /\ asked' = {} /\ failures' = {} /\ unwritten' = {}
  /\ outcome' = result
Proceed(left, failed, lost) ==
  IF left = {} THEN Over(IF failed = {} THEN "succeeded" ELSE "failed")
  ELSE /\ todo' = left /\ stack' = <<>> /\ failures' = failed /\ unwritten' = lost
       /\ UNCHANGED <<asked, outcome>>

\* The directory is listed in any order; what is up to date is skipped.
NextModule ==
  /\ stack = <<>>
  /\ \E m \in todo :
       \/ Newer(Asked(m), m) /\ Proceed(todo \ {m}, failures, unwritten)
       \/ /\ ~Newer(Asked(m), m)
          /\ todo' = todo \ {m}
          /\ stack' = <<Frame(m, Asked(m), source[m].text, FALSE)>>
          /\ UNCHANGED <<asked, failures, unwritten, outcome>>
  /\ UNCHANGED <<source, file, now, writing, raced, edits, runs>>

\* Mutation: the file an import is translated from is still the importer's.
ImporterOf(k) == Top.mod
SourceOf(k)   == k

\* Mutation: the errors of the importer so far count against the module it imports.
ErrorsCarried == Top.bad
ErrorsBefore  == FALSE

\* The next import of the innermost translation.
Resolve ==
  /\ stack # <<>> /\ Top.left # <<>> /\ ~writing
  /\ LET k == Head(Top.left).from
         f == Imported(k)
         with(fr) == stack' = Append(Under, fr) /\ UNCHANGED <<asked, todo, failures, unwritten, outcome>>
     IN  \/ k \in DOMAIN Top.found \cup Top.failed /\ with(Take(Top))
         \/ /\ k \notin DOMAIN Top.found \cup Top.failed
            /\ \/ k \notin Sourced /\ with(Refuse(Top, k))
               \/ k \in Sourced /\ Newer(f, k) /\ file[f].whole /\ with(Learn(Top, k, Provides(file[f].text)))
               \/ k \in Sourced /\ Newer(f, k) /\ ~file[f].whole /\ with(Refuse(Top, k))
               \/ /\ k \in Sourced /\ ~Newer(f, k) /\ Len(stack) < MaxDepth
                  /\ stack' = Append(stack, Frame(k, f, source[SourceOf(k)].text, ErrorsBefore))
                  /\ UNCHANGED <<asked, todo, failures, unwritten, outcome>>
               \/ \* the stack overflows, and the process with it
                  /\ k \in Sourced /\ ~Newer(f, k) /\ Len(stack) = MaxDepth
                  /\ Over("overflow")
  /\ UNCHANGED <<source, file, now, writing, raced, edits, runs>>

\* Mutation: a module that fails is tried again.
Retried(good)   == IF good THEN todo ELSE todo \cup {Top.mod}
Remaining(good) == todo

\* The innermost translation ends and its importer, or the run, learns how.
Return(good, lost) ==
  IF Len(stack) = 1 THEN Proceed(Remaining(good), IF good THEN failures ELSE failures \cup {Top.mod}, lost)
  ELSE LET importer == Under[Len(Under)]
       IN  /\ stack' = Append(SubSeq(Under, 1, Len(Under) - 1),
                              IF good THEN Learn(importer, Top.mod, Provides(Top.text))
                                      ELSE Refuse(importer, Top.mod))
           /\ unwritten' = lost
           /\ UNCHANGED <<asked, todo, failures, outcome>>

\* Mutation: a module is written whatever errors it has.
AnyTranslation == TRUE
Translated     == ~Top.bad

Fail ==
  /\ stack # <<>> /\ Top.left = <<>> /\ ~writing /\ ~Translated
  /\ Return(FALSE, unwritten)
  /\ UNCHANGED <<source, file, now, writing, raced, edits, runs>>

\* writeDDM writes in place: from the opening on, the file is there and not whole.
OpenFile ==
  /\ stack # <<>> /\ Top.left = <<>> /\ ~writing /\ Translated
  /\ file' = [file EXCEPT ![Top.into] = [there |-> TRUE, whole |-> FALSE, at |-> now, text |-> <<>>]]
  /\ writing' = TRUE
  /\ UNCHANGED <<source, now, asked, todo, stack, failures, outcome, unwritten, raced, edits, runs>>

WriteFile ==
  /\ writing
  /\ file' = [file EXCEPT ![Top.into] = [there |-> TRUE, whole |-> TRUE, at |-> now, text |-> Top.text]]
  /\ writing' = FALSE
  /\ Return(TRUE, unwritten)
  /\ UNCHANGED <<source, now, raced, edits, runs>>

\* The file cannot be opened, or not be written to the end.
WriteFails ==
  /\ stack # <<>> /\ Top.left = <<>> /\ Translated
  /\ writing' = FALSE
  /\ Return(FALSE, unwritten \cup {Top.mod})
  /\ UNCHANGED <<source, file, now, raced, edits, runs>>

Kill ==
  /\ Running
  /\ Over("killed") /\ writing' = FALSE
  /\ UNCHANGED <<source, file, now, raced, edits, runs>>

-----------------------------------------------------------------------------
(* The world around it *)

Tick ==
  /\ now < MaxTime
  /\ now' = now + 1
  /\ UNCHANGED <<source, file, raced, edits, runVars>>

Edit ==
  /\ edits < MaxEdits
  /\ \E m \in Sourced : \E t \in TextsOf[m] :
       /\ source' = [source EXCEPT ![m] = [at |-> now, text |-> t]]
       /\ raced' = IF Running THEN raced \cup {m} ELSE raced
  /\ edits' = edits + 1
  /\ UNCHANGED <<file, now, runVars>>

Work == NextModule \/ Resolve \/ Fail \/ OpenFile \/ WriteFile
Next == Begin \/ Work \/ WriteFails \/ Kill \/ Tick \/ Edit

\* A run is a process that goes on while it is not killed.
Spec == Init /\ [][Next]_vars /\ WF_vars(Work)

-----------------------------------------------------------------------------
(* Properties *)

Frames == {stack[i] : i \in DOMAIN stack}

TypeOK ==
  /\ \A m \in Sourced : source[m].at \in 0..MaxTime /\ source[m].text \in TextsOf[m]
  /\ \A f \in Files : file[f] = Absent \/ (file[f].at \in 1..MaxTime /\ file[f].whole \in BOOLEAN)
  /\ now \in 1..MaxTime
  /\ todo \subseteq Sourced /\ failures \subseteq Sourced
  /\ Len(stack) <= MaxDepth
  /\ \A fr \in Frames : fr.mod \in Sourced /\ fr.into \in Files
  /\ outcome \in {"none", "running", "succeeded", "failed", "overflow", "killed"}

\* A specification newer than its source is of that very source: what a run skips or reads
\* as up to date is so, however close in time edits, runs and kills are, unless the source
\* was edited while a run was at work.
NewerIsCurrent ==
  \A m \in Sourced \ raced : \A f \in {Asked(m), Imported(m)} :
    (Newer(f, m) /\ file[f].whole) => file[f].text = source[m].text

\* A specification newer than its own source and those it imports from is one a clean
\* translation would have made: the source is translatable and finds what it imports.  A
\* failure never leaves a specification behind.
ImportsHold ==
  \A m \in Sourced : \A f \in {Asked(m), Imported(m)} :
    LET text == source[m].text
        from == {text.imports[i].from : i \in DOMAIN text.imports}
    IN  (/\ Newer(f, m) /\ file[f].whole /\ ({m} \cup from) \cap raced = {}
         /\ \A k \in from \cap Sourced : Newer(f, k))
        => /\ text.sound
           /\ \A i \in DOMAIN text.imports :
                LET imp == text.imports[i]
                IN  imp.from \in Sourced /\ imp.name \in Provides(source[imp.from].text)

\* The modules a module reaches through imports.
From(text) == {text.imports[i].from : i \in DOMAIN text.imports}
Closed(S)  == \A k \in S \cap Sourced : From(source[k].text) \subseteq S
Reached(m) == {k \in Modules : \A S \in SUBSET Modules : m \in S /\ Closed(S) => k \in S}

\* Something is wrong with the module itself.
Broken(m) ==
  \/ m \notin Sourced
  \/ ~source[m].text.sound
  \/ m \in unwritten
  \/ Newer(Imported(m), m) /\ ~file[Imported(m)].whole
  \/ \E i \in DOMAIN source[m].text.imports :
       LET imp == source[m].text.imports[i]
       IN  imp.from \in Sourced /\ imp.name \notin Provides(source[imp.from].text)

\* A module is reported, or refused to an importer, only for something wrong with a module
\* it reaches: the errors of one module are not another's because both are imported by a third.
FailureHasCause ==
  (Running /\ raced = {}) =>
    \A m \in failures \cup UNION {fr.failed : fr \in Frames} : \E k \in Reached(m) : Broken(k)

\* A run ends.
RunEnds == Running ~> ~Running

\* The recursion of the translator is as deep as the imports are: a stack overflows only in
\* a module whose imports lead back to itself.
Cyclic(m) == \E k \in From(source[m].text) : m \in Reached(k)
OverflowsOnCycles ==
  [][(outcome = "running" /\ outcome' = "overflow" /\ raced = {}) =>
       \E m \in Sourced : Cyclic(m) /\ m \in Reached(stack[1].mod)]_vars

\* pySpecsDir is to "[t]ranslate all (or selected) Python modules" (StrataPython.lean:121): after
\* a run that succeeds, what readers find for a module asked for is of its source.  They take
\* the file an import writes when there is one (specIonPath), which for a package is not the
\* file the run has brought up to date.  Half-written files are left to FailureHasCause.
Read(m) == IF file[Imported(m)].there THEN file[Imported(m)] ELSE file[Asked(m)]
SuccessIsCurrent ==
  [][(outcome = "running" /\ outcome' = "succeeded" /\ raced = {}) =>
       \A m \in asked : Read(m)'.whole => Read(m)'.text = source[m].text]_vars

\* It is so of the file the run brings up to date, whatever its name: readers of a package
\* are the ones misled.
SuccessIsCurrentAsked ==
  [][(outcome = "running" /\ outcome' = "succeeded" /\ raced = {}) =>
       \A m \in asked : file'[Asked(m)].whole => file'[Asked(m)].text = source[m].text]_vars
=============================================================================
