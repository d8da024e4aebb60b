------------------------------- MODULE Prelude -------------------------------
(***************************************************************************)
(* The module-level statements a generated program carries (StrataPython-  *)
(* Test/cpython_oracle/prepare.py, module_defs and prelude_for): the       *)
(* definitions of every name the program uses, the definitions those use,  *)
(* and the statements that change one of them.  The frontier is a Python   *)
(* set of strings, so the order names are popped in is the order of their  *)
(* hashes, another in every process.                                       *)
(***************************************************************************)
EXTENDS Integers, FiniteSets

CONSTANTS Stmts,  \* module-level statements, by their place in the file
          Names,  \* names of the module
          Modules \* the modules: what each statement binds and mentions, which may change a
                  \* definition without making one, and which import re under some name

Module == [binds : [Stmts -> SUBSET Names], uses : [Stmts -> SUBSET Names],
           mutators : SUBSET Stmts, imports : SUBSET Stmts]

ASSUME PreludeAssumption == Stmts \subseteq Int /\ IsFiniteSet(Stmts) /\ Modules \subseteq Module

VARIABLES mod,      \* the module under way
          seeds,    \* names the emitted class mentions
          frontier, \* names still to be looked up
          chosen,   \* the statements of the prelude
          provided, \* names under which a definition was chosen
          changed,  \* the last scan chose a mutator
          phase     \* "waiting", "close" (close_defs), "scan" (the mutators), "done"

preludeVars == <<mod, seeds, frontier, chosen, provided, changed, phase>>

PreludeInit ==
  /\ mod \in Modules
  /\ seeds = {} /\ frontier = {} /\ chosen = {} /\ provided = {}
  /\ changed = TRUE /\ phase = "waiting"

\* module_defs: a name bound twice is defined by its last binder.
Binders(n) == {s \in Stmts : n \in mod.binds[s]}
DefOf(n)   == {s \in Binders(n) : \A t \in Binders(n) : t <= s}

NamesOf(stmts) == UNION {mod.uses[s] : s \in stmts}

Begin(used) ==
  /\ phase = "waiting"
  /\ seeds' = used /\ frontier' = used /\ phase' = "close"
  /\ UNCHANGED <<mod, chosen, provided, changed>>

NewNames(n, stmts) == NamesOf(stmts) \ {n}

\* Mutation: a chosen definition is taken again.
FoundAgain(n) == DefOf(n)
Found(n)      == DefOf(n) \ chosen

ProvidedBy(n, found) == IF found = {} THEN {} ELSE {n}

\* close_defs, one name.
Pop ==
  /\ phase = "close"
  /\ \E n \in frontier :
       LET found == Found(n)
       IN  /\ chosen' = chosen \cup found
           /\ provided' = provided \cup ProvidedBy(n, found)
           /\ frontier' = (frontier \ {n}) \cup NewNames(n, found)
  /\ UNCHANGED <<mod, seeds, changed, phase>>

\* Mutation: one scan of the mutators is enough.
ScanOnce == phase' = "done"
ScanAgain == phase' = IF changed THEN "scan" ELSE "done"

\* The frontier is empty; the scan is repeated while the last one chose something.
Closed ==
  /\ phase = "close" /\ frontier = {}
  /\ ScanAgain
  /\ UNCHANGED <<mod, seeds, frontier, chosen, provided, changed>>

\* Mutation: every statement that may change something is taken.
AnyMutator == mod.mutators
Touching   == {s \in mod.mutators : mod.uses[s] \cap provided # {}}

\* The names a scan provides do not change during it: the mutators' order is no matter.
Scan ==
  LET pulled == Touching \ chosen
  IN  /\ phase = "scan"
      /\ chosen' = chosen \cup pulled
      /\ frontier' = frontier \cup NamesOf(pulled)
      /\ changed' = (pulled # {})
      /\ phase' = "close"
      /\ UNCHANGED <<mod, seeds, provided>>

PreludeStep == Pop \/ Closed \/ Scan
PreludeNext == (\E used \in SUBSET Names : Begin(used)) \/ PreludeStep

PreludeSpec == PreludeInit /\ [][PreludeNext]_preludeVars

-----------------------------------------------------------------------------
(* Properties *)

PreludeTypeOK ==
  /\ mod \in Module
  /\ seeds \subseteq Names /\ frontier \subseteq Names /\ provided \subseteq Names
  /\ chosen \subseteq Stmts
  /\ changed \in BOOLEAN
  /\ phase \in {"waiting", "close", "scan", "done"}

\* A finished prelude defines whatever the class or the prelude itself mentions and the
\* module defines, and leaves out no statement that mutates a name looked up: the
\* prelude's objects are in the state the module left them in (prepare.py:384-388).
PreludeClosed ==
  phase = "done" =>
    /\ \A n \in seeds \cup NamesOf(chosen) : DefOf(n) \subseteq chosen
    /\ Touching \subseteq chosen

\* What a prelude needs, without the search: a set of statements is self-contained when
\* it defines what it and the class mention and holds what changes its definitions.
Bound(stmts) == UNION {mod.binds[s] : s \in stmts}
SelfContained(stmts) ==
  /\ \A n \in seeds \cup NamesOf(stmts) : DefOf(n) \subseteq stmts
  /\ {s \in mod.mutators : mod.uses[s] \cap Bound(stmts) # {}} \subseteq stmts

\* Nothing is emitted that some self-contained set can do without: one statement the
\* front end cannot translate would fail every method of the file.
NothingExtra == \A stmts \in SUBSET Stmts : SelfContained(stmts) => chosen \subseteq stmts

\* prepare.py:386 says that statements that mutate a name already in the closure are
\* pulled in too.  A name whose definition was chosen under another name it binds is not
\* provided, and its mutators are left out when it is popped second.
MutatorsOfClosure ==
  phase = "done" => {s \in mod.mutators : mod.uses[s] \cap Bound(chosen) # {}} \subseteq chosen
=============================================================================
