-------------------------- MODULE CollectionCells ---------------------------
(***************************************************************************)
(* Straight-line list code, analysed and run in lockstep.  abs is the      *)
(* state Pylate's transfers compute (Rules/Builtins.lean through           *)
(* RuleLang/Plan.lean, Transfers/Objects.lean and                          *)
(* StructuralExpressions.lean); store is the CPython store.  An `if`       *)
(* without else splits the two: the analysis follows the arm and joins at  *)
(* its end, the program takes the arm or skips it.                         *)
(***************************************************************************)
EXTENDS PythonStore, ListMethods, SequencesExt

CONSTANTS Vocabularies, \* what the programs of an instance are written with: ops,
                        \* the operations; shape, the expression at each site: a
                        \* literal of scalars, "wrap" for [y], "copy" for
                        \* y.copy(); width, the elements a literal has
          MaxSteps      \* bound: operations of one run

ASSUME VocabularyAssumption == \A u \in Vocabularies :
  /\ u.ops \subseteq {"scalar", "alias", "load", "append", "extend", "clear", "pop",
                      "remove", "opaque", "unknown", "if"}
  /\ DOMAIN u.shape \subseteq Sites /\ DOMAIN u.width = DOMAIN u.shape
  /\ \A s \in DOMAIN u.shape :
       u.shape[s] \in {"literal", "wrap", "copy"} /\ u.width[s] \in 0..MaxLen

ASSUME StepsAssumption == MaxSteps \in Nat

VARIABLES uses,     \* the vocabulary of this program
          abs,      \* the analyser's state at the current point
          entry,    \* its state where the open `if` was entered, or NoState
          arm,      \* "none", or whether the program runs the open arm
          store,    \* the concrete store
          outcome,  \* how the last operation ended, concretely and abstractly
          steps     \* operations so far

vars == <<uses, abs, entry, arm, store, outcome, steps>>

Outcomes == {"normal", "IndexError", "ValueError", "TypeError"}

Contained == outcome.did \in outcome.may

Live == Contained /\ steps < MaxSteps

\* The analysis gives state next on normal completion (NoState for none) and
\* models the classes in raises, from the state before; the program ends in one
\* of results, each <<store, outcome>>.
Step(next, raises, results) ==
  /\ Live
  /\ steps' = steps + 1
  /\ UNCHANGED <<uses, entry, arm>>
  /\ IF arm = "skipped"
     THEN /\ next # NoState
          /\ abs' = next
          /\ UNCHANGED <<store, outcome>>
     ELSE \E r \in results :
            /\ outcome' = [did |-> r[2],
                           may |-> raises \cup (IF next = NoState THEN {} ELSE {"normal"})]
            /\ store' = r[1]
            /\ abs' = IF r[2] = "normal" /\ next # NoState THEN next ELSE abs

\* What both sides say of a receiver that is a list.
MayBeList(x) == Locs(abs.env[x]) # {}
RunsOn(x)    == arm = "skipped" \/ IsList(store.env[x])
ItemsOf(x)   == IF IsList(store.env[x]) THEN Deref(store, store.env[x]).items ELSE <<>>

-----------------------------------------------------------------------------
(* Operations. *)

Normally(c) == {<<c, "normal">>}

\* x = k, a scalar
AssignScalar(x, k) ==
  /\ "scalar" \in uses.ops
  /\ Step(EnvSet(abs, x, {k}), {}, Normally(Bind(store, x, k)))

\* x = [k, ..., k]
Literal(x, s, k) ==
  /\ uses.shape[s] = "literal"
  /\ Len(store.heap) < MaxObjs
  /\ LET n == uses.width[s]
     IN  Step(FreshList(abs, x, s, IF n = 0 THEN {} ELSE {k}, Exact(n)), {},
              Normally(NewList(store, x, s, [i \in 1..n |-> k])))

\* x = [y]
Wrap(x, s, y) ==
  /\ uses.shape[s] = "wrap"
  /\ Len(store.heap) < MaxObjs
  /\ Unbound \notin abs.env[y]
  /\ Step(FreshList(abs, x, s, abs.env[y], Exact(1)), {},
          Normally(NewList(store, x, s, <<store.env[y]>>)))

\* x = y.copy()
Copy(x, s, y) ==
  /\ uses.shape[s] = "copy"
  /\ Len(store.heap) < MaxObjs
  /\ MayBeList(y) /\ RunsOn(y)
  /\ LET elements == Elements(abs, abs.env[y])
     IN  Step(FreshList(abs, x, s, elements, IF elements = {} THEN Exact(0) ELSE Top), {},
              Normally(NewList(store, x, s, ItemsOf(y))))

\* x = y
Alias(x, y) ==
  /\ "alias" \in uses.ops
  /\ Unbound \notin abs.env[y]
  /\ Step(EnvSet(abs, x, abs.env[y]), {}, Normally(Bind(store, x, store.env[y])))

\* x = y[i], i a literal
Load(x, y, i) ==
  /\ "load" \in uses.ops
  /\ MayBeList(y) /\ RunsOn(y)
  /\ LET receiver == Locs(abs.env[y])
         elements == Elements(abs, receiver)
         items    == ItemsOf(y)
     IN  Step(IF elements = {} THEN NoState ELSE EnvSet(abs, x, elements),
              IF IndexDefinitelyInRange(abs, receiver, i) THEN {} ELSE {"IndexError"},
              IF i < Len(items) THEN Normally(Bind(store, x, items[i + 1]))
              ELSE {<<store, "IndexError">>})

\* x.append(y), and x.insert(0, y) where front
AppendTo(x, y, front) ==
  /\ "append" \in uses.ops
  /\ MayBeList(x) /\ RunsOn(x) /\ Unbound \notin abs.env[y]
  /\ Len(ItemsOf(x)) < MaxLen
  /\ LET items == IF front THEN <<store.env[y]>> \o ItemsOf(x)
                  ELSE Append(ItemsOf(x), store.env[y])
     IN  Step(Grow(abs, Locs(abs.env[x]), abs.env[y]), {},
              Normally(SetItems(store, store.env[x], items)))

\* x.extend(y)
Extend(x, y) ==
  /\ "extend" \in uses.ops
  /\ MayBeList(x) /\ RunsOn(x) /\ MayBeList(y) /\ RunsOn(y)
  /\ Len(ItemsOf(x)) + Len(ItemsOf(y)) <= MaxLen
  /\ Step(Grow(abs, Locs(abs.env[x]), Elements(abs, abs.env[y])), {},
          Normally(SetItems(store, store.env[x], ItemsOf(x) \o ItemsOf(y))))

\* x.clear()
ClearList(x) ==
  /\ "clear" \in uses.ops
  /\ MayBeList(x) /\ RunsOn(x)
  /\ Step(Clear(abs, Locs(abs.env[x])), {},
          Normally(SetItems(store, store.env[x], <<>>)))

\* x.pop()
Pop(x) ==
  /\ "pop" \in uses.ops
  /\ MayBeList(x) /\ RunsOn(x)
  /\ LET receiver == Locs(abs.env[x])
     IN  Step(PopNormal(abs, receiver), PopRaises(abs, receiver),
              IF ItemsOf(x) = <<>> THEN {<<store, "IndexError">>}
              ELSE Normally(SetItems(store, store.env[x], Front(ItemsOf(x)))))

FirstAt(items, k) ==
  {i \in 1..Len(items) : items[i] = k /\ \A j \in 1..(i - 1) : items[j] # k}

\* x.remove(k): the first element equal to the scalar k
RemoveValue(x, k) ==
  /\ "remove" \in uses.ops
  /\ MayBeList(x) /\ RunsOn(x)
  /\ LET first == FirstAt(ItemsOf(x), k)
     IN  Step(abs, {"ValueError"},
              IF first = {} THEN {<<store, "ValueError">>}
              ELSE {<<SetItems(store, store.env[x], RemoveAt(ItemsOf(x), i)), "normal">> : i \in first})

Mutated(x) ==
  {<<SetItems(store, store.env[x], items), "normal">> :
     items \in UNION {[1..n -> Scalars] : n \in 0..MaxLen}}

\* s.translate(x) and g.send(x): a builtin with no precise transfer is given x.  Of its
\* outcomes this is the normal one.
OpaqueMethod(x) ==
  /\ "opaque" \in uses.ops
  /\ MayBeList(x) /\ RunsOn(x)
  /\ Step(OpaqueEffect(abs, abs.env[x]), {}, Mutated(x))

\* u[0] = x with u of unknown type: its __setitem__ may do anything to x, or
\* not exist.
StoreInUnknown(x) ==
  /\ "unknown" \in uses.ops
  /\ MayBeList(x) /\ RunsOn(x)
  /\ Step(HavocReachable(abs, abs.env[x]), {"TypeError"},
          Mutated(x) \cup {<<store, "TypeError">>})

-----------------------------------------------------------------------------
(* if unknown: ... *)

EnterIf(taken) ==
  /\ "if" \in uses.ops
  /\ Live /\ arm = "none"
  /\ steps' = steps + 1
  /\ entry' = abs
  /\ arm' = IF taken THEN "taken" ELSE "skipped"
  /\ UNCHANGED <<uses, abs, store, outcome>>

LeaveIf ==
  /\ Contained /\ arm # "none"
  /\ abs' = Join(abs, entry)
  /\ entry' = NoState
  /\ arm' = "none"
  /\ UNCHANGED <<uses, store, outcome, steps>>

Init ==
  /\ uses \in Vocabularies
  /\ abs = EmptyState
  /\ entry = NoState
  /\ arm = "none"
  /\ store = EmptyStore
  /\ outcome = [did |-> "normal", may |-> {"normal"}]
  /\ steps = 0

Next ==
  \/ \E x \in Vars, k \in Scalars : AssignScalar(x, k)
  \/ \E x \in Vars, s \in DOMAIN uses.shape, k \in Scalars : Literal(x, s, k)
  \/ \E x, y \in Vars, s \in DOMAIN uses.shape : Wrap(x, s, y)
  \/ \E x, y \in Vars, s \in DOMAIN uses.shape : Copy(x, s, y)
  \/ \E x, y \in Vars : Alias(x, y)
  \/ \E x, y \in Vars, i \in 0..(MaxLen - 1) : Load(x, y, i)
  \/ \E x, y \in Vars, front \in BOOLEAN : AppendTo(x, y, front)
  \/ \E x, y \in Vars : Extend(x, y)
  \/ \E x \in Vars : ClearList(x)
  \/ \E x \in Vars : Pop(x)
  \/ \E x \in Vars, k \in Scalars : RemoveValue(x, k)
  \/ \E x \in Vars : OpaqueMethod(x)
  \/ \E x \in Vars : StoreInUnknown(x)
  \/ \E taken \in BOOLEAN : EnterIf(taken)
  \/ LeaveIf

Spec == Init /\ [][Next]_vars

-----------------------------------------------------------------------------
(* What the analysis promises. *)

\* Every component has its type: the cells of a state never leave the domain
\* (sizes counted by a literal, values over the locations of the program).
TypeOK ==
  /\ uses \in Vocabularies
  /\ abs \in AState
  /\ entry \in AState \cup {NoState}
  /\ arm \in {"none", "taken", "skipped"}
  /\ (arm = "none") <=> (entry = NoState)
  /\ outcome \in [did : Outcomes, may : SUBSET Outcomes]
  /\ steps \in 0..MaxSteps

\* The state that speaks for the store: the arm's, or the one it was entered with
\* when the program skipped the arm.
Speaks == IF arm = "skipped" THEN entry ELSE abs

\* A name is bound to nothing its abstract value does not list; a stale location
\* (an object folded into the summary while a name still said "recent") breaks it.
NamesCovered == NamesIn(Speaks, store)

\* Every element of every live list is in the element cell of the location that
\* denotes the list, whatever aliases it was stored through.
ElementsCovered == ElementsIn(Speaks, store)

\* The recorded size of a location admits the length of every list it denotes:
\* the count of a literal never survives an update through another alias.
LengthsCovered == LengthsIn(Speaks, store)

\* "The analyser may report an outcome that does not occur; it may not miss one
\* that does": the program's outcome is one of those the transfer modelled.
OutcomesContained == Contained

\* A list display or copy that may be evaluated again while its last object is an
\* element: the elements are computed before the fold renames that object.
Rebuilds == \E s \in DOMAIN uses.shape : uses.shape[s] # "literal"

\* ... and an index reads the elements that were lost: from there on no name, element,
\* size or outcome is the program's.
ReadsBack == Rebuilds /\ "load" \in uses.ops

\* Operations after which the recorded size is not a size the list may have.
Resizes == uses.ops \cap {"extend", "pop", "remove", "unknown"} # {}

\* NamesCovered, for the programs that do not read back.
NamesCoveredFixed == ReadsBack \/ NamesCovered

\* ElementsCovered, for the programs that do not rebuild.
ElementsCoveredOnce == Rebuilds \/ ElementsCovered

\* LengthsCovered, for the programs that neither resize nor read back.
LengthsCoveredFixed == Resizes \/ ReadsBack \/ LengthsCovered

\* OutcomesContained, for the programs that neither resize nor read back.
OutcomesContainedFixed == Resizes \/ ReadsBack \/ OutcomesContained
=============================================================================
