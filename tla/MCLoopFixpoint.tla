--------------------------- MODULE MCLoopFixpoint ---------------------------
(***************************************************************************)
(* One-list loops over Pylate's domain, as values for the parameters of    *)
(* LoopFixpoint: `while unknown: body` and `for v in xs: body`, where xs   *)
(* names the list of the only site and the body is a sequence of list      *)
(* operations on it.  The assumptions of the proofs hold of them: no `for` *)
(* body adds to the list it iterates, and sizes mean what AState.le        *)
(* compares.                                                               *)
(***************************************************************************)
EXTENDS LoopSoundness, Sequences, FiniteSets, SequencesExt

CONSTANTS xs, v, n, s, A, Unbound, None,
  MaxLen, MaxCount   \* bounds: elements of the list, and the exact count in use

D == INSTANCE PythonStore WITH Vars <- {xs, v}, Scalars <- {n, s}, Sites <- {A},
                               NoState <- None, MaxObjs <- 1
M == INSTANCE ListMethods WITH Vars <- {xs, v}, Scalars <- {n, s}, Sites <- {A},
                               NoState <- None

list == D!Recent(A)

Sizes == {D!Exact(0), D!Exact(MaxCount), D!Positive, D!Top}

StateOf(value, elements, size) ==
  [D!EmptyState EXCEPT !.env = [x \in {xs, v} |-> IF x = xs THEN {list} ELSE value],
                       !.elem[list] = elements, !.size[list] = size]

AbsStatesDef ==
  {StateOf(value, elements, size) :
     value \in SUBSET {n, s, Unbound}, elements \in SUBSET {n, s}, size \in Sizes}

\* v is unbound and xs is empty exactly when its cell is.
EntryStatesDef ==
  {StateOf({Unbound}, elements, size) :
     elements \in SUBSET {n, s} \ {{}}, size \in Sizes \ {D!Exact(0)}}
  \cup {StateOf({Unbound}, {}, D!Exact(0))}

StoreOf(value, items, i) ==
  [env |-> [x \in {xs, v} |-> IF x = xs THEN D!ObjVal(1) ELSE value],
   heap |-> <<[site |-> A, items |-> items]>>, next |-> i]

Items(c) == c.heap[1].items
ItemSeqs == UNION {[1..k -> {n, s}] : k \in 0..MaxLen}

StoresDef ==
  {StoreOf(value, items, i) : value \in {n, s, Unbound}, items \in ItemSeqs, i \in 0..MaxLen}

EntryStoresDef(p) == {StoreOf(Unbound, items, 0) : items \in ItemSeqs}

-----------------------------------------------------------------------------
(* One iteration. *)

Scalar(op) == IF op = "append n" THEN n ELSE s

Apply(op, a) ==
  CASE op \in {"append n", "append s"} -> M!Grow(a, {list}, {Scalar(op)})
    [] op = "clear" -> M!Clear(a, {list})
    [] op = "v = s" -> D!EnvSet(a, v, {s})
    [] OTHER        -> a

After(ops, a) == FoldLeft(LAMBDA acc, op : Apply(op, acc), a, ops)

\* "break" stands for `if unknown: break`: the state at it escapes, and goes on.
EscapesOf(ops, a) ==
  {After(SubSeq(ops, 1, i - 1), a) : i \in {j \in 1..Len(ops) : ops[j] = "break"}}

Enter(p, e, a) == IF p.kind = "for" THEN D!EnvSet(a, v, e) ELSE a

StepBackDef(p, e, a) == After(p.body, Enter(p, e, a))

StepEscapedDef(p, e, a) ==
  FoldSet(LAMBDA x, y : D!JoinOpt(x, y), None, EscapesOf(p.body, Enter(p, e, a)))

Runs(op, c) ==
  CASE op \in {"append n", "append s"} ->
         IF Len(Items(c)) < MaxLen
         THEN {[c EXCEPT !.heap[1].items = Append(@, Scalar(op))]} ELSE {}
    [] op = "clear" -> {[c EXCEPT !.heap[1].items = <<>>]}
    [] op = "v = s" -> {[c EXCEPT !.env[v] = s]}
    [] OTHER        -> {c}

Reaches(ops, cs) == FoldLeft(LAMBDA acc, op : UNION {Runs(op, c) : c \in acc}, cs, ops)

Take(p, c) ==
  IF p.kind = "while" THEN {c}
  ELSE IF c.next < Len(Items(c))
       THEN {[c EXCEPT !.env[v] = Items(c)[c.next + 1], !.next = @ + 1]} ELSE {}

NextStoresDef(p, c) == Reaches(p.body, Take(p, c))

EscapeStoresDef(p, c) ==
  UNION {Reaches(SubSeq(p.body, 1, i - 1), Take(p, c)) :
           i \in {j \in 1..Len(p.body) : p.body[j] = "break"}}

ExhaustedDef(p, c) == p.kind = "for" => c.next >= Len(Items(c))

IterationElementDef(p, a) == a.elem[list]
DefinitelyNonemptyDef(p, a) == D!EmptinessGet(a, list) = "nonempty"

YieldsDef(p, e, c) ==
  p.kind = "for" => \A i \in (c.next + 1)..Len(Items(c)) : Items(c)[i] \in e

-----------------------------------------------------------------------------
\* Covering, with sizes as the order of states sees them.
CoversAsOrdered(a, c) ==
  /\ c.env[v] \in a.env[v]
  /\ \A i \in 1..Len(Items(c)) : Items(c)[i] \in a.elem[list]
  /\ D!SizeCovers(D!OfEmptiness(D!EmptinessGet(a, list)), Len(Items(c)))

Bodies(ops) == UNION {[1..k -> ops] : k \in 1..2}
AllOps == {"append n", "clear", "v = s", "break"}

Whiles == {[kind |-> "while", body |-> b] : b \in Bodies(AllOps)}
Fors(ops) == {[kind |-> "for", body |-> b] : b \in Bodies(ops)}
ForsFixed == Fors({"clear", "v = s", "break"})
ProgramsDef == Whiles \cup ForsFixed
ElementsDef == SUBSET {n, s}
JoinDef(a, b) == D!Join(a, b)
LeDef(a, b)   == D!Le(a, b)
=============================================================================
