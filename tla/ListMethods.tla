---------------------------- MODULE ListMethods -----------------------------
(***************************************************************************)
(* What list literals, list methods and opaque calls do to the abstract    *)
(* state: the mutations and branch conditions of RuleLang/Plan.lean that   *)
(* the rules of Rules/Builtins.lean are made of.  A receiver is the set of *)
(* list locations a value may be.                                          *)
(***************************************************************************)
EXTENDS AbstractState

Elements(st, v) == UNION {st.elem[l] : l \in Locs(v)}

\* A list literal or a copy: the element values are read first, then the site's
\* recent block is folded and refilled with the values as they were read.
FreshList(st, x, s, elements, s0) ==
  LET st1 == Allocate(st, s)
  IN  EnvSet(SizeSet([st1 EXCEPT !.elem[Recent(s)] = elements], Recent(s), s0),
             x, {Recent(s)})

GrowCell(st, receiver, v) ==
  [st EXCEPT !.elem = [l \in Loc |-> IF l \in receiver THEN @[l] \cup v ELSE @[l]]]

Grow(st, receiver, v) ==
  UpdateCollectionEmptiness(GrowCell(st, receiver, v), receiver, "nonempty")

ClearCell(st, receiver) ==
  [st EXCEPT !.elem = [l \in Loc |->
     IF l \in receiver /\ StrongUpdateTarget(receiver, l) THEN {} ELSE @[l]]]

Clear(st, receiver) ==
  UpdateCollectionEmptiness(ClearCell(st, receiver), receiver, "empty")

DefinitelyEmpty(st, receiver) ==
  receiver # {} /\ \A l \in receiver : EmptinessGet(st, l) = "empty"
DefinitelyNonempty(st, receiver) ==
  receiver # {} /\ \A l \in receiver : EmptinessGet(st, l) = "nonempty"

PopNormal(st, receiver) == IF DefinitelyEmpty(st, receiver) THEN NoState ELSE st
PopRaises(st, receiver) ==
  IF DefinitelyNonempty(st, receiver) THEN {} ELSE {"IndexError"}

\* Mutation: off by one at the end of the list.
IndexAtMostCount(st, receiver, i) ==
  \E l \in receiver : /\ receiver = {l}
                      /\ SizeGet(st, l).kind = "exact"
                      /\ i <= SizeGet(st, l).count

\* A literal index i is in range of the only list the receiver may be.
IndexDefinitelyInRange(st, receiver, i) ==
  \E l \in receiver : /\ receiver = {l}
                      /\ SizeGet(st, l).kind = "exact"
                      /\ i < SizeGet(st, l).count

\* Locations an external callee can reach from v: the least set that holds those of v
\* and of every cell it holds.
ReachableLocs(st, v) ==
  LET Closed(S) == Locs(v) \subseteq S /\ \A l \in S : Locs(st.elem[l]) \subseteq S
  IN  {l \in Loc : \A S \in SUBSET Loc : Closed(S) => l \in S}

\* An opaque call may store anything in every cell it can reach.
HavocReachable(st, v) ==
  [st EXCEPT !.elem = [l \in Loc |->
     IF l \in ReachableLocs(st, v) /\ SizeGet(st, l) # Bottom
     THEN @[l] \cup Scalars ELSE @[l]]]
\* A method no rule models also loses the sizes.
OpaqueEffect(st, v) ==
  [HavocReachable(st, v) EXCEPT !.size = [l \in Loc |->
     IF l \in ReachableLocs(st, v) THEN Top ELSE @[l]]]
=============================================================================
