--------------------------- MODULE AbstractState ----------------------------
(***************************************************************************)
(* Pylate's abstract state (Pylate/Cells/State.lean, Engine/Update.lean):  *)
(* an environment, the element cell of every list location and the size of *)
(* every list location.                                                    *)
(*                                                                         *)
(* An abstract value is the set of things a name may denote: scalars, the  *)
(* marker Unbound, and locations.  The tags, literal bag and witness bit   *)
(* of AbsVal are folded into the scalars; a join of values is a union.     *)
(* A location is an allocation site and a recency bit.  A location whose   *)
(* size is Bottom is one the state does not mention.                       *)
(***************************************************************************)
EXTENDS CollectionSize, FiniteSets

CONSTANTS Vars,      \* the names of the program
          Scalars,   \* what stands for every value without identity
          Unbound,   \* the tag of a name no binding reaches
          Sites,     \* the allocation sites of list literals
          NoState    \* the "none" of Option AState

ASSUME UnboundAssumption == Unbound \notin Scalars

Loc        == Sites \X BOOLEAN
Recent(s)  == <<s, TRUE>>
Summary(s) == <<s, FALSE>>
IsRecent(l) == l[2]

AbsVal == SUBSET (Scalars \cup {Unbound} \cup Loc)
Locs(v) == v \cap Loc

AState == [env : [Vars -> AbsVal], elem : [Loc -> AbsVal], size : [Loc -> Size]]

\* No name bound, no list allocated.
EmptyState == [env  |-> [x \in Vars |-> {Unbound}],
               elem |-> [l \in Loc |-> {}],
               size |-> [l \in Loc |-> Bottom]]

-----------------------------------------------------------------------------
(* Environment and cells. *)

EnvSet(st, x, v) ==
  [env |-> [y \in Vars |-> IF y = x THEN v ELSE st.env[y]], elem |-> st.elem, size |-> st.size]
EnvKill(st, x)    == EnvSet(st, x, {Unbound})

\* An untracked location is unknown, not unreachable.
SizeGet(st, l)     == IF st.size[l] = Bottom THEN Top ELSE st.size[l]
SizeSet(st, l, s)  == [st EXCEPT !.size[l] = s]
EmptinessGet(st, l) == SizeEmptiness(SizeGet(st, l))

\* Mutation: one recent location among several is enough.
StrongAmongMany(v, l) == l \in v /\ IsRecent(l)

\* A write through v may overwrite location l: it can land nowhere else, and l
\* denotes one object.
StrongUpdateTarget(v, l) == v = {l} /\ IsRecent(l)

\* The emptiness postcondition of an operation on every list a receiver may be.
UpdateCollectionSize(st, receiver, s) ==
  [st EXCEPT !.size = [l \in Loc |->
     IF l \notin receiver THEN @[l]
     ELSE IF StrongUpdateTarget(receiver, l) THEN s
     ELSE SizeJoin(SizeGet(st, l), s)]]

UpdateCollectionEmptiness(st, receiver, e) ==
  UpdateCollectionSize(st, receiver, OfEmptiness(e))

-----------------------------------------------------------------------------
(* Join and order. *)

Join(a, b) ==
  [env  |-> [x \in Vars |-> a.env[x] \cup b.env[x]],
   elem |-> [l \in Loc |-> a.elem[l] \cup b.elem[l]],
   size |-> [l \in Loc |-> SizeJoin(a.size[l], b.size[l])]]

\* Values and element cells are compared as they are, sizes only through the
\* emptiness they imply.
Le(a, b) ==
  /\ \A x \in Vars : a.env[x] \subseteq b.env[x]
  /\ \A l \in Loc  : a.elem[l] \subseteq b.elem[l]
  /\ \A l \in Loc  : a.size[l] # Bottom => EmptinessLe(EmptinessGet(a, l), EmptinessGet(b, l))

JoinOpt(a, b) ==
  CASE a = NoState -> b
    [] b = NoState -> a
    [] OTHER       -> Join(a, b)

-----------------------------------------------------------------------------
(* Allocation.  The recent block of a site is folded into the summary of   *)
(* the site everywhere, then a fresh empty recent block takes its place.   *)

\* Mutation: the recent location is dropped, its summary not added.
RenameLocDrops(v, s) == v \ {Recent(s)}

RenameLoc(v, s) == IF Recent(s) \in v THEN (v \ {Recent(s)}) \cup {Summary(s)} ELSE v

\* Mutation: a colliding summary row is overwritten.
FoldRecentOverwrites(st, s) ==
  LET renamed == [l \in Loc |-> RenameLoc(st.elem[l], s)]
  IN  [env  |-> [x \in Vars |-> RenameLoc(st.env[x], s)],
       elem |-> [renamed EXCEPT ![Summary(s)] = renamed[Recent(s)], ![Recent(s)] = {}],
       size |-> [st.size EXCEPT ![Summary(s)] = SizeJoin(@, st.size[Recent(s)]),
                                ![Recent(s)]  = Bottom]]

FoldRecent(st, s) ==
  LET renamed == [l \in Loc |-> RenameLoc(st.elem[l], s)]
  IN  [env  |-> [x \in Vars |-> RenameLoc(st.env[x], s)],
       elem |-> [renamed EXCEPT ![Summary(s)] = @ \cup renamed[Recent(s)],
                                ![Recent(s)]  = {}],
       size |-> [st.size EXCEPT ![Summary(s)] = SizeJoin(@, st.size[Recent(s)]),
                                ![Recent(s)]  = Bottom]]

Allocate(st, s) == SizeSet(FoldRecent(st, s), Recent(s), Exact(0))
=============================================================================
