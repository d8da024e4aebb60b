------------------------ MODULE CollectionCells_proofs ------------------------
(***************************************************************************)
(* The domain of Pylate and the lists analysed with it.  The join covers   *)
(* what its arguments cover, the order is sound for what it compares, and  *)
(* allocation renames without losing a reference.  From these, whatever a  *)
(* straight-line list program does, the abstract state covers the CPython  *)
(* store, for all names, sites, lengths and vocabularies, except where the *)
(* module sets the programs aside that the code gets wrong.                *)
(***************************************************************************)
EXTENDS CollectionCells, SequenceTheorems, TLAPS

-----------------------------------------------------------------------------
(* Sizes. *)

\* A size is one of the four points.
LEMMA SizePoints ==
  ASSUME NEW s \in Size
  PROVE  s \in {Bottom, Positive, Top} \/ \E n \in Nat : s = Exact(n)
BY DEF Size, SizeKind, Bottom, Positive, Top, Exact

\* Size.join is closed on sizes.
LEMMA SizeJoinType ==
  ASSUME NEW a \in Size, NEW b \in Size
  PROVE  SizeJoin(a, b) \in Size
BY DEF SizeJoin, Size, SizeKind, Bottom, Positive, Top

\* No length either side allows is lost by Size.join: a count meets a different
\* count at "positive" or "top", never at one of the two.
LEMMA SizeJoinCovers ==
  ASSUME NEW a \in Size, NEW b \in Size, NEW len \in Nat,
         SizeCovers(a, len) \/ SizeCovers(b, len)
  PROVE  SizeCovers(SizeJoin(a, b), len)
<1>1. a.kind \in SizeKind /\ b.kind \in SizeKind /\ a.count \in Nat /\ b.count \in Nat
  BY DEF Size
<1>2. a \in {Bottom, Positive, Top} \/ a.kind = "exact"
  BY SizePoints DEF Exact
<1>3. b \in {Bottom, Positive, Top} \/ b.kind = "exact"
  BY SizePoints DEF Exact
<1> QED
  BY <1>1, <1>2, <1>3 DEF SizeJoin, SizeCovers, Bottom, Positive, Top, SizeKind

\* Size.emptiness is a homomorphism: tracking sizes loses no emptiness fact over
\* the domain it replaced.
LEMMA SizeEmptinessJoin ==
  ASSUME NEW a \in Size, NEW b \in Size
  PROVE  SizeEmptiness(SizeJoin(a, b)) = EmptinessJoin(SizeEmptiness(a), SizeEmptiness(b))
<1>1. a \in {Bottom, Positive, Top} \/ \E n \in Nat : a = Exact(n)
  BY SizePoints
<1>2. b \in {Bottom, Positive, Top} \/ \E n \in Nat : b = Exact(n)
  BY SizePoints
<1> QED
  BY <1>1, <1>2 DEF SizeJoin, SizeEmptiness, EmptinessJoin, Bottom, Positive, Top, Exact

\* Size.le is sound: what the smaller size allows the larger allows.
LEMMA SizeLeCovers ==
  ASSUME NEW a \in Size, NEW b \in Size, NEW len \in Nat,
         SizeLe(a, b), SizeCovers(a, len)
  PROVE  SizeCovers(b, len)
BY DEF SizeLe, SizeCovers, Size, SizeKind, Bottom, Positive, Top

\* Emptiness.le is sound for the lengths a size allows through its emptiness.
LEMMA EmptinessLeCovers ==
  ASSUME NEW a \in Size, NEW b \in Size, NEW len \in Nat,
         EmptinessLe(SizeEmptiness(a), SizeEmptiness(b)),
         SizeCovers(OfEmptiness(SizeEmptiness(a)), len)
  PROVE  SizeCovers(OfEmptiness(SizeEmptiness(b)), len)
<1>1. a \in {Bottom, Positive, Top} \/ \E n \in Nat : a = Exact(n)
  BY SizePoints
<1>2. b \in {Bottom, Positive, Top} \/ \E n \in Nat : b = Exact(n)
  BY SizePoints
<1> QED
  BY <1>1, <1>2 DEF EmptinessLe, SizeEmptiness, OfEmptiness, SizeCovers,
                    Bottom, Positive, Top, Exact

-----------------------------------------------------------------------------
(* Stores. *)

\* A concrete store: objects with a site and a sequence of elements.
Obj   == [site : Sites, items : Seq(Values \cup Objs)]
Store == [env : [Vars -> Values \cup Objs], heap : Seq(Obj)]

\* What the heap holds at one index.
LEMMA Objects ==
  ASSUME NEW c \in Store, NEW o \in 1..Len(c.heap)
  PROVE  /\ c.heap[o] \in Obj /\ c.heap[o].site \in Sites
         /\ c.heap[o].items \in Seq(Values \cup Objs)
         /\ Len(c.heap[o].items) \in Nat
         /\ \A i \in 1..Len(c.heap[o].items) : c.heap[o].items[i] \in Values \cup Objs
<1>1. c.heap \in Seq(Obj)
  BY DEF Store
<1>2. c.heap[o] \in Obj
  BY <1>1
<1>3. c.heap[o].items \in Seq(Values \cup Objs) /\ c.heap[o].site \in Sites
  BY <1>2 DEF Obj
<1> QED  BY <1>2, <1>3

\* The heap is a sequence.
LEMMA HeapLength ==
  ASSUME NEW c \in Store
  PROVE  Len(c.heap) \in Nat /\ DOMAIN c.heap = 1..Len(c.heap)
BY DEF Store

\* An object of a program site is denoted by a location of the site.
LEMMA LocOfType ==
  ASSUME NEW c \in Store, NEW o \in 1..Len(c.heap)
  PROVE  LocOf(c, o) \in Loc
<1> DEFINE latest == \A p \in 1..Len(c.heap) : p > o => c.heap[p].site # c.heap[o].site
<1>1. c.heap[o].site \in Sites
  BY Objects
<1>2. latest \in BOOLEAN
  BY Zenon
<1> HIDE DEF latest
<1>3. <<c.heap[o].site, latest>> \in Sites \X BOOLEAN
  BY <1>1, <1>2
<1> USE DEF latest
<1> QED  BY <1>3, Zenon DEF LocOf, Loc

\* ... and that site is the object's.
LEMMA LocOfSite ==
  ASSUME NEW c, NEW o
  PROVE  LocOf(c, o)[1] = c.heap[o].site
BY DEF LocOf

\* A recent location denotes one object.
LEMMA RecentAlone ==
  ASSUME NEW c \in Store, NEW o \in 1..Len(c.heap), NEW p \in 1..Len(c.heap),
         LocOf(c, o) = LocOf(c, p), IsRecent(LocOf(c, o))
  PROVE  o = p
<1> DEFINE last(q) == \A r \in 1..Len(c.heap) : r > q => c.heap[r].site # c.heap[q].site
<1>1. LocOf(c, o) = <<c.heap[o].site, last(o)>> /\ LocOf(c, p) = <<c.heap[p].site, last(p)>>
  BY DEF LocOf
<1>2. c.heap[o].site = c.heap[p].site
  BY LocOfSite
<1>3. ASSUME NEW q \in 1..Len(c.heap), ~last(q), LocOf(c, q) = <<c.heap[q].site, last(q)>>
      PROVE  ~IsRecent(LocOf(c, q))
  <2>1. LocOf(c, q) = <<c.heap[q].site, FALSE>>
    BY <1>3
  <2> QED  BY <2>1 DEF IsRecent
<1>4. ~(p > o)
  <2> SUFFICES ASSUME p > o PROVE FALSE
    OBVIOUS
  <2>1. ~last(o)
    BY <1>2
  <2> QED  BY <1>1, <1>3, <2>1
<1>5. ~(o > p)
  <2> SUFFICES ASSUME o > p PROVE FALSE
    OBVIOUS
  <2>1. ~last(p)
    BY <1>2
  <2> QED  BY <1>1, <1>3, <2>1
<1> QED  BY <1>4, <1>5, HeapLength

-----------------------------------------------------------------------------
(* Join and order. *)

\* AState.join is closed on states.
LEMMA JoinType ==
  ASSUME NEW a \in AState, NEW b \in AState
  PROVE  Join(a, b) \in AState
BY SizeJoinType DEF Join, AState, AbsVal

\* What a joined state holds, cell by cell.
LEMMA JoinCells ==
  ASSUME NEW a, NEW b
  PROVE  /\ \A x \in Vars : Join(a, b).env[x] = a.env[x] \cup b.env[x]
         /\ \A l \in Loc : Join(a, b).elem[l] = a.elem[l] \cup b.elem[l]
         /\ \A l \in Loc : Join(a, b).size[l] = SizeJoin(a.size[l], b.size[l])
BY DEF Join

\* A list with elements has some in its cell, whichever they are.
KnownIn(a, c) ==
  \A o \in 1..Len(c.heap) : c.heap[o].items # <<>> => a.elem[LocOf(c, o)] # {}

\* Names, elements, their presence and lengths survive a join on either side.
LEMMA JoinNames ==
  ASSUME NEW a, NEW b, NEW c, NamesIn(a, c) \/ NamesIn(b, c)
  PROVE  NamesIn(Join(a, b), c)
BY JoinCells DEF NamesIn

\* Elements: each list's are in the joined cell of its location.
LEMMA JoinElements ==
  ASSUME NEW a, NEW b, NEW c \in Store, ElementsIn(a, c) \/ ElementsIn(b, c)
  PROVE  ElementsIn(Join(a, b), c)
BY JoinCells, LocOfType DEF ElementsIn

\* Presence: a cell that held something holds it after the join.
LEMMA JoinKnown ==
  ASSUME NEW a, NEW b, NEW c \in Store, KnownIn(a, c) \/ KnownIn(b, c)
  PROVE  KnownIn(Join(a, b), c)
BY JoinCells, LocOfType DEF KnownIn

\* Lengths: by SizeJoinCovers at every location.
LEMMA JoinLengths ==
  ASSUME NEW a \in AState, NEW b \in AState, NEW c \in Store, LengthsIn(a, c) \/ LengthsIn(b, c)
  PROVE  LengthsIn(Join(a, b), c)
<1> SUFFICES ASSUME NEW o \in 1..Len(c.heap)
             PROVE  SizeCovers(Join(a, b).size[LocOf(c, o)], Len(c.heap[o].items))
  BY DEF LengthsIn
<1> DEFINE l == LocOf(c, o)
<1>1. l \in Loc /\ Len(c.heap[o].items) \in Nat
  BY LocOfType, Objects
<1>2. a.size[l] \in Size /\ b.size[l] \in Size
  BY <1>1 DEF AState
<1>3. SizeCovers(a.size[l], Len(c.heap[o].items)) \/ SizeCovers(b.size[l], Len(c.heap[o].items))
  BY DEF LengthsIn
<1>4. SizeCovers(SizeJoin(a.size[l], b.size[l]), Len(c.heap[o].items))
  BY <1>1, <1>2, <1>3, SizeJoinCovers
<1> QED  BY <1>1, <1>4, JoinCells

\* AState.join covers every store one of its arguments covers: no name, element
\* or length is lost where control paths meet.
THEOREM JoinCovers ==
  ASSUME NEW a \in AState, NEW b \in AState, NEW c \in Store, Covers(a, c) \/ Covers(b, c)
  PROVE  Covers(Join(a, b), c)
<1>1. Join(a, b) # NoState
  BY JoinType, TagsAssumption
<1>2. NamesIn(Join(a, b), c)
  BY JoinNames DEF Covers
<1>3. ElementsIn(Join(a, b), c)
  BY JoinElements DEF Covers
<1>4. LengthsIn(Join(a, b), c)
  BY JoinLengths DEF Covers
<1> QED  BY <1>1, <1>2, <1>3, <1>4 DEF Covers

\* What AState.le compares.
CoversAsOrdered(a, c) ==
  /\ NamesIn(a, c) /\ ElementsIn(a, c)
  /\ \A o \in 1..Len(c.heap) :
       /\ a.size[LocOf(c, o)] # Bottom
       /\ SizeCovers(OfEmptiness(EmptinessGet(a, LocOf(c, o))), Len(c.heap[o].items))

\* AState.le is sound up to emptiness: a store below the smaller state in names,
\* elements and emptiness is below the larger one in the same.
THEOREM LeCovers ==
  ASSUME NEW a \in AState, NEW b \in AState, NEW c \in Store,
         \A l \in Loc : a.size[l] # Bottom => b.size[l] # Bottom,
         Le(a, b), CoversAsOrdered(a, c)
  PROVE  CoversAsOrdered(b, c)
<1>1. NamesIn(b, c)
  BY DEF CoversAsOrdered, Le, NamesIn
<1>2. ElementsIn(b, c)
  BY LocOfType DEF CoversAsOrdered, Le, ElementsIn
<1>3. ASSUME NEW o \in 1..Len(c.heap)
      PROVE  /\ b.size[LocOf(c, o)] # Bottom
             /\ SizeCovers(OfEmptiness(EmptinessGet(b, LocOf(c, o))),
                           Len(c.heap[o].items))
  <2> DEFINE l == LocOf(c, o)
             len == Len(c.heap[o].items)
  <2>1. l \in Loc /\ len \in Nat
    BY LocOfType, Objects
  <2>3. SizeGet(a, l) \in Size /\ SizeGet(b, l) \in Size
    BY <2>1 DEF AState, SizeGet, Size, Top, SizeKind
  <2>4. a.size[l] # Bottom /\ SizeCovers(OfEmptiness(SizeEmptiness(SizeGet(a, l))), len)
    BY DEF CoversAsOrdered, EmptinessGet
  <2>5. EmptinessLe(SizeEmptiness(SizeGet(a, l)), SizeEmptiness(SizeGet(b, l)))
    BY <2>1, <2>4 DEF Le, EmptinessGet
  <2>6. SizeCovers(OfEmptiness(SizeEmptiness(SizeGet(b, l))), len)
    BY <2>1, <2>3, <2>4, <2>5, EmptinessLeCovers
  <2> QED  BY <2>1, <2>4, <2>6 DEF EmptinessGet
<1> QED  BY <1>1, <1>2, <1>3 DEF CoversAsOrdered

-----------------------------------------------------------------------------
(* Allocation. *)

\* A reference is to an object of the heap.
Refers(c, v) == IsList(v) => v[2] \in 1..Len(c.heap)

WellFormed(c) ==
  /\ \A x \in Vars : Refers(c, c.env[x])
  /\ \A o \in 1..Len(c.heap) : \A i \in 1..Len(c.heap[o].items) : Refers(c, c.heap[o].items[i])

\* The store after the program makes a list at site s.
Allocated(c, s, items) ==
  [env |-> c.env, heap |-> Append(c.heap, [site |-> s, items |-> items])]

\* The heap grows at its end.
LEMMA HeapAfter ==
  ASSUME NEW c \in Store, NEW s \in Sites, NEW items
  PROVE  /\ Len(c.heap) \in Nat
         /\ Len(Allocated(c, s, items).heap) = Len(c.heap) + 1
         /\ \A p \in 1..Len(c.heap) : Allocated(c, s, items).heap[p] = c.heap[p]
         /\ Allocated(c, s, items).heap[Len(c.heap) + 1].site = s
         /\ Allocated(c, s, items).heap[Len(c.heap) + 1].items = items
<1> DEFINE obj == [site |-> s, items |-> items]
           T   == Obj \cup {obj}
<1>1. c.heap \in Seq(T) /\ obj \in T
  BY DEF Store
<1> HIDE DEF obj, T
<1>2. /\ Len(c.heap) \in Nat /\ Len(Append(c.heap, obj)) = Len(c.heap) + 1
      /\ \A p \in 1..Len(c.heap) : Append(c.heap, obj)[p] = c.heap[p]
      /\ Append(c.heap, obj)[Len(c.heap) + 1] = obj
  BY <1>1
<1> QED  BY <1>2 DEF Allocated, obj

\* The new object is the recent one of its site.
LEMMA LocOfNew ==
  ASSUME NEW c \in Store, NEW s \in Sites, NEW items
  PROVE  LocOf(Allocated(c, s, items), Len(c.heap) + 1) = Recent(s)
<1> DEFINE n == Len(c.heap) + 1
           d == Allocated(c, s, items)
<1>0. /\ Len(c.heap) \in Nat
      /\ Len(d.heap) = Len(c.heap) + 1
      /\ d.heap[Len(c.heap) + 1].site = s
  BY HeapAfter
<1>1. \A p \in 1..Len(d.heap) : p > n => d.heap[p].site # d.heap[n].site
  BY <1>0
<1>2. d.heap[n].site = s
  BY <1>0
<1> QED  BY <1>1, <1>2 DEF LocOf, Recent

\* An older object of the site is in the summary; the others stay where they were.
LEMMA LocOfOld ==
  ASSUME NEW c \in Store, NEW s \in Sites, NEW items, NEW o \in 1..Len(c.heap)
  PROVE  /\ c.heap[o].site = s => /\ LocOf(Allocated(c, s, items), o) = Summary(s)
                                  /\ LocOf(c, o) \in {Recent(s), Summary(s)}
         /\ c.heap[o].site # s => /\ LocOf(Allocated(c, s, items), o) = LocOf(c, o)
                                  /\ LocOf(c, o) \notin {Recent(s), Summary(s)}
<1> DEFINE d == Allocated(c, s, items)
           lastIn(h) == \A p \in 1..Len(h) : p > o => h[p].site # h[o].site
<1>0. /\ Len(c.heap) \in Nat
      /\ Len(d.heap) = Len(c.heap) + 1
      /\ \A p \in 1..Len(c.heap) : d.heap[p] = c.heap[p]
      /\ d.heap[Len(c.heap) + 1].site = s
  BY HeapAfter
<1> HIDE DEF d
<1>1. LocOf(c, o) = <<c.heap[o].site, lastIn(c.heap)>> /\ LocOf(d, o) = <<d.heap[o].site, lastIn(d.heap)>>
  BY DEF LocOf
<1>2. d.heap[o].site = c.heap[o].site
  BY <1>0
<1>3. ASSUME c.heap[o].site = s
      PROVE  LocOf(d, o) = Summary(s) /\ LocOf(c, o) \in {Recent(s), Summary(s)}
  <2>1. ~lastIn(d.heap)
    <3>1. Len(c.heap) + 1 \in 1..Len(d.heap) /\ Len(c.heap) + 1 > o
      BY <1>0
    <3>2. d.heap[Len(c.heap) + 1].site = d.heap[o].site
      BY <1>2, <1>3, <1>0
    <3> QED  BY <3>1, <3>2
  <2>2. LocOf(d, o) = <<s, FALSE>>
    BY <1>1, <1>2, <1>3, <2>1
  <2>3. lastIn(c.heap) \in BOOLEAN
    BY Zenon
  <2>4. LocOf(c, o) \in {<<s, TRUE>>, <<s, FALSE>>}
    BY <1>1, <1>3, <2>3
  <2> QED  BY <1>3, <2>2, <2>4 DEF Recent, Summary
<1>4. ASSUME c.heap[o].site # s
      PROVE  LocOf(d, o) = LocOf(c, o) /\ LocOf(c, o) \notin {Recent(s), Summary(s)}
  <2>1. lastIn(d.heap) <=> lastIn(c.heap)
    BY <1>2, <1>4, <1>0
  <2>2. LocOf(d, o) = LocOf(c, o)
    BY <1>1, <1>2, <2>1
  <2>3. LocOf(c, o)[1] # s
    BY <1>4, LocOfSite
  <2>4. Recent(s)[1] = s /\ Summary(s)[1] = s
    BY DEF Recent, Summary
  <2>5. LocOf(c, o) # Recent(s) /\ LocOf(c, o) # Summary(s)
    BY <2>3, <2>4
  <2> QED  BY <2>2, <2>5
<1> QED  BY <1>3, <1>4 DEF d

\* A value is still denoted after the fold has renamed what may denote it: the
\* reference a name or a cell holds does not move to the new object.
LEMMA RenameLocCovers ==
  ASSUME NEW c \in Store, NEW s \in Sites, NEW items,
         NEW v \in Values \cup Objs, Refers(c, v), NEW av, AbsOf(c, v) \in av
  PROVE  AbsOf(Allocated(c, s, items), v) \in RenameLoc(av, s)
<1> DEFINE d == Allocated(c, s, items)
<1>1. CASE IsList(v)
  <2>1. AbsOf(c, v) = LocOf(c, v[2]) /\ AbsOf(d, v) = LocOf(d, v[2])
    BY <1>1 DEF AbsOf
  <2>2. v[2] \in 1..Len(c.heap)
    BY <1>1 DEF Refers
  <2>3. CASE c.heap[v[2]].site = s
    <3>1. LocOf(d, v[2]) = Summary(s) /\ LocOf(c, v[2]) \in {Recent(s), Summary(s)}
      BY <2>2, <2>3, LocOfOld
    <3>2. Summary(s) # Recent(s)
      BY DEF Summary, Recent
    <3> QED  BY <2>1, <3>1, <3>2 DEF RenameLoc
  <2>4. CASE c.heap[v[2]].site # s
    <3>1. LocOf(d, v[2]) = LocOf(c, v[2]) /\ LocOf(c, v[2]) # Recent(s)
      BY <2>2, <2>4, LocOfOld
    <3> QED  BY <2>1, <3>1 DEF RenameLoc
  <2> QED  BY <2>3, <2>4
<1>2. CASE ~IsList(v)
  <2>1. AbsOf(c, v) = v /\ AbsOf(d, v) = v
    BY <1>2 DEF AbsOf
  <2>2. v \in Values
    BY <1>2 DEF IsList
  <2>3. Recent(s) \in Loc
    BY DEF Recent, Loc
  <2>4. v # Recent(s)
    BY <2>2, <2>3, TagsAssumption
  <2> QED  BY <2>1, <2>4 DEF RenameLoc
<1> QED  BY <1>1, <1>2

\* What a fold at site s makes of the cells of a, the new object's own aside.
Folded(a, b, s) ==
  /\ b.elem[Summary(s)] = RenameLoc(a.elem[Summary(s)], s) \cup RenameLoc(a.elem[Recent(s)], s)
  /\ b.size[Summary(s)] = SizeJoin(a.size[Summary(s)], a.size[Recent(s)])
  /\ \A l \in Loc \ {Recent(s), Summary(s)} :
       b.elem[l] = RenameLoc(a.elem[l], s) /\ b.size[l] = a.size[l]

\* Both halves of a site are locations, and different ones.
LEMMA Halves ==
  ASSUME NEW s \in Sites
  PROVE  Recent(s) \in Loc /\ Summary(s) \in Loc /\ Recent(s) # Summary(s)
BY DEF Recent, Summary, Loc

\* allocate folds, and the new object is empty.
LEMMA AllocateCells ==
  ASSUME NEW a \in AState, NEW s \in Sites
  PROVE  /\ Folded(a, Allocate(a, s), s)
         /\ \A x \in Vars : Allocate(a, s).env[x] = RenameLoc(a.env[x], s)
         /\ Allocate(a, s).elem[Recent(s)] = {}
         /\ Allocate(a, s).size[Recent(s)] = Exact(0)
<1>1. DOMAIN a.size = Loc
  BY DEF AState
<1> QED  BY <1>1, Halves DEF Folded, Allocate, FoldRecent, SizeSet

\* A display folds, and the new object has the elements and the size it is given.
LEMMA FreshCells ==
  ASSUME NEW a \in AState, NEW s \in Sites, NEW x \in Vars, NEW elements, NEW s0
  PROVE  /\ Folded(a, FreshList(a, x, s, elements, s0), s)
         /\ FreshList(a, x, s, elements, s0).elem[Recent(s)] = elements
         /\ FreshList(a, x, s, elements, s0).size[Recent(s)] = s0
<1>1. DOMAIN a.size = Loc
  BY DEF AState
<1> QED  BY <1>1, Halves DEF Folded, FreshList, Allocate, FoldRecent, SizeSet, EnvSet

\* A list of the heap is where the fold has put it, with what it had.
LEMMA FoldedCell ==
  ASSUME NEW a \in AState, NEW b, NEW s \in Sites, Folded(a, b, s),
         NEW c \in Store, NEW items, NEW o \in 1..Len(c.heap)
  PROVE  LET l == LocOf(c, o)
             k == LocOf(Allocated(c, s, items), o)
         IN  /\ RenameLoc(a.elem[l], s) \subseteq b.elem[k]
             /\ \A n \in Nat : SizeCovers(a.size[l], n) => SizeCovers(b.size[k], n)
<1> DEFINE l == LocOf(c, o)
           k == LocOf(Allocated(c, s, items), o)
<1>1. l \in Loc
  BY LocOfType
<1>2. CASE c.heap[o].site = s
  <2>1. k = Summary(s) /\ l \in {Recent(s), Summary(s)}
    BY <1>2, LocOfOld
  <2>2. a.size[Recent(s)] \in Size /\ a.size[Summary(s)] \in Size
    BY Halves DEF AState
  <2>3. \A n \in Nat : SizeCovers(a.size[l], n) =>
                         SizeCovers(SizeJoin(a.size[Summary(s)], a.size[Recent(s)]), n)
    BY <2>1, <2>2, SizeJoinCovers
  <2> QED  BY <2>1, <2>3 DEF Folded
<1>3. CASE c.heap[o].site # s
  <2>1. k = l /\ l \notin {Recent(s), Summary(s)}
    BY <1>3, LocOfOld
  <2> QED  BY <1>1, <2>1 DEF Folded
<1> QED  BY <1>2, <1>3

\* The new list has the last number.
LEMMA OldOrNew ==
  ASSUME NEW c \in Store, NEW s \in Sites, NEW items, NEW o \in 1..Len(Allocated(c, s, items).heap)
  PROVE  \/ /\ o \in 1..Len(c.heap)
            /\ Allocated(c, s, items).heap[o] = c.heap[o]
         \/ /\ o = Len(c.heap) + 1
            /\ Allocated(c, s, items).heap[o].items = items
            /\ LocOf(Allocated(c, s, items), o) = Recent(s)
<1> DEFINE d == Allocated(c, s, items)
<1>1. /\ Len(c.heap) \in Nat /\ Len(d.heap) = Len(c.heap) + 1
      /\ \A p \in 1..Len(c.heap) : d.heap[p] = c.heap[p]
      /\ d.heap[Len(c.heap) + 1].items = items
      /\ LocOf(d, Len(c.heap) + 1) = Recent(s)
  BY HeapAfter, LocOfNew
<1> HIDE DEF d
<1>2. o \in 1..Len(d.heap)
  BY DEF d
<1>3. \/ o \in 1..Len(c.heap) /\ d.heap[o] = c.heap[o]
      \/ o = Len(c.heap) + 1 /\ d.heap[o].items = items /\ LocOf(d, o) = Recent(s)
  BY <1>1, <1>2
<1> QED  BY <1>3 DEF d

\* Elements, their presence and lengths after a list was made, when the new list's are
\* those its location is given.
LEMMA FoldElements ==
  ASSUME NEW a \in AState, NEW b, NEW s \in Sites, Folded(a, b, s),
         NEW c \in Store, WellFormed(c), NEW items, ElementsIn(a, c),
         \A i \in 1..Len(items) : AbsOf(Allocated(c, s, items), items[i]) \in b.elem[Recent(s)]
  PROVE  ElementsIn(b, Allocated(c, s, items))
<1> DEFINE d == Allocated(c, s, items)
<1> SUFFICES ASSUME NEW o \in 1..Len(d.heap), NEW i \in 1..Len(d.heap[o].items)
             PROVE  AbsOf(d, d.heap[o].items[i]) \in b.elem[LocOf(d, o)]
  BY DEF ElementsIn
<1>1. CASE o \in 1..Len(c.heap) /\ d.heap[o] = c.heap[o]
  <2>1. AbsOf(c, c.heap[o].items[i]) \in a.elem[LocOf(c, o)] /\ Refers(c, c.heap[o].items[i])
    BY <1>1 DEF ElementsIn, WellFormed
  <2>2. c.heap[o].items[i] \in Values \cup Objs
    BY <1>1, Objects
  <2>3. AbsOf(d, c.heap[o].items[i]) \in RenameLoc(a.elem[LocOf(c, o)], s)
    BY <2>1, <2>2, RenameLocCovers
  <2> QED  BY <1>1, <2>3, FoldedCell
<1>2. CASE d.heap[o].items = items /\ LocOf(d, o) = Recent(s)
  BY <1>2
<1> QED  BY <1>1, <1>2, OldOrNew

\* Presence: a renamed cell is empty only if it was.
LEMMA FoldKnown ==
  ASSUME NEW a \in AState, NEW b, NEW s \in Sites, Folded(a, b, s),
         NEW c \in Store, NEW items, KnownIn(a, c), items # <<>> => b.elem[Recent(s)] # {}
  PROVE  KnownIn(b, Allocated(c, s, items))
<1> DEFINE d == Allocated(c, s, items)
<1> SUFFICES ASSUME NEW o \in 1..Len(d.heap), d.heap[o].items # <<>>
             PROVE  b.elem[LocOf(d, o)] # {}
  BY DEF KnownIn
<1>1. CASE o \in 1..Len(c.heap) /\ d.heap[o] = c.heap[o]
  <2>1. a.elem[LocOf(c, o)] # {}
    BY <1>1 DEF KnownIn
  <2>2. RenameLoc(a.elem[LocOf(c, o)], s) # {}
    BY <2>1 DEF RenameLoc
  <2> QED  BY <1>1, <2>2, FoldedCell
<1>2. CASE d.heap[o].items = items /\ LocOf(d, o) = Recent(s)
  BY <1>2
<1> QED  BY <1>1, <1>2, OldOrNew

\* Lengths: the summary's size is joined with the recent one's.
LEMMA FoldLengths ==
  ASSUME NEW a \in AState, NEW b, NEW s \in Sites, Folded(a, b, s),
         NEW c \in Store, NEW items, LengthsIn(a, c), SizeCovers(b.size[Recent(s)], Len(items))
  PROVE  LengthsIn(b, Allocated(c, s, items))
<1> DEFINE d == Allocated(c, s, items)
<1> SUFFICES ASSUME NEW o \in 1..Len(d.heap)
             PROVE  SizeCovers(b.size[LocOf(d, o)], Len(d.heap[o].items))
  BY DEF LengthsIn
<1>1. CASE o \in 1..Len(c.heap) /\ d.heap[o] = c.heap[o]
  <2>1. SizeCovers(a.size[LocOf(c, o)], Len(c.heap[o].items)) /\ Len(c.heap[o].items) \in Nat
    BY <1>1, Objects DEF LengthsIn
  <2> QED  BY <1>1, <2>1, FoldedCell
<1>2. CASE d.heap[o].items = items /\ LocOf(d, o) = Recent(s)
  BY <1>2
<1> QED  BY <1>1, <1>2, OldOrNew

\* Allocation is sound: when the program makes an empty list at a site the state
\* has seen before, folding the recent object into the summary keeps every name,
\* element and length covered, and the new object is empty (foldRecent, "rename
\* the recent block everywhere").
THEOREM AllocateCovers ==
  ASSUME NEW a \in AState, NEW s \in Sites, NEW c \in Store, WellFormed(c),
         Covers(a, c), Allocate(a, s) # NoState
  PROVE  Covers(Allocate(a, s), Allocated(c, s, <<>>))
<1> DEFINE b == Allocate(a, s)
           d == Allocated(c, s, <<>>)
<1>1. NamesIn(b, d)
  <2> SUFFICES ASSUME NEW x \in Vars PROVE AbsOf(d, d.env[x]) \in b.env[x]
    BY DEF NamesIn
  <2>1. c.env[x] \in Values \cup Objs /\ d.env = c.env
    BY DEF Store, Allocated
  <2>2. AbsOf(c, c.env[x]) \in a.env[x] /\ Refers(c, c.env[x])
    BY DEF Covers, NamesIn, WellFormed
  <2>3. AbsOf(d, c.env[x]) \in RenameLoc(a.env[x], s)
    BY <2>1, <2>2, RenameLocCovers
  <2> QED  BY <2>1, <2>3, AllocateCells
<1>2. ElementsIn(b, d)
  BY AllocateCells, FoldElements DEF Covers
<1>3. LengthsIn(b, d)
  <2>1. SizeCovers(b.size[Recent(s)], Len(<<>>))
    BY AllocateCells DEF SizeCovers, Exact
  <2> QED  BY <2>1, AllocateCells, FoldLengths DEF Covers
<1> QED  BY <1>1, <1>2, <1>3 DEF Covers

-----------------------------------------------------------------------------
(* Binding a name, making a list, changing a list. *)

\* Locations depend on the heap alone.
LEMMA SameHeap ==
  ASSUME NEW c, NEW d, d.heap = c.heap
  PROVE  /\ \A o : LocOf(d, o) = LocOf(c, o)
         /\ \A v : AbsOf(d, v) = AbsOf(c, v)
         /\ \A a : /\ ElementsIn(a, c) => ElementsIn(a, d)
                   /\ KnownIn(a, c) => KnownIn(a, d)
                   /\ LengthsIn(a, c) => LengthsIn(a, d)
<1>1. \A o : LocOf(d, o) = LocOf(c, o)
  BY DEF LocOf
<1>2. \A v : AbsOf(d, v) = AbsOf(c, v)
  BY <1>1 DEF AbsOf
<1> QED  BY <1>1, <1>2 DEF ElementsIn, KnownIn, LengthsIn

\* x = v, for a value of the store.
LEMMA BindStore ==
  ASSUME NEW c \in Store, WellFormed(c), NEW x \in Vars, NEW v \in Values \cup Objs, Refers(c, v)
  PROVE  /\ Bind(c, x, v) \in Store /\ WellFormed(Bind(c, x, v))
         /\ Bind(c, x, v).heap = c.heap
         /\ \A y \in Vars : Bind(c, x, v).env[y] = IF y = x THEN v ELSE c.env[y]
BY DEF Store, Bind, WellFormed, Refers

\* Binding a name to a value its new abstract value lists covers every name.
LEMMA BindNames ==
  ASSUME NEW a, NEW c \in Store, NEW x \in Vars, NEW v, NEW w, NamesIn(a, c), AbsOf(c, v) \in w
  PROVE  NamesIn(EnvSet(a, x, w), Bind(c, x, v))
<1> DEFINE d == Bind(c, x, v)
<1>1. d.heap = c.heap /\ \A y \in Vars : d.env[y] = IF y = x THEN v ELSE c.env[y]
  BY DEF Store, Bind
<1>2. \A y \in Vars : EnvSet(a, x, w).env[y] = IF y = x THEN w ELSE a.env[y]
  BY DEF EnvSet
<1>3. \A u : AbsOf(d, u) = AbsOf(c, u)
  BY <1>1, SameHeap
<1> HIDE DEF d
<1> SUFFICES NamesIn(EnvSet(a, x, w), d)
  BY DEF d
<1> QED  BY <1>1, <1>2, <1>3 DEF NamesIn

\* A list made: the store is one, and every cell is as after an allocation.
LEMMA NewListStore ==
  ASSUME NEW c \in Store, WellFormed(c), Len(c.heap) < MaxObjs, NEW x \in Vars, NEW s \in Sites,
         NEW items \in Seq(Values \cup Objs), \A i \in 1..Len(items) : Refers(c, items[i])
  PROVE  /\ NewList(c, x, s, items) \in Store /\ WellFormed(NewList(c, x, s, items))
         /\ Len(NewList(c, x, s, items).heap) <= MaxObjs
<1> DEFINE d == NewList(c, x, s, items)
           obj == [site |-> s, items |-> items]
           n == Len(c.heap) + 1
<1>1. n \in 1..MaxObjs /\ Len(c.heap) \in Nat
  BY HeapLength, BoundsAssumption
<1>2. /\ d.heap = Append(c.heap, obj) /\ d.env = [c.env EXCEPT ![x] = ObjVal(n)]
  BY DEF NewList
<1>3. ObjVal(n) \in Objs
  BY <1>1 DEF Objs
<1>4. d.env \in [Vars -> Values \cup Objs]
  BY <1>2, <1>3 DEF Store
<1>5. obj \in Obj /\ obj.items = items
  BY DEF Obj
<1>6. d.heap \in Seq(Obj) /\ Len(d.heap) = n
      /\ (\A p \in 1..Len(c.heap) : d.heap[p] = c.heap[p]) /\ d.heap[n] = obj
  <2> HIDE DEF obj, d
  <2> QED  BY <1>2, <1>5 DEF Store
<1>7. d \in Store
  BY <1>4, <1>6 DEF Store, NewList
<1>8. \A v : Refers(c, v) => Refers(d, v)
  BY <1>1, <1>6 DEF Refers
<1>9. ASSUME NEW y \in Vars PROVE Refers(d, d.env[y])
  <2>1. CASE y = x
    <3>1. d.env[y] = ObjVal(n)
      BY <2>1, <1>2 DEF Store
    <3> QED  BY <3>1, <1>1, <1>6 DEF Refers, ObjVal
  <2>2. CASE y # x
    <3>1. d.env[y] = c.env[y]
      BY <2>2, <1>2 DEF Store
    <3> QED  BY <3>1, <1>8 DEF WellFormed
  <2> QED  BY <2>1, <2>2
<1>10. ASSUME NEW o \in 1..Len(d.heap), NEW i \in 1..Len(d.heap[o].items)
       PROVE  Refers(d, d.heap[o].items[i])
  <2> HIDE DEF obj, d
  <2>1. CASE o \in 1..Len(c.heap)
    BY <2>1, <1>6, <1>8 DEF WellFormed
  <2>2. CASE o = n
    BY <2>2, <1>5, <1>6, <1>8
  <2> QED  BY <2>1, <2>2, <1>1, <1>6
<1> QED  BY <1>1, <1>6, <1>7, <1>9, <1>10 DEF WellFormed

\* A display covers the names it leaves and the one it binds.
LEMMA FreshNames ==
  ASSUME NEW a \in AState, NEW c \in Store, WellFormed(c), NamesIn(a, c), NEW x \in Vars, NEW s \in Sites,
         NEW items, NEW elements, NEW s0, Len(c.heap) < MaxObjs
  PROVE  NamesIn(FreshList(a, x, s, elements, s0), NewList(c, x, s, items))
<1> DEFINE d == NewList(c, x, s, items)
           e == Allocated(c, s, items)
           b == FreshList(a, x, s, elements, s0)
<1>1. d.heap = e.heap /\ d.env = [c.env EXCEPT ![x] = ObjVal(Len(c.heap) + 1)]
  BY DEF NewList, Allocated
<1>2. \A v : AbsOf(d, v) = AbsOf(e, v)
  BY <1>1, SameHeap
<1> SUFFICES ASSUME NEW y \in Vars PROVE AbsOf(d, d.env[y]) \in b.env[y]
  BY DEF NamesIn
<1>3. b.env[y] = IF y = x THEN {Recent(s)} ELSE RenameLoc(a.env[y], s)
  <2> HIDE DEF d, e
  <2> QED  BY DEF FreshList, Allocate, FoldRecent, SizeSet, EnvSet
<1>4. CASE y = x
  <2>1. d.env[y] = ObjVal(Len(c.heap) + 1)
    BY <1>1, <1>4 DEF Store
  <2>2. IsList(ObjVal(Len(c.heap) + 1)) /\ ObjVal(Len(c.heap) + 1)[2] = Len(c.heap) + 1
    BY HeapLength, BoundsAssumption DEF IsList, Objs, ObjVal
  <2>3. AbsOf(e, ObjVal(Len(c.heap) + 1)) = Recent(s)
    BY <2>2, LocOfNew DEF AbsOf
  <2> QED  BY <1>2, <1>3, <1>4, <2>1, <2>3
<1>5. CASE y # x
  <2>1. d.env[y] = c.env[y] /\ c.env[y] \in Values \cup Objs
    BY <1>1, <1>5 DEF Store
  <2>2. AbsOf(c, c.env[y]) \in a.env[y] /\ Refers(c, c.env[y])
    BY DEF NamesIn, WellFormed
  <2>3. AbsOf(e, c.env[y]) \in RenameLoc(a.env[y], s)
    BY <2>1, <2>2, RenameLocCovers
  <2> QED  BY <1>2, <1>3, <1>5, <2>1, <2>3
<1> QED  BY <1>4, <1>5

\* A list changed in place: the store is one, and no object moves.
LEMMA SetItemsStore ==
  ASSUME NEW c \in Store, WellFormed(c), NEW v \in Objs, Refers(c, v),
         NEW items \in Seq(Values \cup Objs), \A i \in 1..Len(items) : Refers(c, items[i])
  PROVE  LET d == SetItems(c, v, items) IN
         /\ d \in Store /\ WellFormed(d)
         /\ d.env = c.env /\ Len(d.heap) = Len(c.heap)
         /\ \A p \in 1..Len(c.heap) : /\ d.heap[p].items = IF p = v[2] THEN items ELSE c.heap[p].items
                                      /\ LocOf(d, p) = LocOf(c, p)
         /\ \A w : Refers(c, w) => AbsOf(d, w) = AbsOf(c, w)
<1> DEFINE d == SetItems(c, v, items)
           o == v[2]
<1>1. o \in 1..Len(c.heap)
  BY DEF Refers, IsList
<1>2. c.heap[o] \in Obj /\ c.heap \in Seq(Obj)
  BY <1>1, Objects DEF Store
<1>3. d.env = c.env /\ d.heap = [c.heap EXCEPT ![o] = [c.heap[o] EXCEPT !.items = items]]
  BY DEF SetItems, Store
<1> DEFINE obj == [c.heap[o] EXCEPT !.items = items]
<1>4. obj \in Obj /\ obj.items = items /\ obj.site = c.heap[o].site
  BY <1>2 DEF Obj
<1>5. /\ d.heap \in Seq(Obj) /\ Len(d.heap) = Len(c.heap)
      /\ \A p \in 1..Len(c.heap) : d.heap[p] = IF p = o THEN obj ELSE c.heap[p]
  <2> HIDE DEF obj, o, d
  <2>1. /\ [c.heap EXCEPT ![o] = obj] \in Seq(Obj) /\ Len([c.heap EXCEPT ![o] = obj]) = Len(c.heap)
        /\ \A p \in 1..Len(c.heap) : [c.heap EXCEPT ![o] = obj][p] = IF p = o THEN obj ELSE c.heap[p]
    BY <1>1, <1>2, <1>4, ExceptSeq
  <2>2. d.heap = [c.heap EXCEPT ![o] = obj]
    BY <1>3 DEF obj
  <2> QED  BY <2>1, <2>2
<1>6. d \in Store
  <2>1. d = [env |-> d.env, heap |-> d.heap]
    BY DEF SetItems, Store
  <2>2. d.env \in [Vars -> Values \cup Objs]
    BY <1>3 DEF Store
  <2> HIDE DEF d
  <2> QED  BY <1>5, <2>1, <2>2 DEF Store
<1> HIDE DEF d, obj, o
<1>7. \A p \in 1..Len(c.heap) : /\ d.heap[p].site = c.heap[p].site
                                /\ d.heap[p].items = IF p = o THEN items ELSE c.heap[p].items
  BY <1>4, <1>5
<1>8. ASSUME NEW p \in 1..Len(c.heap) PROVE LocOf(d, p) = LocOf(c, p)
  <2> DEFINE last(h) == \A q \in 1..Len(h) : q > p => h[q].site # h[p].site
  <2>1. last(d.heap) <=> last(c.heap)
    BY <1>5, <1>7
  <2>2. LocOf(c, p) = <<c.heap[p].site, last(c.heap)>> /\ LocOf(d, p) = <<d.heap[p].site, last(d.heap)>>
    BY DEF LocOf
  <2> QED  BY <1>7, <2>1, <2>2
<1>9. \A w : Refers(c, w) => AbsOf(d, w) = AbsOf(c, w)
  BY <1>8 DEF Refers, AbsOf
<1>10. \A w : Refers(c, w) => Refers(d, w)
  BY <1>5 DEF Refers
<1>11. WellFormed(d)
  BY <1>3, <1>5, <1>7, <1>10 DEF WellFormed
<1> QED  BY <1>3, <1>5, <1>6, <1>7, <1>8, <1>9, <1>11 DEF d, o

\* What the state says of a list changed in place, when it says no less of the others:
\* the names, the elements, their presence and the lengths.
LEMMA SetCovers ==
  ASSUME NEW c \in Store, WellFormed(c), NEW v \in Objs, Refers(c, v),
         NEW items \in Seq(Values \cup Objs), \A i \in 1..Len(items) : Refers(c, items[i]),
         NEW a, NEW b
  PROVE  LET d == SetItems(c, v, items)
             others == (1..Len(c.heap)) \ {v[2]}
         IN  /\ NamesIn(a, c) /\ b.env = a.env => NamesIn(b, d)
             /\ /\ ElementsIn(a, c)
                /\ \A p \in others : a.elem[LocOf(c, p)] \subseteq b.elem[LocOf(c, p)]
                /\ \A i \in 1..Len(items) : AbsOf(c, items[i]) \in b.elem[LocOf(c, v[2])]
                => ElementsIn(b, d)
             /\ /\ KnownIn(a, c)
                /\ \A p \in others : a.elem[LocOf(c, p)] \subseteq b.elem[LocOf(c, p)]
                /\ items # <<>> => b.elem[LocOf(c, v[2])] # {}
                => KnownIn(b, d)
             /\ /\ LengthsIn(a, c)
                /\ \A p \in others, n \in Nat :
                     SizeCovers(a.size[LocOf(c, p)], n) => SizeCovers(b.size[LocOf(c, p)], n)
                /\ SizeCovers(b.size[LocOf(c, v[2])], Len(items))
                => LengthsIn(b, d)
<1> DEFINE d == SetItems(c, v, items)
           others == (1..Len(c.heap)) \ {v[2]}
<1>1. /\ d.env = c.env /\ Len(d.heap) = Len(c.heap)
      /\ \A p \in 1..Len(c.heap) : /\ d.heap[p].items = IF p = v[2] THEN items ELSE c.heap[p].items
                                   /\ LocOf(d, p) = LocOf(c, p)
      /\ \A w : Refers(c, w) => AbsOf(d, w) = AbsOf(c, w)
  BY SetItemsStore
<1>2. /\ v[2] \in 1..Len(c.heap)
      /\ \A p \in 1..Len(c.heap) : Len(c.heap[p].items) \in Nat
  BY Objects DEF Refers, IsList
<1> HIDE DEF d
<1>3. NamesIn(a, c) /\ b.env = a.env => NamesIn(b, d)
  BY <1>1 DEF NamesIn, WellFormed
<1>4. ASSUME ElementsIn(a, c),
             \A p \in others : a.elem[LocOf(c, p)] \subseteq b.elem[LocOf(c, p)],
             \A i \in 1..Len(items) : AbsOf(c, items[i]) \in b.elem[LocOf(c, v[2])]
      PROVE  ElementsIn(b, d)
  <2> SUFFICES ASSUME NEW p \in 1..Len(d.heap), NEW i \in 1..Len(d.heap[p].items)
               PROVE  AbsOf(d, d.heap[p].items[i]) \in b.elem[LocOf(d, p)]
    BY DEF ElementsIn
  <2>1. CASE p = v[2]
    <3>1. d.heap[p].items = items /\ LocOf(d, p) = LocOf(c, v[2])
      BY <1>1, <1>2, <2>1
    <3>2. AbsOf(d, items[i]) = AbsOf(c, items[i])
      BY <1>1, <3>1
    <3> QED  BY <1>4, <3>1, <3>2
  <2>2. CASE p # v[2]
    <3>1. d.heap[p].items = c.heap[p].items /\ LocOf(d, p) = LocOf(c, p) /\ p \in others
      BY <1>1, <2>2
    <3>2. AbsOf(d, c.heap[p].items[i]) = AbsOf(c, c.heap[p].items[i])
      BY <1>1, <3>1 DEF WellFormed
    <3>3. AbsOf(c, c.heap[p].items[i]) \in a.elem[LocOf(c, p)]
      BY <1>4, <3>1 DEF ElementsIn
    <3> QED  BY <1>4, <3>1, <3>2, <3>3
  <2> QED  BY <2>1, <2>2
<1>5. ASSUME KnownIn(a, c),
             \A p \in others : a.elem[LocOf(c, p)] \subseteq b.elem[LocOf(c, p)],
             items # <<>> => b.elem[LocOf(c, v[2])] # {}
      PROVE  KnownIn(b, d)
  <2> SUFFICES ASSUME NEW p \in 1..Len(d.heap), d.heap[p].items # <<>>
               PROVE  b.elem[LocOf(d, p)] # {}
    BY DEF KnownIn
  <2>1. CASE p = v[2]
    BY <1>1, <1>2, <1>5, <2>1
  <2>2. CASE p # v[2]
    <3>1. d.heap[p].items = c.heap[p].items /\ LocOf(d, p) = LocOf(c, p) /\ p \in others
      BY <1>1, <2>2
    <3>2. a.elem[LocOf(c, p)] # {}
      BY <1>5, <3>1 DEF KnownIn
    <3> QED  BY <1>5, <3>1, <3>2
  <2> QED  BY <2>1, <2>2
<1>6. ASSUME LengthsIn(a, c),
             \A p \in others, n \in Nat :
               SizeCovers(a.size[LocOf(c, p)], n) => SizeCovers(b.size[LocOf(c, p)], n),
             SizeCovers(b.size[LocOf(c, v[2])], Len(items))
      PROVE  LengthsIn(b, d)
  <2> SUFFICES ASSUME NEW p \in 1..Len(d.heap)
               PROVE  SizeCovers(b.size[LocOf(d, p)], Len(d.heap[p].items))
    BY DEF LengthsIn
  <2>1. CASE p = v[2]
    BY <1>1, <1>2, <1>6, <2>1
  <2>2. CASE p # v[2]
    <3>1. d.heap[p].items = c.heap[p].items /\ LocOf(d, p) = LocOf(c, p) /\ p \in others
      BY <1>1, <2>2
    <3>2. SizeCovers(a.size[LocOf(c, p)], Len(c.heap[p].items)) /\ Len(c.heap[p].items) \in Nat
      BY <1>2, <1>6, <3>1 DEF LengthsIn
    <3> QED  BY <1>6, <3>1, <3>2
  <2> QED  BY <2>1, <2>2
<1> QED  BY <1>3, <1>4, <1>5, <1>6 DEF d

\* Only the list a strong update is meant for is at its location.
LEMMA StrongAlone ==
  ASSUME NEW c \in Store, NEW o \in 1..Len(c.heap), NEW p \in (1..Len(c.heap)) \ {o},
         NEW r, LocOf(c, o) \in r
  PROVE  ~StrongUpdateTarget(r, LocOf(c, p))
BY RecentAlone DEF StrongUpdateTarget

\* An update of the size loses no length of another list ...
LEMMA ResizedOthers ==
  ASSUME NEW c \in Store, NEW o \in 1..Len(c.heap), NEW p \in (1..Len(c.heap)) \ {o},
         NEW r, LocOf(c, o) \in r, NEW a \in AState, NEW s \in Size, NEW n \in Nat,
         SizeCovers(a.size[LocOf(c, p)], n)
  PROVE  SizeCovers(UpdateCollectionSize(a, r, s).size[LocOf(c, p)], n)
<1> DEFINE l == LocOf(c, p)
<1>1. l \in Loc /\ ~StrongUpdateTarget(r, l)
  BY LocOfType, StrongAlone
<1>2. a.size[l] \in Size /\ SizeGet(a, l) = a.size[l] /\ DOMAIN a.size = Loc
  BY <1>1 DEF AState, SizeGet, SizeCovers, Bottom
<1> HIDE DEF l
<1>3. SizeCovers(SizeJoin(SizeGet(a, l), s), n)
  BY <1>2, SizeJoinCovers DEF l
<1>4. UpdateCollectionSize(a, r, s).size[l] =
        IF l \notin r THEN a.size[l] ELSE SizeJoin(SizeGet(a, l), s)
  BY <1>1, <1>2 DEF UpdateCollectionSize
<1> QED  BY <1>3, <1>4 DEF l

\* ... and admits what the update says of the list itself.
LEMMA ResizedOwn ==
  ASSUME NEW a \in AState, NEW l \in Loc, NEW r, l \in r, NEW s \in Size, NEW n \in Nat,
         SizeCovers(s, n)
  PROVE  SizeCovers(UpdateCollectionSize(a, r, s).size[l], n)
<1>1. SizeGet(a, l) \in Size /\ DOMAIN a.size = Loc
  BY DEF AState, SizeGet, Size, Top, SizeKind
<1>2. SizeCovers(SizeJoin(SizeGet(a, l), s), n)
  BY <1>1, SizeJoinCovers
<1>3. UpdateCollectionSize(a, r, s).size[l] =
        IF StrongUpdateTarget(r, l) THEN s ELSE SizeJoin(SizeGet(a, l), s)
  BY <1>1 DEF UpdateCollectionSize
<1> QED  BY <1>2, <1>3

-----------------------------------------------------------------------------
(* What each transfer does to a state. *)

\* A binding of a state is one.
LEMMA EnvSetCells ==
  ASSUME NEW a \in AState, NEW x \in Vars, NEW v \in AbsVal
  PROVE  /\ EnvSet(a, x, v) \in AState
         /\ EnvSet(a, x, v).elem = a.elem /\ EnvSet(a, x, v).size = a.size
BY DEF EnvSet, AState

\* An update of the size is a state, and only its sizes change.
LEMMA UpdateType ==
  ASSUME NEW a \in AState, NEW r, NEW s \in Size
  PROVE  /\ UpdateCollectionSize(a, r, s) \in AState
         /\ UpdateCollectionSize(a, r, s).env = a.env /\ UpdateCollectionSize(a, r, s).elem = a.elem
<1>1. \A l \in Loc : a.size[l] \in Size /\ SizeGet(a, l) \in Size
  BY DEF AState, SizeGet, Size, Top, SizeKind
<1> DEFINE size == [l \in Loc |-> IF l \notin r THEN a.size[l]
                                  ELSE IF StrongUpdateTarget(r, l) THEN s
                                  ELSE SizeJoin(SizeGet(a, l), s)]
<1>2. size \in [Loc -> Size]
  BY <1>1, SizeJoinType
<1>3. UpdateCollectionSize(a, r, s) = [env |-> a.env, elem |-> a.elem, size |-> size]
  BY DEF UpdateCollectionSize, AState
<1> HIDE DEF size
<1> QED  BY <1>2, <1>3 DEF AState

\* append, insert and extend: the cells of the receiver grow by v.
LEMMA GrowCells ==
  ASSUME NEW a \in AState, NEW r, NEW v \in AbsVal
  PROVE  /\ Grow(a, r, v) \in AState
         /\ Grow(a, r, v).env = a.env
         /\ \A l \in Loc : a.elem[l] \subseteq Grow(a, r, v).elem[l]
         /\ \A l \in Loc : l \in r => v \subseteq Grow(a, r, v).elem[l]
         /\ Grow(a, r, v).size = UpdateCollectionSize(a, r, Positive).size
<1> DEFINE b == GrowCell(a, r, v)
<1>1. /\ b \in AState /\ b.env = a.env /\ b.size = a.size
      /\ \A l \in Loc : a.elem[l] \subseteq b.elem[l]
      /\ \A l \in Loc : l \in r => v \subseteq b.elem[l]
  BY DEF GrowCell, AState, AbsVal
<1>2. Grow(a, r, v) = UpdateCollectionSize(b, r, Positive) /\ Positive \in Size
  BY DEF Grow, UpdateCollectionEmptiness, OfEmptiness, Positive, Size, SizeKind
<1>3. UpdateCollectionSize(b, r, Positive).size = UpdateCollectionSize(a, r, Positive).size
  BY <1>1 DEF UpdateCollectionSize, SizeGet, AState
<1> HIDE DEF b
<1> QED  BY <1>1, <1>2, <1>3, UpdateType

\* clear: a strong target loses its elements.
LEMMA ClearCells ==
  ASSUME NEW a \in AState, NEW r
  PROVE  /\ Clear(a, r) \in AState
         /\ Clear(a, r).env = a.env
         /\ \A l \in Loc : ~StrongUpdateTarget(r, l) => Clear(a, r).elem[l] = a.elem[l]
         /\ Clear(a, r).size = UpdateCollectionSize(a, r, Exact(0)).size
<1> DEFINE b == ClearCell(a, r)
<1>1. /\ b \in AState /\ b.env = a.env /\ b.size = a.size
      /\ \A l \in Loc : ~StrongUpdateTarget(r, l) => b.elem[l] = a.elem[l]
  BY DEF ClearCell, AState, AbsVal
<1>2. Clear(a, r) = UpdateCollectionSize(b, r, Exact(0)) /\ Exact(0) \in Size
  BY DEF Clear, UpdateCollectionEmptiness, OfEmptiness, Exact, Size, SizeKind
<1>3. UpdateCollectionSize(b, r, Exact(0)).size = UpdateCollectionSize(a, r, Exact(0)).size
  BY <1>1 DEF UpdateCollectionSize, SizeGet, AState
<1> HIDE DEF b
<1> QED  BY <1>1, <1>2, <1>3, UpdateType

\* What the cells of a value hold.
LEMMA ElementsCells ==
  ASSUME NEW a \in AState, NEW v
  PROVE  /\ Elements(a, v) \in AbsVal
         /\ \A l \in Locs(v) : l \in Loc /\ a.elem[l] \subseteq Elements(a, v)
BY DEF Elements, Locs, AState, AbsVal

\* A callee reaches what it is given.
LEMMA LocsReached ==
  ASSUME NEW a, NEW v
  PROVE  Locs(v) \subseteq ReachableLocs(a, v)
BY DEF ReachableLocs, Locs

\* A havoc adds every scalar where the callee reaches and loses nothing.
LEMMA HavocCells ==
  ASSUME NEW a \in AState, NEW v
  PROVE  /\ HavocReachable(a, v) \in AState
         /\ HavocReachable(a, v).env = a.env
         /\ HavocReachable(a, v).size = a.size
         /\ \A l \in Loc : a.elem[l] \subseteq HavocReachable(a, v).elem[l]
         /\ \A l \in Locs(v) : Scalars \subseteq HavocReachable(a, v).elem[l]
<1>1. \A l \in Loc : SizeGet(a, l) # Bottom
  BY DEF SizeGet, Top, Bottom
<1>2. Locs(v) \subseteq Loc
  BY DEF Locs
<1> QED  BY <1>1, <1>2, LocsReached DEF HavocReachable, AState, AbsVal

\* A call no rule models also forgets the sizes of what it reaches.
LEMMA OpaqueCells ==
  ASSUME NEW a \in AState, NEW v
  PROVE  /\ OpaqueEffect(a, v) \in AState
         /\ OpaqueEffect(a, v).env = a.env
         /\ OpaqueEffect(a, v).elem = HavocReachable(a, v).elem
         /\ \A l \in Loc : OpaqueEffect(a, v).size[l] \in {a.size[l], Top}
         /\ \A l \in Locs(v) : OpaqueEffect(a, v).size[l] = Top
<1> DEFINE b == HavocReachable(a, v)
<1>1. b \in AState /\ b.env = a.env /\ b.size = a.size
  BY HavocCells
<1>2. Top \in Size
  BY DEF Top, Size, SizeKind
<1>3. Locs(v) \subseteq Loc
  BY DEF Locs
<1> HIDE DEF b
<1>4. OpaqueEffect(a, v) = [b EXCEPT !.size = [l \in Loc |->
                             IF l \in ReachableLocs(a, v) THEN Top ELSE @[l]]]
  BY DEF OpaqueEffect, b
<1>5. /\ OpaqueEffect(a, v).env = b.env /\ OpaqueEffect(a, v).elem = b.elem
      /\ OpaqueEffect(a, v).size = [l \in Loc |-> IF l \in ReachableLocs(a, v) THEN Top ELSE b.size[l]]
      /\ OpaqueEffect(a, v) \in AState
  BY <1>1, <1>2, <1>4 DEF AState
<1> QED  BY <1>1, <1>3, <1>5, LocsReached DEF b

\* A display is a state.
LEMMA FreshType ==
  ASSUME NEW a \in AState, NEW s \in Sites, NEW x \in Vars, NEW elements \in AbsVal, NEW s0 \in Size
  PROVE  FreshList(a, x, s, elements, s0) \in AState
<1>1. \A v \in AbsVal : RenameLoc(v, s) \in AbsVal
  BY Halves DEF RenameLoc, AbsVal
<1>2. {Recent(s)} \in AbsVal
  BY Halves DEF AbsVal
<1>3. \A l \in Loc : a.elem[l] \in AbsVal /\ a.size[l] \in Size
  BY DEF AState
<1>4. \A y \in Vars : a.env[y] \in AbsVal
  BY DEF AState
<1> DEFINE b == FreshList(a, x, s, elements, s0)
<1>5. b.env \in [Vars -> AbsVal]
  BY <1>1, <1>2, <1>4 DEF FreshList, EnvSet, SizeSet, Allocate, FoldRecent
<1>6. b.elem \in [Loc -> AbsVal]
  <2> DEFINE renamed == [l \in Loc |-> RenameLoc(a.elem[l], s)]
             e == [renamed EXCEPT ![Summary(s)] = @ \cup renamed[Recent(s)], ![Recent(s)] = {}]
  <2>1. renamed \in [Loc -> AbsVal]
    BY <1>1, <1>3
  <2>2. renamed[Summary(s)] \cup renamed[Recent(s)] \in AbsVal /\ {} \in AbsVal
    BY <2>1, Halves DEF AbsVal
  <2>3. b.elem = [e EXCEPT ![Recent(s)] = elements]
    BY DEF FreshList, EnvSet, SizeSet, Allocate, FoldRecent
  <2> HIDE DEF renamed
  <2> QED  BY <2>1, <2>2, <2>3
<1>7. b.size \in [Loc -> Size]
  <2>1. SizeJoin(a.size[Summary(s)], a.size[Recent(s)]) \in Size
    BY <1>3, Halves, SizeJoinType
  <2>2. Bottom \in Size /\ Exact(0) \in Size
    BY DEF Bottom, Exact, Size, SizeKind
  <2>3. a.size \in [Loc -> Size]
    BY DEF AState
  <2> QED  BY <2>1, <2>2, <2>3 DEF FreshList, EnvSet, SizeSet, Allocate, FoldRecent
<1>8. b = [env |-> b.env, elem |-> b.elem, size |-> b.size]
  BY DEF FreshList, EnvSet
<1> HIDE DEF b
<1> QED  BY <1>5, <1>6, <1>7, <1>8 DEF AState, b

-----------------------------------------------------------------------------
(* The invariant. *)

\* The state covers the store in all that this vocabulary leaves true.
Keeps(a, c) ==
  /\ NamesIn(a, c)
  /\ KnownIn(a, c)
  /\ Rebuilds \/ ElementsIn(a, c)
  /\ Resizes \/ LengthsIn(a, c)

StoreOK(c) == c \in Store /\ WellFormed(c) /\ Len(c.heap) <= MaxObjs

\* The list elements are covered in order to cover the names an index binds; the
\* presence of elements, in order that a copy in a program that rebuilds is not taken
\* for empty; the lengths, in order that an index in range raises nothing.
CellsInv ==
  /\ uses \in Vocabularies
  /\ abs \in AState
  /\ arm \in {"none", "taken", "skipped"}
  /\ arm # "none" => entry \in AState
  /\ StoreOK(store)
  /\ ReadsBack \/ Keeps(Speaks, store)
  /\ OutcomesContainedFixed

\* What the transfers of one operation owe: in every end the program may have, the
\* state that is kept covers the store, and the end was foreseen.
Sound(next, raises, results) ==
  \A r \in results :
    /\ StoreOK(r[1])
    /\ ReadsBack \/ Keeps(IF r[2] = "normal" /\ next # NoState THEN next ELSE abs, r[1])
    /\ Resizes \/ ReadsBack \/ r[2] \in raises \/ (r[2] = "normal" /\ next # NoState)

\* A step that owes nothing more keeps the invariant; in an arm the program skips the
\* state it entered with speaks for it.
LEMMA StepKeeps ==
  ASSUME CellsInv, NEW next \in AState \cup {NoState}, NEW raises, NEW results,
         Step(next, raises, results), arm # "skipped" => Sound(next, raises, results)
  PROVE  CellsInv'
<1>1. /\ uses' = uses /\ entry' = entry /\ arm' = arm
      /\ (Rebuilds' <=> Rebuilds) /\ (ReadsBack' <=> ReadsBack) /\ (Resizes' <=> Resizes)
  BY DEF Step, Rebuilds, ReadsBack, Resizes
<1>2. CASE arm = "skipped"
  <2>1. abs' \in AState /\ store' = store /\ outcome' = outcome
    BY <1>2 DEF Step
  <2>2. Speaks' = Speaks
    BY <1>1, <1>2 DEF Speaks
  <2>3. Keeps(Speaks, store)' <=> Keeps(Speaks, store)
    BY <1>1, <2>1, <2>2 DEF Keeps
  <2>4. StoreOK(store') /\ OutcomesContainedFixed'
    BY <1>1, <2>1 DEF CellsInv, OutcomesContainedFixed, OutcomesContained, Contained
  <2> QED  BY <1>1, <1>2, <2>1, <2>3, <2>4 DEF CellsInv
<1>3. CASE arm # "skipped"
  <2>1. PICK r \in results :
          /\ outcome' = [did |-> r[2],
                         may |-> raises \cup (IF next = NoState THEN {} ELSE {"normal"})]
          /\ store' = r[1]
          /\ abs' = IF r[2] = "normal" /\ next # NoState THEN next ELSE abs
    BY <1>3 DEF Step
  <2>2. abs' \in AState /\ StoreOK(store')
    BY <1>3, <2>1 DEF CellsInv, Sound
  <2>3. Speaks' = abs'
    BY <1>1, <1>3 DEF Speaks
  <2>4. ReadsBack \/ Keeps(abs', store')
    BY <1>3, <2>1 DEF Sound
  <2>5. ReadsBack' \/ Keeps(Speaks, store)'
    BY <1>1, <2>3, <2>4 DEF Keeps
  <2>6. Resizes \/ ReadsBack \/ r[2] \in raises \/ (r[2] = "normal" /\ next # NoState)
    BY <1>3 DEF Sound
  <2>7. OutcomesContainedFixed'
    BY <1>1, <2>1, <2>6 DEF OutcomesContainedFixed, OutcomesContained, Contained
  <2> QED  BY <1>1, <2>2, <2>5, <2>7 DEF CellsInv
<1> QED  BY <1>2, <1>3

\* An operation that ends normally, one way.
LEMMA NormallySound ==
  ASSUME NEW next \in AState, NEW raises, NEW c, StoreOK(c), ReadsBack \/ Keeps(next, c)
  PROVE  Sound(next, raises, Normally(c))
<1>1. next # NoState
  BY TagsAssumption
<1> QED  BY <1>1 DEF Sound, Normally

\* What the invariant says of a list receiver of an operation that runs.
LEMMA Receiver ==
  ASSUME CellsInv, arm # "skipped", NEW x \in Vars, IsList(store.env[x])
  PROVE  /\ store.env[x] \in Objs /\ Refers(store, store.env[x])
         /\ store.env[x][2] \in 1..Len(store.heap)
         /\ ItemsOf(x) = store.heap[store.env[x][2]].items
         /\ ItemsOf(x) \in Seq(Values \cup Objs)
         /\ \A i \in 1..Len(ItemsOf(x)) : Refers(store, ItemsOf(x)[i])
         /\ ReadsBack \/ /\ LocOf(store, store.env[x][2]) \in Locs(abs.env[x])
                         /\ LocOf(store, store.env[x][2]) \in Loc
<1> DEFINE v == store.env[x]
<1>1. StoreOK(store) /\ v \in Objs
  BY DEF CellsInv, IsList
<1>2. Refers(store, v) /\ v[2] \in 1..Len(store.heap)
  BY <1>1 DEF StoreOK, WellFormed, Refers
<1>3. ItemsOf(x) = store.heap[v[2]].items
  BY DEF ItemsOf, Deref
<1>4. ItemsOf(x) \in Seq(Values \cup Objs)
  BY <1>1, <1>2, <1>3, Objects DEF StoreOK
<1>5. \A i \in 1..Len(ItemsOf(x)) : Refers(store, ItemsOf(x)[i])
  BY <1>1, <1>2, <1>3 DEF StoreOK, WellFormed
<1>6. ReadsBack \/ (LocOf(store, v[2]) \in Locs(abs.env[x]) /\ LocOf(store, v[2]) \in Loc)
  <2>1. LocOf(store, v[2]) \in Loc
    BY <1>1, <1>2, LocOfType DEF StoreOK
  <2>2. ReadsBack \/ NamesIn(abs, store)
    BY DEF CellsInv, Speaks, Keeps
  <2> QED  BY <2>1, <2>2 DEF NamesIn, AbsOf, Locs
<1> QED  BY <1>1, <1>2, <1>3, <1>4, <1>5, <1>6

\* ... and of any name.
LEMMA Named ==
  ASSUME CellsInv, arm # "skipped", NEW x \in Vars
  PROVE  /\ store.env[x] \in Values \cup Objs /\ Refers(store, store.env[x])
         /\ abs.env[x] \in AbsVal /\ StoreOK(store)
         /\ ReadsBack \/ (Keeps(abs, store) /\ AbsOf(store, store.env[x]) \in abs.env[x])
<1>1. StoreOK(store) /\ abs \in AState /\ (ReadsBack \/ Keeps(abs, store))
  BY DEF CellsInv, Speaks
<1> QED  BY <1>1 DEF StoreOK, Store, WellFormed, AState, Keeps, NamesIn

\* A list changed in place, by a state that says no less of the other lists.
LEMMA ChangedKeeps ==
  ASSUME CellsInv, arm # "skipped", NEW x \in Vars, IsList(store.env[x]),
         NEW items \in Seq(Values \cup Objs), \A i \in 1..Len(items) : Refers(store, items[i]),
         NEW b, b.env = abs.env,
         LET o      == store.env[x][2]
             others == (1..Len(store.heap)) \ {o}
         IN  ~ReadsBack =>
               /\ \A p \in others : abs.elem[LocOf(store, p)] \subseteq b.elem[LocOf(store, p)]
               /\ items # <<>> => b.elem[LocOf(store, o)] # {}
               /\ ~Rebuilds => \A i \in 1..Len(items) :
                                 AbsOf(store, items[i]) \in b.elem[LocOf(store, o)]
               /\ ~Resizes =>
                    /\ \A p \in others, n \in Nat : SizeCovers(abs.size[LocOf(store, p)], n) =>
                                                      SizeCovers(b.size[LocOf(store, p)], n)
                    /\ SizeCovers(b.size[LocOf(store, o)], Len(items))
  PROVE  LET d == SetItems(store, store.env[x], items)
         IN  StoreOK(d) /\ (ReadsBack \/ Keeps(b, d))
<1> DEFINE v == store.env[x]
           d == SetItems(store, v, items)
<1>1. v \in Objs /\ Refers(store, v)
  BY Receiver
<1>2. store \in Store /\ WellFormed(store) /\ Len(store.heap) <= MaxObjs
  BY DEF CellsInv, StoreOK
<1>3. d \in Store /\ WellFormed(d) /\ Len(d.heap) = Len(store.heap)
  BY <1>1, <1>2, SetItemsStore
<1>4. ASSUME ~ReadsBack
      PROVE  Keeps(b, d)
  <2>1. Keeps(abs, store)
    BY <1>4 DEF CellsInv, Speaks
  <2>2. NamesIn(b, d)
    BY <1>1, <1>2, <2>1, SetCovers DEF Keeps
  <2>3. KnownIn(b, d)
    BY <1>1, <1>2, <1>4, <2>1, SetCovers DEF Keeps
  <2>4. Rebuilds \/ ElementsIn(b, d)
    BY <1>1, <1>2, <1>4, <2>1, SetCovers DEF Keeps
  <2>5. Resizes \/ LengthsIn(b, d)
    BY <1>1, <1>2, <1>4, <2>1, SetCovers DEF Keeps
  <2> QED  BY <2>2, <2>3, <2>4, <2>5 DEF Keeps
<1> QED  BY <1>2, <1>3, <1>4 DEF StoreOK

\* A list made, whose elements, presence and length its location is given.
LEMMA MadeKeeps ==
  ASSUME CellsInv, arm # "skipped", NEW x \in Vars, NEW s \in Sites, Len(store.heap) < MaxObjs,
         NEW items \in Seq(Values \cup Objs), \A i \in 1..Len(items) : Refers(store, items[i]),
         NEW elements, NEW s0,
         ~ReadsBack =>
           /\ items # <<>> => elements # {}
           /\ ~Rebuilds => \A i \in 1..Len(items) :
                             AbsOf(Allocated(store, s, items), items[i]) \in elements
           /\ ~Resizes => SizeCovers(s0, Len(items))
  PROVE  LET d == NewList(store, x, s, items)
         IN  StoreOK(d) /\ (ReadsBack \/ Keeps(FreshList(abs, x, s, elements, s0), d))
<1> DEFINE d == NewList(store, x, s, items)
           e == Allocated(store, s, items)
           b == FreshList(abs, x, s, elements, s0)
<1>1. store \in Store /\ WellFormed(store) /\ abs \in AState
  BY DEF CellsInv, StoreOK
<1>2. StoreOK(d)
  BY <1>1, NewListStore DEF StoreOK
<1>3. Folded(abs, b, s) /\ b.elem[Recent(s)] = elements /\ b.size[Recent(s)] = s0
  BY <1>1, FreshCells
<1>4. d.heap = e.heap
  BY DEF NewList, Allocated
<1>5. ASSUME ~ReadsBack
      PROVE  Keeps(b, d)
  <2>1. Keeps(abs, store)
    BY <1>5 DEF CellsInv, Speaks
  <2>2. NamesIn(b, d)
    BY <1>1, <2>1, FreshNames DEF Keeps
  <2> HIDE DEF d, e, b
  <2>3. KnownIn(b, d)
    <3>1. KnownIn(b, e)
      BY <1>1, <1>3, <1>5, <2>1, FoldKnown DEF Keeps, e
    <3> QED  BY <1>4, <3>1, SameHeap
  <2>4. Rebuilds \/ ElementsIn(b, d)
    <3>1. Rebuilds \/ ElementsIn(b, e)
      BY <1>1, <1>3, <1>5, <2>1, FoldElements DEF Keeps, e
    <3> QED  BY <1>4, <3>1, SameHeap
  <2>5. Resizes \/ LengthsIn(b, d)
    <3>1. Resizes \/ LengthsIn(b, e)
      BY <1>1, <1>3, <1>5, <2>1, FoldLengths DEF Keeps, e
    <3> QED  BY <1>4, <3>1, SameHeap
  <2> QED  BY <2>2, <2>3, <2>4, <2>5 DEF Keeps
<1> QED  BY <1>2, <1>5

\* A name bound to a value its abstract value lists.
LEMMA BoundKeeps ==
  ASSUME CellsInv, arm # "skipped", NEW x \in Vars, NEW v \in Values \cup Objs, Refers(store, v),
         NEW w \in AbsVal, ReadsBack \/ AbsOf(store, v) \in w
  PROVE  LET d == Bind(store, x, v)
         IN  StoreOK(d) /\ (ReadsBack \/ Keeps(EnvSet(abs, x, w), d))
<1> DEFINE d == Bind(store, x, v)
           b == EnvSet(abs, x, w)
<1>1. store \in Store /\ WellFormed(store) /\ abs \in AState /\ Len(store.heap) <= MaxObjs
  BY DEF CellsInv, StoreOK
<1>2. d \in Store /\ WellFormed(d) /\ d.heap = store.heap
  BY <1>1, BindStore
<1>3. b.elem = abs.elem /\ b.size = abs.size
  BY <1>1, EnvSetCells
<1>4. ASSUME ~ReadsBack
      PROVE  Keeps(b, d)
  <2>1. Keeps(abs, store)
    BY <1>4 DEF CellsInv, Speaks
  <2>2. NamesIn(b, d)
    BY <1>1, <1>4, <2>1, BindNames DEF Keeps
  <2> HIDE DEF d, b
  <2>3. KnownIn(abs, d) /\ (Rebuilds \/ ElementsIn(abs, d)) /\ (Resizes \/ LengthsIn(abs, d))
    BY <1>2, <2>1, SameHeap DEF Keeps
  <2>4. KnownIn(b, d) /\ (Rebuilds \/ ElementsIn(b, d)) /\ (Resizes \/ LengthsIn(b, d))
    BY <1>3, <2>3 DEF KnownIn, ElementsIn, LengthsIn
  <2> QED  BY <2>2, <2>4 DEF Keeps
<1> QED  BY <1>1, <1>2, <1>4 DEF StoreOK

-----------------------------------------------------------------------------
(* Every operation keeps the invariant. *)

\* x = k: a scalar is its own abstraction.
LEMMA AssignScalarKeeps ==
  ASSUME CellsInv, NEW x \in Vars, NEW k \in Scalars, AssignScalar(x, k)
  PROVE  CellsInv'
<1> DEFINE next == EnvSet(abs, x, {k})
           c == Bind(store, x, k)
<1>1. Step(next, {}, Normally(c))
  BY DEF AssignScalar
<1>2. {k} \in AbsVal /\ k \in Values \cup Objs /\ ~IsList(k)
  BY TagsAssumption DEF AbsVal, Values, IsList
<1>3. next \in AState
  BY <1>2, EnvSetCells DEF CellsInv
<1>4. ASSUME arm # "skipped"
      PROVE  Sound(next, {}, Normally(c))
  <2>1. Refers(store, k) /\ AbsOf(store, k) \in {k}
    BY <1>2 DEF Refers, AbsOf
  <2>2. StoreOK(c) /\ (ReadsBack \/ Keeps(next, c))
    BY <1>2, <1>4, <2>1, BoundKeeps
  <2> QED  BY <1>3, <2>2, NormallySound
<1> QED  BY <1>1, <1>3, <1>4, StepKeeps

\* x = y: the names then have one value and one abstract value.
LEMMA AliasKeeps ==
  ASSUME CellsInv, NEW x \in Vars, NEW y \in Vars, Alias(x, y)
  PROVE  CellsInv'
<1> DEFINE next == EnvSet(abs, x, abs.env[y])
           c == Bind(store, x, store.env[y])
<1>1. Step(next, {}, Normally(c))
  BY DEF Alias
<1>2. abs.env[y] \in AbsVal /\ abs \in AState
  BY DEF CellsInv, AState
<1>3. next \in AState
  BY <1>2, EnvSetCells
<1>4. ASSUME arm # "skipped"
      PROVE  Sound(next, {}, Normally(c))
  <2>1. StoreOK(c) /\ (ReadsBack \/ Keeps(next, c))
    BY <1>2, <1>4, Named, BoundKeeps
  <2> QED  BY <1>3, <2>1, NormallySound
<1> QED  BY <1>1, <1>3, <1>4, StepKeeps

\* x = [k, ..., k]: the count of the literal is the length of the list.
LEMMA LiteralKeeps ==
  ASSUME CellsInv, NEW x \in Vars, NEW s \in DOMAIN uses.shape, NEW k \in Scalars, Literal(x, s, k)
  PROVE  CellsInv'
<1> DEFINE n == uses.width[s]
           elements == IF n = 0 THEN {} ELSE {k}
           items == [i \in 1..n |-> k]
           next == FreshList(abs, x, s, elements, Exact(n))
           c == NewList(store, x, s, items)
<1>1. Step(next, {}, Normally(c)) /\ Len(store.heap) < MaxObjs
  BY DEF Literal
<1>2. s \in Sites /\ n \in 0..MaxLen
  BY VocabularyAssumption DEF CellsInv
<1>3. elements \in AbsVal /\ k \in Values \cup Objs /\ ~IsList(k) /\ Exact(n) \in Size
  BY <1>2, BoundsAssumption, TagsAssumption DEF AbsVal, Values, IsList, Exact, Size, SizeKind
<1>4. next \in AState
  BY <1>2, <1>3, FreshType DEF CellsInv
<1>5. items \in Seq(Values \cup Objs) /\ Len(items) = n /\ \A i \in 1..n : items[i] = k
  <2> HIDE DEF n
  <2> QED  BY <1>2, <1>3, BoundsAssumption
<1>6. ASSUME arm # "skipped"
      PROVE  Sound(next, {}, Normally(c))
  <2> HIDE DEF items, n
  <2>1. \A d : Refers(d, k) /\ AbsOf(d, k) = k
    BY <1>3 DEF Refers, AbsOf
  <2>2. items # <<>> => n # 0
    BY <1>2, <1>5, BoundsAssumption
  <2>3. SizeCovers(Exact(n), Len(items))
    BY <1>5 DEF SizeCovers, Exact
  <2>4. \A i \in 1..Len(items) : AbsOf(Allocated(store, s, items), items[i]) \in elements
    BY <1>2, <1>5, <2>1, BoundsAssumption
  <2>5. StoreOK(c) /\ (ReadsBack \/ Keeps(next, c))
    BY <1>1, <1>2, <1>5, <1>6, <2>1, <2>2, <2>3, <2>4, MadeKeeps
  <2> QED  BY <1>4, <2>5, NormallySound
<1> QED  BY <1>1, <1>4, <1>6, StepKeeps

\* x = [y]: the names survive the fold; the element may not (Rebuilds).
LEMMA WrapKeeps ==
  ASSUME CellsInv, NEW x \in Vars, NEW s \in DOMAIN uses.shape, NEW y \in Vars, Wrap(x, s, y)
  PROVE  CellsInv'
<1> DEFINE items == <<store.env[y]>>
           next == FreshList(abs, x, s, abs.env[y], Exact(1))
           c == NewList(store, x, s, items)
<1>1. Step(next, {}, Normally(c)) /\ Len(store.heap) < MaxObjs /\ Rebuilds
  BY DEF Wrap, Rebuilds
<1>2. s \in Sites /\ abs \in AState /\ abs.env[y] \in AbsVal /\ Exact(1) \in Size
  BY VocabularyAssumption DEF CellsInv, AState, Exact, Size, SizeKind
<1>3. next \in AState
  BY <1>2, FreshType
<1>4. ASSUME arm # "skipped"
      PROVE  Sound(next, {}, Normally(c))
  <2>1. store.env[y] \in Values \cup Objs /\ Refers(store, store.env[y])
        /\ (ReadsBack \/ AbsOf(store, store.env[y]) \in abs.env[y])
    BY <1>4, Named
  <2>2. items \in Seq(Values \cup Objs) /\ Len(items) = 1 /\ items[1] = store.env[y]
    BY <2>1
  <2>3. SizeCovers(Exact(1), Len(items))
    BY <2>2 DEF SizeCovers, Exact
  <2>4. \A i \in 1..Len(items) : Refers(store, items[i])
    BY <2>1, <2>2
  <2> HIDE DEF items
  <2>5. StoreOK(c) /\ (ReadsBack \/ Keeps(next, c))
    BY <1>1, <1>2, <1>4, <2>1, <2>2, <2>3, <2>4, MadeKeeps
  <2> QED  BY <1>3, <2>5, NormallySound
<1> QED  BY <1>1, <1>3, <1>4, StepKeeps

\* x = y.copy(): an empty element cell means an empty list, even in a program that rebuilds.
LEMMA CopyKeeps ==
  ASSUME CellsInv, NEW x \in Vars, NEW s \in DOMAIN uses.shape, NEW y \in Vars, Copy(x, s, y)
  PROVE  CellsInv'
<1> DEFINE items == ItemsOf(y)
           elements == Elements(abs, abs.env[y])
           s0 == IF elements = {} THEN Exact(0) ELSE Top
           next == FreshList(abs, x, s, elements, s0)
           c == NewList(store, x, s, items)
<1>1. Step(next, {}, Normally(c)) /\ Len(store.heap) < MaxObjs /\ Rebuilds /\ RunsOn(y)
  BY DEF Copy, Rebuilds
<1>2. s \in Sites /\ abs \in AState /\ elements \in AbsVal /\ s0 \in Size
  <2>1. Exact(0) \in Size /\ Top \in Size
    BY DEF Exact, Top, Size, SizeKind
  <2>2. s \in Sites /\ abs \in AState
    BY VocabularyAssumption DEF CellsInv
  <2> QED  BY <2>1, <2>2, ElementsCells
<1>3. next \in AState
  BY <1>2, FreshType
<1>4. ASSUME arm # "skipped"
      PROVE  Sound(next, {}, Normally(c))
  <2>1. IsList(store.env[y])
    BY <1>1, <1>4 DEF RunsOn
  <2> DEFINE o == store.env[y][2]
  <2>2. /\ o \in 1..Len(store.heap) /\ items = store.heap[o].items
        /\ items \in Seq(Values \cup Objs) /\ \A i \in 1..Len(items) : Refers(store, items[i])
        /\ ReadsBack \/ LocOf(store, o) \in Locs(abs.env[y])
    BY <1>4, <2>1, Receiver
  <2> HIDE DEF items, o
  <2>3. ~ReadsBack => (items # <<>> => elements # {})
    <3> SUFFICES ASSUME ~ReadsBack, items # <<>> PROVE elements # {}
      OBVIOUS
    <3>1. KnownIn(abs, store)
      BY <1>4 DEF CellsInv, Speaks, Keeps
    <3>2. abs.elem[LocOf(store, o)] # {}
      BY <2>2, <3>1 DEF KnownIn
    <3> QED  BY <1>2, <2>2, <3>2, ElementsCells
  <2>4. ~ReadsBack => SizeCovers(s0, Len(items))
    <3>1. CASE elements = {}
      BY <2>3, <3>1 DEF SizeCovers, Exact
    <3>2. CASE elements # {}
      BY <3>2 DEF SizeCovers, Top
    <3> QED  BY <3>1, <3>2
  <2> HIDE DEF elements, s0
  <2>5. StoreOK(c) /\ (ReadsBack \/ Keeps(next, c))
    BY <1>1, <1>2, <1>4, <2>2, <2>3, <2>4, MadeKeeps
  <2> QED  BY <1>3, <2>5, NormallySound
<1> QED  BY <1>1, <1>3, <1>4, StepKeeps

\* x = y[i]: the element is in the cell, and an index proved in range is in range.
LEMMA LoadKeeps ==
  ASSUME CellsInv, NEW x \in Vars, NEW y \in Vars, NEW i \in 0..(MaxLen - 1), Load(x, y, i)
  PROVE  CellsInv'
<1> DEFINE receiver == Locs(abs.env[y])
           elements == Elements(abs, receiver)
           items == ItemsOf(y)
           next == IF elements = {} THEN NoState ELSE EnvSet(abs, x, elements)
           raises == IF IndexDefinitelyInRange(abs, receiver, i) THEN {} ELSE {"IndexError"}
           results == IF i < Len(items) THEN Normally(Bind(store, x, items[i + 1]))
                      ELSE {<<store, "IndexError">>}
<1>1. Step(next, raises, results) /\ RunsOn(y) /\ (ReadsBack \/ ~Rebuilds)
  BY DEF Load, ReadsBack
<1>2. abs \in AState /\ elements \in AbsVal
  BY ElementsCells DEF CellsInv
<1>3. next \in AState \cup {NoState}
  BY <1>2, EnvSetCells
<1>4. ASSUME arm # "skipped"
      PROVE  Sound(next, raises, results)
  <2>1. IsList(store.env[y])
    BY <1>1, <1>4 DEF RunsOn
  <2> DEFINE o == store.env[y][2]
             l == LocOf(store, o)
  <2>2. /\ o \in 1..Len(store.heap) /\ items = store.heap[o].items
        /\ items \in Seq(Values \cup Objs) /\ \A j \in 1..Len(items) : Refers(store, items[j])
        /\ ReadsBack \/ (l \in Locs(abs.env[y]) /\ l \in Loc)
    BY <1>4, <2>1, Receiver
  <2>3. StoreOK(store) /\ (ReadsBack \/ Keeps(abs, store))
    BY <1>4, Named
  <2> HIDE DEF items, o
  <2>4. i \in Nat /\ Len(items) \in Nat
    <3>1. i \in Nat
      BY BoundsAssumption
    <3> QED  BY <2>2, <3>1
  <2>5. CASE i < Len(items)
    <3> DEFINE v == items[i + 1]
               c == Bind(store, x, v)
    <3>1. i + 1 \in 1..Len(items) /\ v \in Values \cup Objs /\ Refers(store, v)
      BY <2>2, <2>4, <2>5
    <3>2. ReadsBack \/ AbsOf(store, v) \in elements
      <4> SUFFICES ASSUME ~ReadsBack PROVE AbsOf(store, v) \in elements
        OBVIOUS
      <4>1. ElementsIn(abs, store)
        BY <1>1, <2>3 DEF Keeps
      <4>2. AbsOf(store, v) \in abs.elem[l]
        BY <2>2, <3>1, <4>1 DEF ElementsIn
      <4>3. l \in Locs(receiver)
        BY <2>2 DEF Locs
      <4> QED  BY <1>2, <4>2, <4>3, ElementsCells
    <3>3. StoreOK(c) /\ (ReadsBack \/ Keeps(EnvSet(abs, x, elements), c))
      BY <1>2, <1>4, <3>1, <3>2, BoundKeeps
    <3>4. results = {<<c, "normal">>}
      BY <2>5 DEF Normally
    <3>5. ReadsBack \/ next = EnvSet(abs, x, elements)
      BY <3>2
    <3>6. EnvSet(abs, x, elements) # NoState
      BY <1>2, EnvSetCells, TagsAssumption
    <3> HIDE DEF results, next, c, elements, raises
    <3> QED  BY <3>3, <3>4, <3>5, <3>6 DEF Sound
  <2>6. CASE ~(i < Len(items))
    <3>1. results = {<<store, "IndexError">>}
      BY <2>6
    <3>2. Resizes \/ ReadsBack \/ ~IndexDefinitelyInRange(abs, receiver, i)
      <4> SUFFICES ASSUME ~Resizes, ~ReadsBack, IndexDefinitelyInRange(abs, receiver, i) PROVE FALSE
        OBVIOUS
      <4>1. /\ receiver = {l} /\ SizeGet(abs, l).kind = "exact" /\ i < SizeGet(abs, l).count
        BY <2>2 DEF IndexDefinitelyInRange
      <4>2. SizeCovers(abs.size[l], Len(items))
        BY <2>2, <2>3 DEF Keeps, LengthsIn
      <4>3. abs.size[l] \in Size
        BY <1>2, <2>2 DEF AState
      <4> QED  BY <2>4, <2>6, <4>1, <4>2, <4>3 DEF SizeCovers, SizeGet, Size, Bottom, Top
    <3>3. Resizes \/ ReadsBack \/ "IndexError" \in raises
      BY <3>2
    <3> HIDE DEF results, raises, next
    <3> QED  BY <2>3, <3>1, <3>3 DEF Sound
  <2> QED  BY <2>5, <2>6
<1> QED  BY <1>1, <1>3, <1>4, StepKeeps

\* What a concatenation is made of.
LEMMA ConcatItems ==
  ASSUME NEW S, NEW p \in Seq(S), NEW q \in Seq(S)
  PROVE  /\ p \o q \in Seq(S) /\ Len(p \o q) = Len(p) + Len(q)
         /\ \A i \in 1..Len(p \o q) : \/ \E j \in 1..Len(p) : (p \o q)[i] = p[j]
                                      \/ \E j \in 1..Len(q) : (p \o q)[i] = q[j]
<1>1. p \o q \in Seq(S) /\ Len(p \o q) = Len(p) + Len(q) /\ Len(p) \in Nat /\ Len(q) \in Nat
  OBVIOUS
<1>2. ASSUME NEW i \in 1..Len(p \o q)
      PROVE  \/ \E j \in 1..Len(p) : (p \o q)[i] = p[j]
             \/ \E j \in 1..Len(q) : (p \o q)[i] = q[j]
  <2>1. CASE i <= Len(p)
    <3>1. (p \o q)[i] = p[i]
      BY <1>1, <2>1, ConcatProperties
    <3> QED  BY <1>1, <2>1, <3>1
  <2>2. CASE i > Len(p)
    <3>1. (p \o q)[i] = q[i - Len(p)] /\ i - Len(p) \in 1..Len(q)
      BY <1>1, <2>2, ConcatProperties
    <3> QED  BY <3>1
  <2> QED  BY <1>1, <2>1, <2>2
<1> QED  BY <1>1, <1>2

\* A list that grows by what v may be.
LEMMA GrowKeeps ==
  ASSUME CellsInv, arm # "skipped", NEW x \in Vars, IsList(store.env[x]), NEW v \in AbsVal,
         NEW items \in Seq(Values \cup Objs), \A i \in 1..Len(items) : Refers(store, items[i]),
         ~ReadsBack =>
           /\ items # <<>> => ItemsOf(x) # <<>> \/ \E w : w \in v
           /\ ~Rebuilds => \A i \in 1..Len(items) :
                             \/ \E j \in 1..Len(ItemsOf(x)) : items[i] = ItemsOf(x)[j]
                             \/ AbsOf(store, items[i]) \in v
           /\ ~Resizes => Len(items) > 0
  PROVE  LET d == SetItems(store, store.env[x], items)
         IN  StoreOK(d) /\ (ReadsBack \/ Keeps(Grow(abs, Locs(abs.env[x]), v), d))
<1> DEFINE o == store.env[x][2]
           l == LocOf(store, o)
           r == Locs(abs.env[x])
           b == Grow(abs, r, v)
           others == (1..Len(store.heap)) \ {o}
<1>1. /\ o \in 1..Len(store.heap) /\ ItemsOf(x) = store.heap[o].items
      /\ ReadsBack \/ (l \in r /\ l \in Loc)
  BY Receiver
<1>2. /\ abs \in AState /\ store \in Store /\ (ReadsBack \/ Keeps(abs, store))
  BY DEF CellsInv, Speaks, StoreOK
<1>3. /\ b.env = abs.env
      /\ \A k \in Loc : abs.elem[k] \subseteq b.elem[k]
      /\ \A k \in Loc : k \in r => v \subseteq b.elem[k]
      /\ b.size = UpdateCollectionSize(abs, r, Positive).size
  <2> HIDE DEF r
  <2> QED  BY <1>2, GrowCells
<1> HIDE DEF o, r, b
<1>4. ASSUME ~ReadsBack
      PROVE  /\ \A p \in others : abs.elem[LocOf(store, p)] \subseteq b.elem[LocOf(store, p)]
             /\ items # <<>> => b.elem[l] # {}
             /\ ~Rebuilds => \A i \in 1..Len(items) : AbsOf(store, items[i]) \in b.elem[l]
             /\ ~Resizes =>
                  /\ \A p \in others, n \in Nat : SizeCovers(abs.size[LocOf(store, p)], n) =>
                                                    SizeCovers(b.size[LocOf(store, p)], n)
                  /\ SizeCovers(b.size[l], Len(items))
  <2>1. abs.elem[l] \subseteq b.elem[l] /\ v \subseteq b.elem[l]
    BY <1>1, <1>3, <1>4
  <2>2. \A p \in others : abs.elem[LocOf(store, p)] \subseteq b.elem[LocOf(store, p)]
    BY <1>2, <1>3, LocOfType, Zenon
  <2>3. items # <<>> => b.elem[l] # {}
    <3>1. ItemsOf(x) # <<>> => abs.elem[l] # {}
      BY <1>1, <1>2, <1>4 DEF Keeps, KnownIn
    <3> QED  BY <1>4, <2>1, <3>1
  <2>4. ASSUME ~Rebuilds, NEW i \in 1..Len(items)
        PROVE  AbsOf(store, items[i]) \in b.elem[l]
    <3>1. ElementsIn(abs, store)
      BY <1>2, <1>4, <2>4 DEF Keeps
    <3>2. \A j \in 1..Len(ItemsOf(x)) : AbsOf(store, ItemsOf(x)[j]) \in abs.elem[l]
      BY <1>1, <3>1 DEF ElementsIn
    <3> QED  BY <1>4, <2>1, <2>4, <3>2
  <2>5. \A p \in others, n \in Nat : SizeCovers(abs.size[LocOf(store, p)], n) =>
                                       SizeCovers(b.size[LocOf(store, p)], n)
    <3>1. Positive \in Size
      BY DEF Positive, Size, SizeKind
    <3> QED  BY <1>1, <1>2, <1>3, <1>4, <3>1, ResizedOthers
  <2>6. ~Resizes => SizeCovers(b.size[l], Len(items))
    <3> SUFFICES ASSUME ~Resizes PROVE SizeCovers(b.size[l], Len(items))
      OBVIOUS
    <3>1. Positive \in Size /\ SizeCovers(Positive, Len(items)) /\ Len(items) \in Nat
      BY <1>4 DEF Positive, Size, SizeKind, SizeCovers
    <3> QED  BY <1>1, <1>2, <1>3, <1>4, <3>1, ResizedOwn
  <2> QED  BY <2>2, <2>3, <2>4, <2>5, <2>6
<1> QED  BY <1>3, <1>4, ChangedKeeps DEF o, r, b

\* x.append(y), x.insert(0, y): the list is then not empty.
LEMMA AppendKeeps ==
  ASSUME CellsInv, NEW x \in Vars, NEW y \in Vars, NEW front \in BOOLEAN, AppendTo(x, y, front)
  PROVE  CellsInv'
<1> DEFINE items == IF front THEN <<store.env[y]>> \o ItemsOf(x)
                    ELSE Append(ItemsOf(x), store.env[y])
           next == Grow(abs, Locs(abs.env[x]), abs.env[y])
           c == SetItems(store, store.env[x], items)
<1>1. Step(next, {}, Normally(c)) /\ RunsOn(x)
  BY DEF AppendTo
<1>2. abs \in AState /\ abs.env[y] \in AbsVal
  BY DEF CellsInv, AState
<1>3. next \in AState
  BY <1>2, GrowCells
<1>4. ASSUME arm # "skipped"
      PROVE  Sound(next, {}, Normally(c))
  <2>1. IsList(store.env[x])
    BY <1>1, <1>4 DEF RunsOn
  <2> DEFINE old == ItemsOf(x)
             v == store.env[y]
  <2>2. old \in Seq(Values \cup Objs) /\ \A i \in 1..Len(old) : Refers(store, old[i])
    BY <1>4, <2>1, Receiver
  <2>3. v \in Values \cup Objs /\ Refers(store, v) /\ (ReadsBack \/ AbsOf(store, v) \in abs.env[y])
    BY <1>4, Named
  <2> HIDE DEF old, v
  <2>4. /\ items \in Seq(Values \cup Objs) /\ Len(items) > 0
        /\ \A i \in 1..Len(items) : items[i] = v \/ \E j \in 1..Len(old) : items[i] = old[j]
    <3>1. CASE front
      <4>1. items = <<v>> \o old
        BY <3>1 DEF old, v
      <4>2. <<v>> \in Seq(Values \cup Objs) /\ Len(<<v>>) = 1 /\ <<v>>[1] = v
        BY <2>3
      <4> HIDE DEF items
      <4> QED  BY <2>2, <4>1, <4>2, ConcatItems
    <3>2. CASE ~front
      <4>1. items = Append(old, v)
        BY <3>2 DEF old, v
      <4> HIDE DEF items
      <4> QED  BY <2>2, <2>3, <4>1
    <3> QED  BY <3>1, <3>2
  <2> HIDE DEF items
  <2>5. \A i \in 1..Len(items) : Refers(store, items[i])
    BY <2>2, <2>3, <2>4
  <2>6. ~ReadsBack => abs.env[y] # {} /\ \A i \in 1..Len(items) :
                        \/ \E j \in 1..Len(old) : items[i] = old[j]
                        \/ AbsOf(store, items[i]) \in abs.env[y]
    BY <2>3, <2>4
  <2>7. StoreOK(c) /\ (ReadsBack \/ Keeps(next, c))
    BY <1>2, <1>4, <2>1, <2>4, <2>5, <2>6, GrowKeeps DEF old
  <2> QED  BY <1>3, <2>7, NormallySound
<1> QED  BY <1>1, <1>3, <1>4, StepKeeps

\* x.extend(y): the elements of both are in the grown cell (the length is not, Resizes).
LEMMA ExtendKeeps ==
  ASSUME CellsInv, NEW x \in Vars, NEW y \in Vars, Extend(x, y)
  PROVE  CellsInv'
<1> DEFINE items == ItemsOf(x) \o ItemsOf(y)
           elements == Elements(abs, abs.env[y])
           next == Grow(abs, Locs(abs.env[x]), elements)
           c == SetItems(store, store.env[x], items)
<1>1. Step(next, {}, Normally(c)) /\ RunsOn(x) /\ RunsOn(y) /\ Resizes
  BY DEF Extend, Resizes
<1>2. abs \in AState /\ elements \in AbsVal
  BY ElementsCells DEF CellsInv
<1>3. next \in AState
  BY <1>2, GrowCells
<1>4. ASSUME arm # "skipped"
      PROVE  Sound(next, {}, Normally(c))
  <2>1. IsList(store.env[x]) /\ IsList(store.env[y])
    BY <1>1, <1>4 DEF RunsOn
  <2> DEFINE old == ItemsOf(x)
             more == ItemsOf(y)
             o == store.env[y][2]
             l == LocOf(store, o)
  <2>2. old \in Seq(Values \cup Objs) /\ \A i \in 1..Len(old) : Refers(store, old[i])
    BY <1>4, <2>1, Receiver
  <2>3. /\ more \in Seq(Values \cup Objs) /\ \A i \in 1..Len(more) : Refers(store, more[i])
        /\ o \in 1..Len(store.heap) /\ more = store.heap[o].items
        /\ ReadsBack \/ l \in Locs(abs.env[y])
    BY <1>4, <2>1, Receiver
  <2> HIDE DEF old, more, o
  <2>4. /\ items \in Seq(Values \cup Objs)
        /\ \A i \in 1..Len(items) : \/ \E j \in 1..Len(old) : items[i] = old[j]
                                    \/ \E j \in 1..Len(more) : items[i] = more[j]
        /\ items # <<>> => old # <<>> \/ more # <<>>
    <3>1. items = old \o more
      BY DEF old, more
    <3> HIDE DEF items
    <3>2. items \in Seq(Values \cup Objs) /\ Len(items) = Len(old) + Len(more)
      BY <2>2, <2>3, <3>1, ConcatItems
    <3>3. \A i \in 1..Len(items) : \/ \E j \in 1..Len(old) : items[i] = old[j]
                                  \/ \E j \in 1..Len(more) : items[i] = more[j]
      BY <2>2, <2>3, <3>1, ConcatItems
    <3>4. items # <<>> => old # <<>> \/ more # <<>>
      BY <2>2, <2>3, <3>2
    <3> QED  BY <3>2, <3>3, <3>4
  <2>5. Keeps(abs, store) \/ ReadsBack
    BY <1>4, Named
  <2>6. ~ReadsBack => (more # <<>> => elements # {})
    BY <1>2, <2>3, <2>5, ElementsCells DEF Keeps, KnownIn
  <2>7. ~ReadsBack /\ ~Rebuilds => \A j \in 1..Len(more) : AbsOf(store, more[j]) \in elements
    BY <1>2, <2>3, <2>5, ElementsCells DEF Keeps, ElementsIn
  <2> HIDE DEF items, elements
  <2>8. \A i \in 1..Len(items) : Refers(store, items[i])
    BY <2>2, <2>3, <2>4
  <2>9. StoreOK(c) /\ (ReadsBack \/ Keeps(next, c))
    <3>1. ~ReadsBack =>
            /\ items # <<>> => old # <<>> \/ elements # {}
            /\ ~Rebuilds => \A i \in 1..Len(items) :
                              \/ \E j \in 1..Len(old) : items[i] = old[j]
                              \/ AbsOf(store, items[i]) \in elements
      BY <2>4, <2>6, <2>7
    <3> QED  BY <1>1, <1>2, <1>4, <2>1, <2>4, <2>8, <3>1, GrowKeeps DEF old
  <2> QED  BY <1>3, <2>9, NormallySound
<1> QED  BY <1>1, <1>3, <1>4, StepKeeps

\* x.clear(): the cell is emptied only where it denotes this list alone.
LEMMA ClearKeeps ==
  ASSUME CellsInv, NEW x \in Vars, ClearList(x)
  PROVE  CellsInv'
<1> DEFINE r == Locs(abs.env[x])
           next == Clear(abs, r)
           none == <<>>
           c == SetItems(store, store.env[x], none)
<1>1. Step(next, {}, Normally(c)) /\ RunsOn(x)
  BY DEF ClearList
<1>2. abs \in AState /\ next \in AState
  BY ClearCells DEF CellsInv
<1>3. ASSUME arm # "skipped"
      PROVE  Sound(next, {}, Normally(c))
  <2>1. IsList(store.env[x])
    BY <1>1, <1>3 DEF RunsOn
  <2> DEFINE o == store.env[x][2]
             l == LocOf(store, o)
             others == (1..Len(store.heap)) \ {o}
  <2>2. o \in 1..Len(store.heap) /\ (ReadsBack \/ (l \in r /\ l \in Loc))
    BY <1>3, <2>1, Receiver
  <2>3. store \in Store
    BY DEF CellsInv, StoreOK
  <2>4. /\ next.env = abs.env
        /\ \A k \in Loc : ~StrongUpdateTarget(r, k) => next.elem[k] = abs.elem[k]
        /\ next.size = UpdateCollectionSize(abs, r, Exact(0)).size
    BY <1>2, ClearCells
  <2> HIDE DEF next, o, r
  <2>5. ASSUME ~ReadsBack
        PROVE  /\ \A p \in others : abs.elem[LocOf(store, p)] \subseteq next.elem[LocOf(store, p)]
               /\ \A p \in others, n \in Nat : SizeCovers(abs.size[LocOf(store, p)], n) =>
                                                 SizeCovers(next.size[LocOf(store, p)], n)
               /\ SizeCovers(next.size[l], 0)
    <3>1. Exact(0) \in Size /\ SizeCovers(Exact(0), 0)
      BY DEF Exact, Size, SizeKind, SizeCovers
    <3>2. \A p \in others : abs.elem[LocOf(store, p)] \subseteq next.elem[LocOf(store, p)]
      BY <2>2, <2>3, <2>4, <2>5, StrongAlone, LocOfType
    <3>3. \A p \in others, n \in Nat : SizeCovers(abs.size[LocOf(store, p)], n) =>
                                         SizeCovers(next.size[LocOf(store, p)], n)
      BY <1>2, <2>2, <2>3, <2>4, <2>5, <3>1, ResizedOthers
    <3>4. SizeCovers(next.size[l], 0)
      BY <1>2, <2>2, <2>4, <2>5, <3>1, ResizedOwn
    <3> QED  BY <3>2, <3>3, <3>4
  <2>6. none \in Seq(Values \cup Objs) /\ Len(none) = 0 /\ none = <<>>
    OBVIOUS
  <2> HIDE DEF none
  <2>7. StoreOK(c) /\ (ReadsBack \/ Keeps(next, c))
    <3>1. \A i \in 1..Len(none) : FALSE
      BY <2>6
    <3> HIDE DEF c
    <3> QED  BY <1>3, <2>1, <2>4, <2>5, <2>6, <3>1, ChangedKeeps DEF o, c
  <2> QED  BY <1>2, <2>7, NormallySound
<1> QED  BY <1>1, <1>2, <1>3, StepKeeps

\* A list that loses elements, the state standing still.
LEMMA ShrinkKeeps ==
  ASSUME CellsInv, arm # "skipped", Resizes, NEW x \in Vars, IsList(store.env[x]),
         NEW items \in Seq(Values \cup Objs),
         \A i \in 1..Len(items) : \E j \in 1..Len(ItemsOf(x)) : items[i] = ItemsOf(x)[j]
  PROVE  LET d == SetItems(store, store.env[x], items)
         IN  StoreOK(d) /\ (ReadsBack \/ Keeps(abs, d))
<1> DEFINE o == store.env[x][2]
           l == LocOf(store, o)
           old == ItemsOf(x)
<1>1. /\ o \in 1..Len(store.heap) /\ old = store.heap[o].items /\ old \in Seq(Values \cup Objs)
      /\ \A i \in 1..Len(old) : Refers(store, old[i])
  BY Receiver
<1> HIDE DEF old, o
<1>2. \A i \in 1..Len(items) : \E j \in 1..Len(old) : items[i] = old[j]
  BY DEF old
<1>3. \A i \in 1..Len(items) : Refers(store, items[i])
  BY <1>1, <1>2
<1>4. ASSUME ~ReadsBack
      PROVE  /\ items # <<>> => abs.elem[l] # {}
             /\ ~Rebuilds => \A i \in 1..Len(items) : AbsOf(store, items[i]) \in abs.elem[l]
  <2>1. Keeps(abs, store)
    BY <1>4 DEF CellsInv, Speaks
  <2>2. ASSUME items # <<>>
        PROVE  abs.elem[l] # {}
    <3>1. 1 \in 1..Len(items)
      BY <2>2
    <3>2. old # <<>>
      BY <1>1, <1>2, <3>1
    <3> QED  BY <1>1, <2>1, <3>2 DEF Keeps, KnownIn
  <2>3. ASSUME ~Rebuilds, NEW i \in 1..Len(items)
        PROVE  AbsOf(store, items[i]) \in abs.elem[l]
    <3>1. PICK j \in 1..Len(old) : items[i] = old[j]
      BY <1>2
    <3> QED  BY <1>1, <2>1, <2>3, <3>1 DEF Keeps, ElementsIn
  <2> QED  BY <2>2, <2>3
<1> QED  BY <1>3, <1>4, ChangedKeeps DEF o

\* x.pop(): what is left was there.
LEMMA PopKeeps ==
  ASSUME CellsInv, NEW x \in Vars, Pop(x)
  PROVE  CellsInv'
<1> DEFINE receiver == Locs(abs.env[x])
           items == ItemsOf(x)
           next == PopNormal(abs, receiver)
           raises == PopRaises(abs, receiver)
           results == IF items = <<>> THEN {<<store, "IndexError">>}
                      ELSE Normally(SetItems(store, store.env[x], Front(items)))
<1>1. Step(next, raises, results) /\ RunsOn(x) /\ Resizes
  BY DEF Pop, Resizes
<1>2. next \in AState \cup {NoState} /\ (next = abs \/ next = NoState)
  BY DEF PopNormal, CellsInv
<1>3. ASSUME arm # "skipped"
      PROVE  Sound(next, raises, results)
  <2>1. IsList(store.env[x])
    BY <1>1, <1>3 DEF RunsOn
  <2>2. StoreOK(store) /\ (ReadsBack \/ Keeps(abs, store))
    BY <1>3, Named
  <2>3. items \in Seq(Values \cup Objs)
    BY <1>3, <2>1, Receiver
  <2>4. CASE items = <<>>
    BY <1>1, <2>2, <2>4 DEF Sound
  <2>5. CASE items # <<>>
    <3> DEFINE front == Front(items)
               c == SetItems(store, store.env[x], front)
    <3> HIDE DEF items
    <3>1. front \in Seq(Values \cup Objs)
      BY <2>3, <2>5 DEF Front
    <3>2. \A i \in 1..Len(front) : i \in 1..Len(items) /\ front[i] = items[i]
      BY <2>3, <2>5 DEF Front
    <3> HIDE DEF front
    <3>3. StoreOK(c) /\ (ReadsBack \/ Keeps(abs, c))
      BY <1>1, <1>3, <2>1, <3>1, <3>2, ShrinkKeeps DEF items
    <3>4. results = {<<c, "normal">>}
      BY <2>5 DEF Normally, front
    <3> HIDE DEF results, c, next, raises
    <3> QED  BY <1>1, <1>2, <3>3, <3>4 DEF Sound
  <2> QED  BY <2>4, <2>5
<1> QED  BY <1>1, <1>2, <1>3, StepKeeps

\* x.remove(k): what is left was there.
LEMMA RemoveKeeps ==
  ASSUME CellsInv, NEW x \in Vars, NEW k \in Scalars, RemoveValue(x, k)
  PROVE  CellsInv'
<1> DEFINE items == ItemsOf(x)
           first == FirstAt(items, k)
           results == IF first = {} THEN {<<store, "ValueError">>}
                      ELSE {<<SetItems(store, store.env[x], RemoveAt(items, i)), "normal">> : i \in first}
<1>1. Step(abs, {"ValueError"}, results) /\ RunsOn(x) /\ Resizes
  BY DEF RemoveValue, Resizes
<1>2. abs \in AState /\ abs # NoState
  BY TagsAssumption DEF CellsInv
<1>3. ASSUME arm # "skipped"
      PROVE  Sound(abs, {"ValueError"}, results)
  <2>1. IsList(store.env[x])
    BY <1>1, <1>3 DEF RunsOn
  <2>2. StoreOK(store) /\ (ReadsBack \/ Keeps(abs, store))
    BY <1>3, Named
  <2>3. items \in Seq(Values \cup Objs)
    BY <1>3, <2>1, Receiver
  <2>4. CASE first = {}
    BY <1>1, <2>2, <2>4 DEF Sound
  <2>5. ASSUME NEW i \in first
        PROVE  LET c == SetItems(store, store.env[x], RemoveAt(items, i))
               IN  StoreOK(c) /\ (ReadsBack \/ Keeps(abs, c))
    <3> DEFINE rest == RemoveAt(items, i)
    <3> HIDE DEF items
    <3>1. i \in 1..Len(items) /\ Len(items) \in Nat
      BY <2>3 DEF FirstAt
    <3>2. rest \in Seq(Values \cup Objs)
          /\ \A p \in 1..Len(rest) : \E j \in 1..Len(items) : rest[p] = items[j]
      <4> DEFINE before == SubSeq(items, 1, i - 1)
                 after == SubSeq(items, i + 1, Len(items))
      <4>1. /\ before \in Seq(Values \cup Objs) /\ after \in Seq(Values \cup Objs)
            /\ \A j \in 1..Len(before) : before[j] = items[j] /\ j \in 1..Len(items)
            /\ \A j \in 1..Len(after) : after[j] = items[i + j] /\ i + j \in 1..Len(items)
        BY <2>3, <3>1
      <4>2. rest = before \o after
        BY DEF RemoveAt
      <4> HIDE DEF before, after, rest
      <4>3. rest \in Seq(Values \cup Objs)
        BY <4>1, <4>2, ConcatItems
      <4>4. \A p \in 1..Len(rest) : \/ \E j \in 1..Len(before) : rest[p] = before[j]
                                    \/ \E j \in 1..Len(after) : rest[p] = after[j]
        BY <4>1, <4>2, ConcatItems
      <4> QED  BY <4>1, <4>3, <4>4
    <3> HIDE DEF rest
    <3>3. LET c == SetItems(store, store.env[x], rest)
          IN  StoreOK(c) /\ (ReadsBack \/ Keeps(abs, c))
      BY <1>1, <1>3, <2>1, <3>2, ShrinkKeeps DEF items
    <3> QED  BY <3>3 DEF rest
  <2>6. CASE first # {}
    <3>1. results = {<<SetItems(store, store.env[x], RemoveAt(items, i)), "normal">> : i \in first}
      BY <2>6
    <3> HIDE DEF results, first, items
    <3> QED  BY <1>1, <1>2, <2>5, <3>1 DEF Sound
  <2> QED  BY <2>4, <2>6
<1> QED  BY <1>1, <1>2, <1>3, StepKeeps

\* Any elements a callee may have put in a list are scalars a havoc has added.
LEMMA MutatedKeeps ==
  ASSUME CellsInv, arm # "skipped", NEW x \in Vars, IsList(store.env[x]), NEW b, b.env = abs.env,
         \A l \in Loc : abs.elem[l] \subseteq b.elem[l],
         \A l \in Locs(abs.env[x]) : Scalars \subseteq b.elem[l],
         \/ Resizes
         \/ /\ \A l \in Loc : b.size[l] \in {abs.size[l], Top}
            /\ \A l \in Locs(abs.env[x]) : b.size[l] = Top,
         NEW r \in Mutated(x)
  PROVE  r[2] = "normal" /\ StoreOK(r[1]) /\ (ReadsBack \/ Keeps(b, r[1]))
<1>1. PICK n \in 0..MaxLen : \E items \in [1..n -> Scalars] :
        r = <<SetItems(store, store.env[x], items), "normal">>
  BY DEF Mutated
<1> PICK items \in [1..n -> Scalars] : r = <<SetItems(store, store.env[x], items), "normal">>
  BY <1>1
<1>2. \A k \in Scalars : /\ k \in Values \cup Objs /\ ~IsList(k)
                         /\ Refers(store, k) /\ AbsOf(store, k) = k
  BY TagsAssumption DEF Values, IsList, Refers, AbsOf
<1>3. items \in Seq(Values \cup Objs) /\ \A i \in 1..Len(items) : items[i] \in Scalars
  <2>1. items \in Seq(Scalars)
    BY BoundsAssumption
  <2> QED  BY <1>2, <2>1
<1> DEFINE o == store.env[x][2]
           l == LocOf(store, o)
           others == (1..Len(store.heap)) \ {o}
<1>4. o \in 1..Len(store.heap) /\ store \in Store /\ (ReadsBack \/ (l \in Locs(abs.env[x]) /\ l \in Loc))
  BY Receiver DEF CellsInv, StoreOK
<1>5. \A n1 \in Nat : SizeCovers(Top, n1)
  BY DEF SizeCovers, Top
<1> HIDE DEF o
<1>6. ASSUME ~ReadsBack
      PROVE  /\ \A p \in others : abs.elem[LocOf(store, p)] \subseteq b.elem[LocOf(store, p)]
             /\ items # <<>> => b.elem[l] # {}
             /\ \A i \in 1..Len(items) : AbsOf(store, items[i]) \in b.elem[l]
             /\ ~Resizes =>
                  /\ \A p \in others, n1 \in Nat : SizeCovers(abs.size[LocOf(store, p)], n1) =>
                                                    SizeCovers(b.size[LocOf(store, p)], n1)
                  /\ SizeCovers(b.size[l], Len(items))
  <2>1. \A p \in others : LocOf(store, p) \in Loc
    BY <1>4, LocOfType
  <2>2. \A i \in 1..Len(items) : AbsOf(store, items[i]) \in b.elem[l]
    BY <1>2, <1>3, <1>4, <1>6
  <2>3. items # <<>> => 1 \in 1..Len(items) /\ items[1] \in b.elem[l]
    BY <1>2, <1>3, <2>2
  <2>4. ASSUME ~Resizes, NEW p \in others, NEW n1 \in Nat, SizeCovers(abs.size[LocOf(store, p)], n1)
        PROVE  SizeCovers(b.size[LocOf(store, p)], n1)
    <3>1. b.size[LocOf(store, p)] \in {abs.size[LocOf(store, p)], Top}
      BY <2>1, <2>4
    <3> QED  BY <1>5, <2>4, <3>1
  <2>5. ~Resizes => SizeCovers(b.size[l], Len(items))
    BY <1>3, <1>4, <1>5, <1>6
  <2> QED  BY <2>1, <2>2, <2>3, <2>4, <2>5
<1>7. LET d == SetItems(store, store.env[x], items)
      IN  StoreOK(d) /\ (ReadsBack \/ Keeps(b, d))
  BY <1>2, <1>3, <1>6, ChangedKeeps DEF o
<1> QED  BY <1>7

\* A method no rule models: the havoc covers what it may store.
LEMMA OpaqueKeeps ==
  ASSUME CellsInv, NEW x \in Vars, OpaqueMethod(x)
  PROVE  CellsInv'
<1> DEFINE next == OpaqueEffect(abs, abs.env[x])
<1>1. Step(next, {}, Mutated(x)) /\ RunsOn(x)
  BY DEF OpaqueMethod
<1>2. abs \in AState
  BY DEF CellsInv
<1>3. next \in AState /\ next # NoState
  BY <1>2, OpaqueCells, TagsAssumption
<1>4. /\ next.env = abs.env
      /\ \A l \in Loc : abs.elem[l] \subseteq next.elem[l]
      /\ \A l \in Locs(abs.env[x]) : Scalars \subseteq next.elem[l]
      /\ \A l \in Loc : next.size[l] \in {abs.size[l], Top}
      /\ \A l \in Locs(abs.env[x]) : next.size[l] = Top
  BY <1>2, OpaqueCells, HavocCells
<1> HIDE DEF next
<1>5. ASSUME arm # "skipped"
      PROVE  Sound(next, {}, Mutated(x))
  <2>1. IsList(store.env[x])
    BY <1>1, <1>5 DEF RunsOn
  <2>2. \A r \in Mutated(x) : r[2] = "normal" /\ StoreOK(r[1]) /\ (ReadsBack \/ Keeps(next, r[1]))
    BY <1>4, <1>5, <2>1, MutatedKeeps
  <2> QED  BY <1>3, <2>2 DEF Sound
<1> QED  BY <1>1, <1>3, <1>5, StepKeeps

\* u[0] = x: the same, without the sizes (Resizes).
LEMMA StoreInUnknownKeeps ==
  ASSUME CellsInv, NEW x \in Vars, StoreInUnknown(x)
  PROVE  CellsInv'
<1> DEFINE next == HavocReachable(abs, abs.env[x])
           results == Mutated(x) \cup {<<store, "TypeError">>}
<1>1. Step(next, {"TypeError"}, results) /\ RunsOn(x) /\ Resizes
  BY DEF StoreInUnknown, Resizes
<1>2. abs \in AState
  BY DEF CellsInv
<1>3. next \in AState /\ next # NoState
  BY <1>2, HavocCells, TagsAssumption
<1>4. /\ next.env = abs.env
      /\ \A l \in Loc : abs.elem[l] \subseteq next.elem[l]
      /\ \A l \in Locs(abs.env[x]) : Scalars \subseteq next.elem[l]
  BY <1>2, HavocCells
<1> HIDE DEF next
<1>5. ASSUME arm # "skipped"
      PROVE  Sound(next, {"TypeError"}, results)
  <2>1. IsList(store.env[x])
    BY <1>1, <1>5 DEF RunsOn
  <2>2. \A r \in Mutated(x) : r[2] = "normal" /\ StoreOK(r[1]) /\ (ReadsBack \/ Keeps(next, r[1]))
    BY <1>1, <1>4, <1>5, <2>1, MutatedKeeps
  <2>3. StoreOK(store) /\ (ReadsBack \/ Keeps(abs, store))
    BY <1>5, Named
  <2> QED  BY <1>1, <1>3, <2>2, <2>3 DEF Sound
<1> QED  BY <1>1, <1>3, <1>5, StepKeeps

\* Entering an arm loses nothing: whichever way the program goes, the state it has is kept.
LEMMA EnterIfKeeps ==
  ASSUME CellsInv, NEW taken \in BOOLEAN, EnterIf(taken)
  PROVE  CellsInv'
<1>1. /\ uses' = uses /\ abs' = abs /\ store' = store /\ outcome' = outcome /\ entry' = abs
      /\ arm = "none" /\ arm' \in {"taken", "skipped"}
      /\ (Rebuilds' <=> Rebuilds) /\ (ReadsBack' <=> ReadsBack) /\ (Resizes' <=> Resizes)
  BY DEF EnterIf, Rebuilds, ReadsBack, Resizes
<1>2. Speaks = abs /\ Speaks' = abs
  BY <1>1 DEF Speaks
<1>3. Keeps(Speaks, store)' <=> Keeps(Speaks, store)
  BY <1>1, <1>2 DEF Keeps
<1>4. OutcomesContainedFixed'
  BY <1>1 DEF CellsInv, OutcomesContainedFixed, OutcomesContained, Contained
<1> QED  BY <1>1, <1>3, <1>4 DEF CellsInv

\* The join of the arm and the state before it covers the store of either.
LEMMA LeaveIfKeeps ==
  ASSUME CellsInv, LeaveIf
  PROVE  CellsInv'
<1>1. /\ uses' = uses /\ abs' = Join(abs, entry) /\ store' = store /\ outcome' = outcome
      /\ arm # "none" /\ arm' = "none"
      /\ (Rebuilds' <=> Rebuilds) /\ (ReadsBack' <=> ReadsBack) /\ (Resizes' <=> Resizes)
  BY DEF LeaveIf, Rebuilds, ReadsBack, Resizes
<1>2. abs \in AState /\ entry \in AState /\ store \in Store
  BY <1>1 DEF CellsInv, StoreOK
<1>3. abs' \in AState
  BY <1>1, <1>2, JoinType
<1>4. Speaks' = Join(abs, entry) /\ Speaks \in {abs, entry}
  BY <1>1 DEF Speaks
<1>5. ASSUME ~ReadsBack
      PROVE  Keeps(Join(abs, entry), store)
  <2>1. Keeps(abs, store) \/ Keeps(entry, store)
    BY <1>4, <1>5 DEF CellsInv
  <2>2. NamesIn(Join(abs, entry), store)
    BY <1>2, <2>1, JoinNames DEF Keeps
  <2>3. KnownIn(Join(abs, entry), store)
    BY <1>2, <2>1, JoinKnown DEF Keeps
  <2>4. Rebuilds \/ ElementsIn(Join(abs, entry), store)
    BY <1>2, <2>1, JoinElements DEF Keeps
  <2>5. Resizes \/ LengthsIn(Join(abs, entry), store)
    BY <1>2, <2>1, JoinLengths DEF Keeps
  <2> QED  BY <2>2, <2>3, <2>4, <2>5 DEF Keeps
<1>6. ReadsBack' \/ Keeps(Speaks, store)'
  BY <1>1, <1>4, <1>5 DEF Keeps
<1>7. OutcomesContainedFixed'
  BY <1>1 DEF CellsInv, OutcomesContainedFixed, OutcomesContained, Contained
<1> QED  BY <1>1, <1>3, <1>6, <1>7 DEF CellsInv

\* An unbound name is bound to what its value lists, and there is no list to cover.
LEMMA CellsInit ==
  Init => CellsInv
<1> SUFFICES ASSUME Init PROVE CellsInv
  OBVIOUS
<1>1. abs = EmptyState /\ store = EmptyStore /\ arm = "none"
      /\ outcome = [did |-> "normal", may |-> {"normal"}] /\ uses \in Vocabularies
  BY DEF Init
<1>2. abs \in AState
  BY <1>1 DEF EmptyState, AState, AbsVal, Size, SizeKind, Bottom
<1>3. store.heap = <<>> /\ Len(store.heap) = 0 /\ \A x \in Vars : store.env[x] = Unbound
  BY <1>1 DEF EmptyStore
<1>4. Unbound \in Values /\ ~IsList(Unbound)
  BY TagsAssumption DEF Values, IsList
<1>5. StoreOK(store)
  <2>1. store \in Store
    BY <1>1, <1>4 DEF EmptyStore, Store
  <2>2. WellFormed(store)
    BY <1>3, <1>4 DEF WellFormed, Refers
  <2> QED  BY <1>3, <2>1, <2>2, BoundsAssumption DEF StoreOK
<1>6. Keeps(abs, store)
  <2>1. NamesIn(abs, store)
    BY <1>1, <1>3, <1>4 DEF NamesIn, AbsOf, EmptyState
  <2> QED  BY <1>3, <2>1 DEF Keeps, KnownIn, ElementsIn, LengthsIn
<1>7. Speaks = abs
  BY <1>1 DEF Speaks
<1> QED  BY <1>1, <1>2, <1>5, <1>6, <1>7 DEF CellsInv, OutcomesContainedFixed, OutcomesContained, Contained

\* Standing still.
LEMMA CellsStutter ==
  ASSUME CellsInv, UNCHANGED vars
  PROVE  CellsInv'
<1>1. /\ uses' = uses /\ abs' = abs /\ entry' = entry /\ arm' = arm /\ store' = store
      /\ outcome' = outcome
  BY DEF vars
<1>2. (Rebuilds' <=> Rebuilds) /\ (ReadsBack' <=> ReadsBack) /\ (Resizes' <=> Resizes)
  BY <1>1 DEF Rebuilds, ReadsBack, Resizes
<1>3. (Keeps(Speaks, store)' <=> Keeps(Speaks, store)) /\ (Contained' <=> Contained)
  BY <1>1, <1>2 DEF Keeps, Speaks, Contained
<1> QED  BY <1>1, <1>2, <1>3 DEF CellsInv, OutcomesContainedFixed, OutcomesContained

\* The invariant holds whatever the program does.
THEOREM CellsInvariant == Spec => []CellsInv
<1>1. ASSUME CellsInv, Next
      PROVE  CellsInv'
  <2> USE <1>1
  <2>1. ASSUME NEW x \in Vars, NEW k \in Scalars, AssignScalar(x, k) PROVE CellsInv'
    BY <2>1, AssignScalarKeeps
  <2>2. ASSUME NEW x \in Vars, NEW s \in DOMAIN uses.shape, NEW k \in Scalars, Literal(x, s, k)
        PROVE  CellsInv'
    BY <2>2, LiteralKeeps
  <2>3. ASSUME NEW x \in Vars, NEW y \in Vars, NEW s \in DOMAIN uses.shape, Wrap(x, s, y)
        PROVE  CellsInv'
    BY <2>3, WrapKeeps
  <2>4. ASSUME NEW x \in Vars, NEW y \in Vars, NEW s \in DOMAIN uses.shape, Copy(x, s, y)
        PROVE  CellsInv'
    BY <2>4, CopyKeeps
  <2>5. ASSUME NEW x \in Vars, NEW y \in Vars, Alias(x, y) PROVE CellsInv'
    BY <2>5, AliasKeeps
  <2>6. ASSUME NEW x \in Vars, NEW y \in Vars, NEW i \in 0..(MaxLen - 1), Load(x, y, i)
        PROVE  CellsInv'
    BY <2>6, LoadKeeps
  <2>7. ASSUME NEW x \in Vars, NEW y \in Vars, NEW front \in BOOLEAN, AppendTo(x, y, front)
        PROVE  CellsInv'
    BY <2>7, AppendKeeps
  <2>8. ASSUME NEW x \in Vars, NEW y \in Vars, Extend(x, y) PROVE CellsInv'
    BY <2>8, ExtendKeeps
  <2>9. ASSUME NEW x \in Vars, ClearList(x) PROVE CellsInv'
    BY <2>9, ClearKeeps
  <2>10. ASSUME NEW x \in Vars, Pop(x) PROVE CellsInv'
    BY <2>10, PopKeeps
  <2>11. ASSUME NEW x \in Vars, NEW k \in Scalars, RemoveValue(x, k) PROVE CellsInv'
    BY <2>11, RemoveKeeps
  <2>12. ASSUME NEW x \in Vars, OpaqueMethod(x) PROVE CellsInv'
    BY <2>12, OpaqueKeeps
  <2>13. ASSUME NEW x \in Vars, StoreInUnknown(x) PROVE CellsInv'
    BY <2>13, StoreInUnknownKeeps
  <2>14. ASSUME NEW taken \in BOOLEAN, EnterIf(taken) PROVE CellsInv'
    BY <2>14, EnterIfKeeps
  <2>15. ASSUME LeaveIf PROVE CellsInv'
    BY <2>15, LeaveIfKeeps
  <2> QED  BY <2>1, <2>2, <2>3, <2>4, <2>5, <2>6, <2>7, <2>8, <2>9, <2>10, <2>11, <2>12,
              <2>13, <2>14, <2>15 DEF Next
<1>2. CellsInv /\ [Next]_vars => CellsInv'
  BY <1>1, CellsStutter
<1> QED  BY <1>2, CellsInit, PTL DEF Spec

-----------------------------------------------------------------------------
(* What the analysis promises. *)

\* No name is ever bound to a list its abstract value does not list, though every
\* allocation renames locations and every join forgets which is which (AState.foldRecent
\* and the transfers of list displays, methods and opaque calls): in every program
\* that does not read back what it rebuilds.
THEOREM NamesStayCovered == Spec => []NamesCoveredFixed
<1>1. CellsInv => NamesCoveredFixed
  BY DEF CellsInv, Keeps, NamesCoveredFixed, NamesCovered
<1> QED  BY <1>1, CellsInvariant, PTL

\* No element is ever in a list unseen by the element cell of its location, through
\* whatever alias it was stored: in every program of list literals.
THEOREM ElementsStayCovered == Spec => []ElementsCoveredOnce
<1>1. CellsInv => ElementsCoveredOnce
  BY DEF CellsInv, Keeps, ElementsCoveredOnce, ElementsCovered, ReadsBack
<1> QED  BY <1>1, CellsInvariant, PTL

\* The recorded size of a location always admits the length of every list it denotes,
\* so a count never survives an update through another alias: in every program
\* without extend, pop, remove and stores into unknown objects.
THEOREM LengthsStayCovered == Spec => []LengthsCoveredFixed
<1>1. CellsInv => LengthsCoveredFixed
  BY DEF CellsInv, Keeps, LengthsCoveredFixed, LengthsCovered
<1> QED  BY <1>1, CellsInvariant, PTL

\* The program never ends an operation in a way the transfer did not foresee: an index
\* proved in range does not raise, and a state is never given up that is reached.
THEOREM OutcomesStayContained == Spec => []OutcomesContainedFixed
<1>1. CellsInv => OutcomesContainedFixed
  BY DEF CellsInv
<1> QED  BY <1>1, CellsInvariant, PTL

=============================================================================
