---------------------------- MODULE PythonStore -----------------------------
(***************************************************************************)
(* The concrete side: names and list objects as CPython keeps them, and    *)
(* what it means for an abstract state to cover a concrete store.  This is *)
(* not code of the repository; it is the reference Pylate's transfers      *)
(* claim to over-approximate.                                              *)
(*                                                                         *)
(* Objects are numbered in allocation order, so the last object of a site  *)
(* is the one its recent location denotes and every earlier one is in the  *)
(* summary.                                                                *)
(***************************************************************************)
EXTENDS AbstractState, Sequences

CONSTANTS MaxObjs,   \* bound: list objects allocated in one run
          MaxLen     \* bound: elements of one list

ObjVal(o) == <<"obj", o>>
Objs == {ObjVal(o) : o \in 1..MaxObjs}

Values == Scalars \cup {Unbound}

\* Scalars, references, locations and states are told apart by their tags.
ASSUME TagsAssumption ==
  /\ Values \cap Objs = {} /\ Values \cap Loc = {}
  /\ NoState \notin AState
ASSUME BoundsAssumption == MaxObjs \in Nat /\ MaxLen \in Nat

EmptyStore == [env |-> [x \in Vars |-> Unbound], heap |-> <<>>]

IsList(v) == v \in Objs
Deref(c, v) == c.heap[v[2]]

\* The location that denotes object number o in store c.
LocOf(c, o) ==
  <<c.heap[o].site, \A p \in 1..Len(c.heap) : p > o => c.heap[p].site # c.heap[o].site>>

AbsOf(c, v) == IF IsList(v) THEN LocOf(c, v[2]) ELSE v

\* Every name is bound to something its abstract value lists.
NamesIn(a, c) == \A x \in Vars : AbsOf(c, c.env[x]) \in a.env[x]

\* Every element of every list is in the element cell of the location that denotes the list.
ElementsIn(a, c) ==
  \A o \in 1..Len(c.heap) : \A i \in 1..Len(c.heap[o].items) :
    AbsOf(c, c.heap[o].items[i]) \in a.elem[LocOf(c, o)]

\* The recorded size of a location admits the length of every list it denotes.
LengthsIn(a, c) ==
  \A o \in 1..Len(c.heap) : SizeCovers(a.size[LocOf(c, o)], Len(c.heap[o].items))

Covers(a, c) == a # NoState /\ NamesIn(a, c) /\ ElementsIn(a, c) /\ LengthsIn(a, c)

Bind(c, x, v) == [c EXCEPT !.env[x] = v]
SetItems(c, v, items) == [c EXCEPT !.heap[v[2]].items = items]
NewList(c, x, s, items) ==
  [env  |-> [c.env EXCEPT ![x] = ObjVal(Len(c.heap) + 1)],
   heap |-> Append(c.heap, [site |-> s, items |-> items])]
=============================================================================
