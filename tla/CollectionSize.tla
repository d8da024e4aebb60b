--------------------------- MODULE CollectionSize ---------------------------
(***************************************************************************)
(* The collection-size domain of Pylate (Pylate/Domains/Emptiness.lean):   *)
(* a flat layer of exact counts between bottom and "positive", and the     *)
(* four-point emptiness lattice it refines.                                *)
(*                                                                         *)
(* A size is a record so that every point of the lattice has one shape;    *)
(* the count is 0 wherever the kind carries none.                          *)
(***************************************************************************)
EXTENDS Naturals

SizeKind == {"bottom", "exact", "positive", "top"}

Bottom   == [kind |-> "bottom",   count |-> 0]
Positive == [kind |-> "positive", count |-> 0]
Top      == [kind |-> "top",      count |-> 0]
Exact(n) == [kind |-> "exact",    count |-> n]

Size == {s \in [kind : SizeKind, count : Nat] : s.kind # "exact" => s.count = 0}

Emptiness == {"bottom", "empty", "nonempty", "top"}

-----------------------------------------------------------------------------
(* The two lattices. *)

SizeJoin(a, b) ==
  CASE a = Bottom -> b
    [] b = Bottom -> a
    [] a = Top \/ b = Top -> Top
    [] a.kind = "exact" /\ a = b -> a
    [] OTHER -> IF (a.kind = "exact" /\ a.count = 0) \/ (b.kind = "exact" /\ b.count = 0)
                THEN Top ELSE Positive

SizeLe(a, b) ==
  \/ a = Bottom
  \/ b = Top
  \/ a = b
  \/ a.kind = "exact" /\ a.count > 0 /\ b = Positive

EmptinessJoin(a, b) ==
  CASE a = "bottom" -> b
    [] b = "bottom" -> a
    [] a = b -> a
    [] OTHER -> "top"

EmptinessLe(a, b) == a = "bottom" \/ b = "top" \/ a = b

\* What a size implies about emptiness, and the coarsest size with a given one.
SizeEmptiness(s) ==
  CASE s = Bottom   -> "bottom"
    [] s = Exact(0) -> "empty"
    [] s = Top      -> "top"
    [] OTHER        -> "nonempty"

OfEmptiness(e) ==
  CASE e = "bottom"   -> Bottom
    [] e = "empty"    -> Exact(0)
    [] e = "nonempty" -> Positive
    [] OTHER          -> Top

\* The lengths a size denotes: the meaning every reader relies on.
SizeCovers(s, len) ==
  CASE s.kind = "bottom"   -> FALSE
    [] s.kind = "exact"    -> len = s.count
    [] s.kind = "positive" -> len > 0
    [] OTHER               -> TRUE
=============================================================================
