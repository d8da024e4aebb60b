-------------------------- MODULE MCCollectionCells -------------------------
(* Instances of CollectionCells for TLC. *)
EXTENDS CollectionCells, TLC

CONSTANTS vx, vy, num, A, B

VarsDef == {vx, vy}
ScalarsDef == {num}
SitesDef == {A, B}

Vocabulary(ops, shape, width) == [ops |-> ops, shape |-> shape, width |-> width]

\* Two literals, an empty one and one of two elements.
Literals == Vocabulary({"scalar", "alias", "load", "append", "clear", "opaque", "if"},
                       [s \in {A, B} |-> "literal"], (A :> 0) @@ (B :> 2))
\* Every method, on the lists of one literal.
Methods == Vocabulary({"alias", "load", "append", "extend", "pop", "remove", "clear",
                       "opaque", "unknown"}, A :> "literal", A :> 1)
\* Lists made from lists.
Nested == Vocabulary({"scalar", "alias", "append", "clear", "if"},
                     (A :> "wrap") @@ (B :> "copy"), (A :> 0) @@ (B :> 0))
Supported == {Literals, Methods, Nested}

PopTwice    == {Vocabulary({"pop"}, A :> "literal", A :> 1)}
ExtendEmpty == {Vocabulary({"extend"}, A :> "literal", A :> 0)}
StoreAway   == {Vocabulary({"unknown"}, A :> "literal", A :> 0)}
WrapAgain   == {Vocabulary({"scalar"}, A :> "wrap", A :> 0)}
=============================================================================
