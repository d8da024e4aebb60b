---------------------------- MODULE MCPySpecCache ----------------------------
(* Instances of PySpecCache: a module that imports a package and what the     *)
(* package imports, with sources that drop a type, are not translatable,      *)
(* name a missing module or import each other.                                *)
EXTENDS PySpecCache

MCModules  == {"app", "pkg", "base", "gone"}
MCPackages == {"pkg"}
MCNames    == {"T"}

Imp(m)           == [from |-> m, name |-> "T"]
Src(own, imports) == [sound |-> TRUE, own |-> own, imports |-> imports]
Wrong(own, imports) == [Src(own, imports) EXCEPT !.sound = FALSE]

MCRequests       == {{"app"}, {"app", "pkg", "base"}}

MCTextsOf == [m \in MCModules |->
  CASE m = "base" -> {Src({"T"}, <<>>), Src({}, <<>>), Wrong({"T"}, <<>>)}
    [] m = "pkg"  -> {Src({}, <<Imp("base")>>), Src({"T"}, <<Imp("app")>>), Wrong({}, <<Imp("base")>>)}
    [] m = "app"  -> {Src({"T"}, <<Imp("pkg"), Imp("base")>>), Src({}, <<Imp("gone"), Imp("pkg")>>)}
    [] OTHER      -> {}]
=============================================================================
