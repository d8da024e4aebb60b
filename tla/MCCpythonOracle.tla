-------------------------- MODULE MCCpythonOracle --------------------------
(* Two methods whose programs create the same file, and two releases: enough for a    *)
(* record, a check of it, a method that goes or changes, and a program beside another. *)
EXTENDS CpythonOracle

MCMakesFile == Methods
All       == [matching |-> Methods, keep |-> FALSE, update |-> FALSE]
KeepingUpdate == [All EXCEPT !.keep = TRUE, !.update = TRUE]

MCFlags    == <<{KeepingUpdate, All}, {All}>>
MCFiltered == <<{KeepingUpdate}, {[All EXCEPT !.matching = {"m1"}]}>>
=============================================================================
