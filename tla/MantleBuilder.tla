---------------------------- MODULE MantleBuilder ----------------------------
(***************************************************************************)
(* The function builder (StrataMantle/Build.lean): the block that is open, *)
(* the blocks finished so far and the labels used.  Misuse is recorded and *)
(* the building goes on; a function is one only when nothing was recorded. *)
(* Fresh names are named after the statement they are made for; a value a  *)
(* block takes or an instruction gives is NoValue when there is none.      *)
(***************************************************************************)
EXTENDS Sequences

NoLabel == <<>>
NoValue == <<>>

NewBuilder ==
  [label |-> NoLabel, param |-> NoValue, instrs |-> <<>>, blocks |-> <<>>, labels |-> {},
   errors |-> {}]

IsOpen(b) == b.label # NoLabel

Misuse(b, what) == [b EXCEPT !.errors = @ \cup {what}]

Emit(b, instr) ==
  IF IsOpen(b) THEN [b EXCEPT !.instrs = Append(@, instr)] ELSE Misuse(b, "no block open")

\* Opening a block loses the one that is open.
Opened(b, label, param) ==
  [b EXCEPT !.labels = @ \cup {label}, !.label = label, !.param = param, !.instrs = <<>>]
StartBlock(b, label, param) ==
  LET lost  == IF IsOpen(b) THEN Misuse(b, "opened while open") ELSE b
      twice == IF label \in b.labels THEN Misuse(lost, "opened twice") ELSE lost
  IN  Opened(twice, label, param)

FinishBlock(b, term) ==
  IF IsOpen(b)
  THEN [b EXCEPT !.blocks = Append(@, [label |-> b.label, param |-> b.param,
                                       instrs |-> b.instrs, term |-> term]),
                 !.label = NoLabel, !.param = NoValue, !.instrs = <<>>]
  ELSE Misuse(b, "no block to finish")

CheckClosed(b) == IF IsOpen(b) THEN Misuse(b, "ends open") ELSE b
=============================================================================
