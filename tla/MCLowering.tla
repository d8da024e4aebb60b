------------------------------ MODULE MCLowering ------------------------------
(***************************************************************************)
(* Every way out of a statement, inside every two statements that can have *)
(* an effect on it, inside a loop or none, in a function and in a class.   *)
(***************************************************************************)
EXTENDS LoweringSoundness

Op == [is |-> "op"]
Just(what) == [is |-> what]
Only(s) == <<s>>
\* What follows a way out is never run.
If(body) == [is |-> "if", body |-> body, orelse |-> <<>>]
Try(body, handlers, orelse, final) ==
  [is |-> "try", body |-> body, handlers |-> handlers, orelse |-> orelse, final |-> final]
Except(typed, named, body) == [typed |-> typed, named |-> named, body |-> body]
Anything == Except(FALSE, FALSE, <<Op>>)

\* The ways out a block can take, the last its end.
Leaf(inLoop, classBody) ==
  (IF inLoop THEN <<If(<<Just("break"), Op>>), If(<<Just("continue")>>)>> ELSE <<>>)
  \o (IF classBody THEN <<>> ELSE <<If(<<Just("return")>>)>>) \o <<If(<<Just("again")>>), Op>>

\* A statement with a hole for a body.
Shapes == <<"if", "while", "for", "with", "body", "clause", "named", "bare", "else", "protected",
            "final", "finalRaises", "clauseFinal", "assert", "loopElse">>
Around(shape, b) ==
  CASE shape = "if"     -> [is |-> "if", body |-> b, orelse |-> <<Op>>]
    [] shape = "while"  -> [is |-> "while", body |-> b, orelse |-> <<Op>>]
    [] shape = "for"    -> [is |-> "for", body |-> b, orelse |-> <<>>]
    [] shape = "with"   -> [is |-> "with", body |-> b]
    [] shape = "body"   -> Try(b, <<Except(TRUE, FALSE, <<Op>>)>>, <<>>, <<>>)
    [] shape = "clause" -> Try(<<Op>>, <<Except(TRUE, FALSE, b)>>, <<>>, <<>>)
    [] shape = "named"  -> Try(<<Op>>, <<Except(TRUE, TRUE, b), Anything>>, <<>>, <<>>)
    [] shape = "bare"   -> Try(<<Op>>, <<Except(TRUE, FALSE, <<>>), Except(FALSE, FALSE, b)>>, <<>>, <<>>)
    [] shape = "else"   -> Try(<<Op>>, <<Except(TRUE, FALSE, <<>>)>>, b, <<>>)
    [] shape = "protected"  -> Try(b, <<>>, <<>>, <<Op>>)
    [] shape = "final"      -> Try(<<Op>>, <<>>, <<>>, b)
    [] shape = "finalRaises" -> Try(<<Op>>, <<>>, <<>>, b \o <<Just("raise")>>)
    [] shape = "clauseFinal" -> Try(<<Just("raise")>>, <<Except(TRUE, TRUE, b)>>, <<>>, <<Op>>)
    [] shape = "assert"     -> Try(<<Just("assert"), Op>>, <<Except(TRUE, FALSE, <<>>)>>, b, <<>>)
    [] shape = "loopElse"   -> [is |-> "while", body |-> <<Op>>, orelse |-> b]

Loops == <<"none", "while">>
ProgramOf(loop, outer, inner, classBody) ==
  LET inLoop == {loop, outer, inner} \cap {"while", "for"} # {}
      nested == <<Around(outer, <<Around(inner, Leaf(inLoop, classBody))>>), Op>>
  IN  Lowered(classBody, IF loop = "none" THEN nested ELSE <<Around(loop, nested)>>)

MCPrograms ==
  LET n == Len(Shapes)
  IN  [p \in 1..(4 * n * n) |->
         LET q == p - 1
         IN  ProgramOf(Loops[(q % 2) + 1], Shapes[((q \div 4) % n) + 1], Shapes[(q \div (4 * n)) + 1],
                       (q \div 2) % 2 = 1)] \o <<>>
MCCallers == {NoExc, <<"caller", <<>>, FALSE>>}
=============================================================================
