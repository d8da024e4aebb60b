----------------------------- MODULE PythonExits -----------------------------
(***************************************************************************)
(* How CPython runs the statements the lowering takes: a stack of what is  *)
(* under way, the innermost last, and the completion that is leaving it.   *)
(* The exception being handled is that of the innermost frame with one,    *)
(* else the caller's.  A name an except clause binds is unbound on every   *)
(* way out of it: by an exception while the clause's own is still the one  *)
(* handled, otherwise after it no longer is.                               *)
(***************************************************************************)
EXTENDS PyStatements, Integers

Frame(doing, s, at) ==
  [doing |-> doing, s |-> s, at |-> at, i |-> 0, exc |-> NoExc, pending |-> <<>>]
Statements(ss, at) == [Frame("statements", ss, at) EXCEPT !.i = 1]

\* leaving is <<>> while the innermost frame is to go on.
Called(ss, caller) == [frames |-> <<Statements(ss, <<>>)>>, leaving |-> <<>>, caller |-> caller]

Normal       == Completed("normal", NoExc)
Raises(e)    == Completed("raise", e)
Operations   == {"op", "value", "raise", "test", "iter", "next", "target", "enter", "astarget",
                 "match", "bind", "unbind", "exitexc", "exit"}

Top(py)   == py.frames[Len(py.frames)]
Under(py) == SubSeq(py.frames, 1, Len(py.frames) - 1)
Returned(py) == py.frames = <<>>
AwaitsOutcome(py) == ~Returned(py) /\ py.leaving = <<>> /\ Top(py).doing \in Operations

Handled(py) ==
  LET handling == {i \in DOMAIN py.frames : py.frames[i].exc # NoExc}
  IN  IF handling = {} THEN py.caller
      ELSE py.frames[CHOOSE i \in handling : \A j \in handling : j <= i].exc

Asks(py) ==
  [op |-> <<Top(py).doing, Top(py).at>>, handled |-> Handled(py),
   on |-> IF Top(py).doing \in {"match", "bind", "exitexc"} THEN Top(py).exc ELSE NoExc]

----------------------------------------------------------------------------

Replace(py, frames) == [py EXCEPT !.frames = Under(py) \o frames, !.leaving = <<>>]
Leave(py, completion) == [py EXCEPT !.frames = Under(py), !.leaving = completion]

\* The clauses from the i-th on, handling e.
TryClauses(s, at, i, e) ==
  LET here == [Frame("clause", s.handlers[i], Clause(at, i)) EXCEPT !.exc = e]
      h    == s.handlers[i]
  IN  IF h.typed THEN <<[here EXCEPT !.doing = "match", !.s = s, !.i = i]>>
      ELSE IF h.named THEN <<[here EXCEPT !.doing = "bind"]>>
      ELSE <<here, Statements(h.body, Body(here.at))>>

\* The next statement of a list.
Begin(py) ==
  LET list == Top(py)
      s    == list.s[list.i]
      at   == list.at \o <<list.i>>
      on   == [py EXCEPT !.frames[Len(py.frames)].i = @ + 1]
      Push(frames) == [on EXCEPT !.frames = @ \o frames]
  IN  IF list.i > Len(list.s) THEN Leave(py, Normal)
      ELSE CASE s.is = "op"     -> Push(<<Frame("op", s, at)>>)
             [] s.is = "return" -> Push(<<Frame("value", s, at)>>)
             [] s.is = "raise"  -> Push(<<Frame("raise", s, at)>>)
             [] s.is \in {"break", "continue"} -> [on EXCEPT !.leaving = Completed(s.is, NoExc)]
             [] s.is = "again"  ->
                  [on EXCEPT !.leaving = Raises(IF Handled(py) = NoExc THEN NothingActive ELSE Handled(py))]
             [] s.is \in {"if", "while", "assert"} -> Push(<<Frame("test", s, at)>>)
             [] s.is = "for"    -> Push(<<Frame("iter", s, at)>>)
             [] s.is = "with"   -> Push(<<Frame("enter", s, at)>>)
             [] s.is = "try"    ->
                  Push((IF s.final = <<>> THEN <<>> ELSE <<Frame("protected", s, at)>>)
                       \o (IF s.handlers = <<>> THEN <<>> ELSE <<Frame("try", s, at)>>)
                       \o <<Statements(s.body, Body(at))>>)

\* A completion reaches the innermost frame.
Reach(py) ==
  LET f    == Top(py)
      how  == py.leaving.how
      e    == py.leaving.value
      Out  == Leave(py, py.leaving)
  IN  CASE f.doing = "statements" -> IF how = "normal" THEN [py EXCEPT !.leaving = <<>>] ELSE Out
        [] f.doing \in {"while", "for"} ->
             IF how \in {"normal", "continue"}
             THEN Replace(py, <<Frame(IF f.doing = "while" THEN "test" ELSE "next", f.s, f.at)>>)
             ELSE IF how = "break" THEN Leave(py, Normal) ELSE Out
        [] f.doing = "try" ->
             IF how = "normal" THEN Replace(py, <<Statements(f.s.orelse, OrElse(f.at))>>)
             ELSE IF how = "raise" THEN Replace(py, TryClauses(f.s, f.at, 1, e)) ELSE Out
        [] f.doing = "clause" ->
             IF ~f.s.named THEN Out
             ELSE Replace(py, <<[f EXCEPT !.doing = "unbind", !.pending = py.leaving,
                                          !.exc = IF how = "raise" THEN @ ELSE NoExc]>>)
        [] f.doing = "protected" ->
             Replace(py, <<[f EXCEPT !.doing = "final", !.pending = py.leaving,
                                     !.exc = IF how = "raise" THEN e ELSE NoExc],
                           Statements(f.s.final, Final(f.at))>>)
        [] f.doing = "final" -> IF how = "normal" THEN Leave(py, f.pending) ELSE Out
        [] f.doing = "with"  ->
             IF how = "raise" THEN Replace(py, <<[f EXCEPT !.doing = "exitexc", !.exc = e]>>)
             ELSE Replace(py, <<[f EXCEPT !.doing = "exit", !.pending = py.leaving]>>)

Proceed(py) == IF py.leaving = <<>> THEN Begin(py) ELSE Reach(py)

----------------------------------------------------------------------------

\* An operation that did not raise.
Succeed(py, outcome) ==
  LET f   == Top(py)
      yes == outcome.how = "yes"
      OrElseBody == <<Statements(f.s.orelse, OrElse(f.at))>>
      Inside(doing) == <<Frame(doing, f.s, f.at), Statements(f.s.body, Body(f.at))>>
  IN  CASE f.doing = "op"     -> Leave(py, Normal)
        [] f.doing = "value"  -> Leave(py, Completed("return", outcome.value))
        [] f.doing = "raise"  -> Leave(py, Raises(outcome.value))
        [] f.doing = "test" /\ f.s.is = "assert" ->
             IF yes THEN Leave(py, Normal) ELSE Replace(py, <<[f EXCEPT !.doing = "raise"]>>)
        [] f.doing = "test" /\ f.s.is # "assert" ->
             IF ~yes THEN Replace(py, OrElseBody)
             ELSE Replace(py, IF f.s.is = "if" THEN <<Statements(f.s.body, Body(f.at))>> ELSE Inside("while"))
        [] f.doing = "iter"   -> Replace(py, <<Frame("next", f.s, f.at)>>)
        [] f.doing = "next"   -> Replace(py, <<Frame("target", f.s, f.at)>>)
        [] f.doing = "target" -> Replace(py, Inside("for"))
        [] f.doing = "enter"  -> Replace(py, <<Frame("with", f.s, f.at), Frame("astarget", f.s, f.at)>>)
        [] f.doing = "astarget" -> Replace(py, <<Statements(f.s.body, Body(f.at))>>)
        [] f.doing = "match"  ->
             LET h    == f.s.handlers[f.i]
                 here == [Frame("clause", h, f.at) EXCEPT !.exc = f.exc]
                 try  == SubSeq(f.at, 1, Len(f.at) - 2)
             IN  IF yes THEN Replace(py, IF h.named THEN <<[here EXCEPT !.doing = "bind"]>>
                                         ELSE <<here, Statements(h.body, Body(f.at))>>)
                 ELSE IF f.i = Len(f.s.handlers) THEN Leave(py, Raises(f.exc))
                 ELSE Replace(py, TryClauses(f.s, try, f.i + 1, f.exc))
        [] f.doing = "bind"   -> Replace(py, <<[f EXCEPT !.doing = "clause"], Statements(f.s.body, Body(f.at))>>)
        [] f.doing \in {"unbind", "exit"} -> Leave(py, f.pending)
        [] f.doing = "exitexc" -> Leave(py, IF yes THEN Normal ELSE Raises(f.exc))

\* next's StopIteration ends the loop.
Take(py, outcome) ==
  IF outcome.how # "raise" THEN Succeed(py, outcome)
  ELSE IF Top(py).doing = "next" /\ IsStop(outcome.value)
  THEN Replace(py, <<Statements(Top(py).s.orelse, OrElse(Top(py).at))>>)
  ELSE Leave(py, Raises(outcome.value))

\* What the function gives its caller; falling off its end returns None.
Gives(py) == IF py.leaving.how = "normal" THEN Completed("return", NoExc) ELSE py.leaving
=============================================================================
