-------------------------- MODULE StatementLowering --------------------------
(***************************************************************************)
(* The lowering of one statement and of a statement list: TransStmts(t,    *)
(* ss, at) goes on from the translator t with the statements ss at the     *)
(* place at.                                                               *)
(***************************************************************************)
EXTENDS ExitLowering

RECURSIVE TransStmts(_, _, _)

JumpIfOpen(t, label) == IF IsOpen(t) THEN Jump(t, label, NoValue) ELSE t
StartIfTargeted(t, label) == IF label \in t.targeted THEN StartBlock(t, label, NoValue) ELSE t

\* transCond: the test is one operation, and either outcome goes to its block.
Cond(t, at, yes, no) ==
  Branch(RecordTarget(RecordTarget(Failing(t, "test", at, NoValue), yes), no),
         <<"test", at>>, Goto(yes, NoValue), Goto(no, NoValue))

IfStmt(t, s, at) ==
  LET then   == <<"then", at>>
      else   == <<"else", at>>
      join   == <<"join", at>>
      tested == Cond(t, at, then, else)
      body   == JumpIfOpen(TransStmts(StartBlock(tested, then, NoValue), s.body, Body(at)), join)
      orelse == JumpIfOpen(TransStmts(StartBlock(body, else, NoValue), s.orelse, OrElse(at)), join)
  IN  StartIfTargeted(orelse, join)

LoopElse(t, s, at) ==
  IF s.orelse = <<>> THEN t
  ELSE LET else == StartBlock(t, <<"else", at>>, NoValue)
       IN  JumpIfOpen(TransStmts(else, s.orelse, OrElse(at)), <<"exit", at>>)
LoopEnd(s, at) == IF s.orelse = <<>> THEN <<"exit", at>> ELSE <<"else", at>>

WhileStmt(t, s, at) ==
  LET head   == <<"head", at>>
      exit   == <<"exit", at>>
      body   == <<"body", at>>
      tested == Cond(StartBlock(Jump(t, head, NoValue), head, NoValue), at, body, LoopEnd(s, at))
      inner  == WithExit(StartBlock(tested, body, NoValue), Loop(exit, head))
      looped == TransStmts(inner, s.body, Body(at))
  IN  StartIfTargeted(LoopElse(JumpIfOpen(After(looped, t), head), s, at), exit)

ForStmt(t, s, at) ==
  LET head     == <<"head", at>>
      stop     == <<"stop", at>>
      exit     == <<"exit", at>>
      exc      == <<"stopexc", at>>
      headed   == StartBlock(Jump(Failing(t, "iter", at, NoValue), head, NoValue), head, NoValue)
      item     == Failing(WithHandler(headed, stop), "next", at, NoValue)
      assigned == Failing(After(item, t), "target", at, NoValue)
      looped   == TransStmts(WithExit(assigned, Loop(exit, head)), s.body, Body(at))
      done     == Emit(StartBlock(JumpIfOpen(After(looped, t), head), stop, exc),
                       Instr("isStop", <<>>, exc, <<"done", at>>, NoLabel))
      stopped  == Branch(RecordTarget(done, LoopEnd(s, at)), <<"done", at>>,
                         Goto(LoopEnd(s, at), NoValue), Goto(t.handler, exc))
  IN  StartIfTargeted(LoopElse(stopped, s, at), exit)

RaiseStmt(t, at) == LET x == Failing(t, "raise", at, NoValue) IN Raise(x, <<"raise", at>>)

AssertStmt(t, at) ==
  LET ok   == <<"ok", at>>
      fail == <<"fail", at>>
  IN  StartBlock(RaiseStmt(StartBlock(Cond(t, at, ok, fail), fail, NoValue), at), ok, NoValue)

BareRaise(t, at) ==
  IF t.handled # NoValue THEN Raise(t, t.handled)
  ELSE LET exc == <<"handledExc", at>>
       IN  Raise(Emit(t, Instr("handled", <<>>, NoValue, exc, t.handler)), exc)

ReturnStmt(t, at) == ExitWalk(Failing(t, "value", at, NoValue), "return", <<"value", at>>, at)

ExceptClause(t, h, exc, prev, join, unwind, outer, at) ==
  LET name  == IF h.named THEN at ELSE <<>>
      clear == <<"clear", at>>
      left  == Handler(prev, name, outer)
      bound == IF h.named THEN WriteName(t, "bind", at, exc) ELSE t
      inner == WithHandler(WithExit(bound, left), IF h.named THEN clear ELSE unwind)
      run   == After(TransStmts(inner, h.body, Body(at)), t)
      ended == IF IsOpen(run) THEN Jump(LeaveHandler(run, left), join, NoValue) ELSE run
      x     == <<"clearexc", at>>
  IN  IF h.named THEN Jump(UnbindName(StartBlock(ended, clear, x), at), unwind, x) ELSE ended

\* The clauses in turn; a clause without a type is the last.
Clauses(t, s, exc, prev, join, unwind, outer, at) ==
  LET Run(u, i) == After(ExceptClause(WithHandled(u, exc), s.handlers[i], exc, prev, join, unwind,
                                      outer, Clause(at, i)), t)
      after[i \in 0..Len(s.handlers)] ==
        IF i = 0 THEN t
        ELSE LET u    == after[i - 1]
                 here == Clause(at, i)
                 body == <<"except", here>>
                 next == <<"next", here>>
                 m    == Branch(RecordTarget(RecordTarget(Failing(u, "match", here, exc), body), next),
                                <<"match", here>>, Goto(body, NoValue), Goto(next, NoValue))
             IN  IF s.handlers[i].typed
                 THEN StartBlock(Run(StartBlock(m, body, NoValue), i), next, NoValue)
                 ELSE Run(u, i)
      tried == after[Len(s.handlers)]
  IN  IF IsOpen(tried) THEN Jump(tried, unwind, exc) ELSE tried

TryStmt(t, s, at) ==
  LET outer  == t.handler
      catch  == <<"catch", at>>
      unwind == <<"unwind", at>>
      join   == <<"join", at>>
      exc    == <<"caught", at>>
      prev   == <<"prev", at>>
      x      == <<"unwound", at>>
      body   == After(TransStmts(WithHandler(t, catch), s.body, Body(at)), t)
      orelse == IF IsOpen(body) THEN JumpIfOpen(TransStmts(body, s.orelse, OrElse(at)), join) ELSE body
      caught == Emit(StartBlock(orelse, catch, exc), Instr("push", <<>>, exc, prev, NoLabel))
      tried  == Clauses(WithHandler(caught, unwind), s, exc, prev, join, unwind, outer, at)
      popped == PopExcept(StartBlock(After(tried, t), unwind, x), prev)
  IN  StartIfTargeted(BuildJump(popped, outer, x), join)

\* `inside` is t after the protected statements, under the handler FinallyRaise(at).
FinallyRaise(at) == <<"finRaise", at>>
Protect(inside, t, fin, at) ==
  LET x      == <<"raised", at>>
      norm   == at \o <<8>>
      exc    == at \o <<9>>
      body   == After(inside, t)
      ended  == IF IsOpen(body) THEN BuildJump(Complete(body, "normal", NoValue, norm), fin, <<"comp", norm>>)
                ELSE body
  IN  BuildJump(Complete(StartBlock(ended, FinallyRaise(at), x), "raise", x, exc), fin, <<"comp", exc>>)

TryFinallyStmt(t, s, at) ==
  LET outer      == t.handler
      fin        == <<"fin", at>>
      join       == <<"finjoin", at>>
      superseded == <<"superseded", at>>
      pending    == <<"pending", at>>
      prev       == <<"finprev", at>>
      x          == <<"superseding", at>>
      inner      == WithExit(WithHandler(t, FinallyRaise(at)), Cleanup(fin))
      inside     == IF s.handlers = <<>> THEN TransStmts(inner, s.body, Body(at)) ELSE TryStmt(inner, s, at)
      protected  == Protect(inside, t, fin, at)
      entered    == Emit(StartBlock(protected, fin, pending), Instr("pending", <<>>, pending, prev, NoLabel))
      finally    == WithExit(WithHandled(WithHandler(entered, superseded), NoValue),
                             Handler(prev, <<>>, outer))
      final      == After(TransStmts(finally, s.final, Final(at)), t)
      finished   == IsOpen(final)
      arms       == IF finished THEN DispatchArms(PopExcept(final, prev), pending, join, at) ELSE final
      after      == BuildJump(PopExcept(StartBlock(arms, superseded, x), prev), outer, x)
  IN  IF finished THEN StartBlock(after, join, NoValue) ELSE after

WithStmt(t, s, at) ==
  LET outer    == t.handler
      wexc     == <<"wexc", at>>
      fin      == <<"fin", at>>
      join     == <<"join", at>>
      unwind   == <<"unwind", at>>
      suppress == <<"suppress", at>>
      exc      == <<"caught", at>>
      prev     == <<"prev", at>>
      x        == <<"unwound", at>>
      pending  == <<"pending", at>>
      norm     == at \o <<8>>
      entered  == Failing(t, "enter", at, NoValue)
      inner    == WithHandler(WithExit(entered, Cleanup(fin)), wexc)
      body     == After(TransStmts(Failing(inner, "astarget", at, NoValue), s.body, Body(at)), t)
      ended    == IF IsOpen(body) THEN Jump(Complete(body, "normal", NoValue, norm), fin, <<"comp", norm>>)
                  ELSE body
      caught   == Emit(StartBlock(ended, wexc, exc), Instr("push", <<>>, exc, prev, NoLabel))
      asked    == Failing(WithHandler(caught, unwind), "exitexc", at, exc)
      exited   == After(Branch(RecordTarget(RecordTarget(asked, suppress), unwind), <<"exitexc", at>>,
                               Goto(suppress, NoValue), Goto(unwind, exc)), t)
      silent   == Jump(PopExcept(StartBlock(exited, suppress, NoValue), prev), join, NoValue)
      unwound  == BuildJump(PopExcept(StartBlock(silent, unwind, x), prev), outer, x)
      left     == Failing(StartBlock(unwound, fin, pending), "exit", at, NoValue)
      finished == IF fin \in unwound.targeted THEN DispatchArms(left, pending, join, at) ELSE unwound
  IN  StartBlock(finished, join, NoValue)

Stmt(t, s, at) ==
  CASE s.is = "op"     -> Failing(t, "op", at, NoValue)
    [] s.is = "return" -> ReturnStmt(t, at)
    [] s.is \in {"break", "continue"} -> ExitWalk(t, s.is, NoValue, at)
    [] s.is = "raise"  -> RaiseStmt(t, at)
    [] s.is = "assert" -> AssertStmt(t, at)
    [] s.is = "again"  -> BareRaise(t, at)
    [] s.is = "if"     -> IfStmt(t, s, at)
    [] s.is = "while"  -> WhileStmt(t, s, at)
    [] s.is = "for"    -> ForStmt(t, s, at)
    [] s.is = "with"   -> WithStmt(t, s, at)
    [] s.is = "try"    -> IF s.final = <<>> THEN TryStmt(t, s, at) ELSE TryFinallyStmt(t, s, at)

\* What follows a statement that ends every path is skipped.
TransStmts(t, ss, at) ==
  LET after[i \in 0..Len(ss)] ==
        IF i = 0 THEN t
        ELSE LET u == after[i - 1] IN IF IsOpen(u) THEN Stmt(u, ss[i], at \o <<i>>) ELSE u
  IN  after[Len(ss)]
=============================================================================
