----------------------------- MODULE ExitLowering -----------------------------
(***************************************************************************)
(* The lowering of Python's exits to blocks (Mantle/Translate.lean with    *)
(* the emitters of Mantle/Build.lean): handlers, what a break, continue or *)
(* return leaves through, completions and their dispatch.  The             *)
(* translator's state is the builder's with `handler` (where a failure     *)
(* goes), `handled` (what a bare raise in a clause raises), `exits`,       *)
(* `targeted` and `classBody`.  A statement's place in the function, `at`, *)
(* names the labels, values and operations made for it.  The operands of a *)
(* statement are one operation; the pre-bound arguments of a handler are   *)
(* left out, no statement gives any.                                       *)
(***************************************************************************)
EXTENDS MantleBuilder, PyStatements, Integers, TLC

Translator(classBody) ==
  NewBuilder @@ [handler |-> <<"propagate", <<>>>>, handled |-> NoValue, exits |-> <<>>,
                 targeted |-> {}, classBody |-> classBody]

----------------------------------------------------------------------------
(* Instructions and ends of blocks. *)

Instr(kind, what, on, res, err) ==
  [kind |-> kind, what |-> what, on |-> on, res |-> res, err |-> err]
Goto(label, arg) == [to |-> label, arg |-> arg]
End(kind, on, succs) == [kind |-> kind, on |-> on, succs |-> succs]

\* An operation that may fail, which goes to the handler.
Failing(t, op, at, on) == Emit(t, Instr("op", <<op, at>>, on, <<op, at>>, t.handler))
\* A name is written to a cell, which cannot fail, or to the namespace of a class, which can.
WriteName(t, op, at, on) ==
  Emit(t, Instr("op", <<op, at>>, on, NoValue, IF t.classBody THEN t.handler ELSE NoLabel))
PopExcept(t, prev) == Emit(t, Instr("pop", <<>>, prev, NoValue, NoLabel))
Complete(t, how, on, at) == Emit(t, Instr("complete", <<how, at>>, on, <<"comp", at>>, NoLabel))

RecordTarget(t, label) == [t EXCEPT !.targeted = @ \cup {label}]
BuildJump(t, label, arg) == FinishBlock(t, End("jump", NoValue, <<Goto(label, arg)>>))
Jump(t, label, arg) == BuildJump(RecordTarget(t, label), label, arg)
Raise(t, exc) == BuildJump(t, t.handler, exc)
Branch(t, on, yes, no) == FinishBlock(t, End("branch", on, <<yes, no>>))

\* Inside a construct the translator goes on with a handler, an exit or a handled exception of
\* its own, and with those it had after it.
WithHandler(t, label) == [t EXCEPT !.handler = label]
WithExit(t, e) == [t EXCEPT !.exits = Append(@, e)]
WithHandled(t, exc) == [t EXCEPT !.handled = exc]
After(inside, t) ==
  [inside EXCEPT !.handler = t.handler, !.exits = t.exits, !.handled = t.handled]

----------------------------------------------------------------------------
(* Leaving. *)

Loop(brk, cont) == [exit |-> "loop", brk |-> brk, cont |-> cont]
\* `name` is where the clause binds a name, or <<>>.
Handler(prev, name, outer) == [exit |-> "handler", prev |-> prev, name |-> name, outer |-> outer]
Cleanup(fin) == [exit |-> "cleanup", fin |-> fin]

UnbindName(t, at) == WriteName(t, "unbind", at, NoValue)

UnbindIfNamed(t, e) == IF e.name = <<>> THEN t ELSE UnbindName(t, e.name)
\* Mutation: unbinds before the exception is no longer the one handled.
UnbindThenPop(t, e) == After(PopExcept(UnbindIfNamed(WithHandler(t, e.outer), e), e.prev), t)
LeaveHandler(t, e)  == After(UnbindIfNamed(PopExcept(WithHandler(t, e.outer), e.prev), e), t)

LeaveThrough(t, e, how, value, at) ==
  CASE e.exit = "handler" -> LeaveHandler(t, e)
    [] e.exit = "cleanup" -> Jump(Complete(t, how, value, at), e.fin, <<"comp", at>>)
    [] e.exit = "loop"    ->
         IF how = "return" THEN t ELSE Jump(t, IF how = "break" THEN e.brk ELSE e.cont, NoValue)

ExitWalk(t, how, value, at) ==
  LET n == Len(t.exits)
      left[i \in 0..n] ==
        IF i = 0 THEN t
        ELSE LET u == left[i - 1]
             IN  IF IsOpen(u) THEN LeaveThrough(u, t.exits[n - i + 1], how, value, at) ELSE u
  IN  IF how = "return" /\ IsOpen(left[n])
      THEN FinishBlock(left[n], End("return", value, <<>>)) ELSE left[n]

\* The blocks of the completions a dispatch cannot hand to a block there is.
ArmAt(at, how) == at \o <<CASE how = "return" -> 11 [] how = "break" -> 12 [] how = "continue" -> 13>>
InLoop(t) == \E i \in DOMAIN t.exits : t.exits[i].exit = "loop"
StraightToLoop(t) == t.exits # <<>> /\ t.exits[Len(t.exits)].exit = "loop"
ArmTarget(t, how, at) ==
  IF how # "return" /\ StraightToLoop(t)
  THEN LET loop == t.exits[Len(t.exits)] IN IF how = "break" THEN loop.brk ELSE loop.cont
  ELSE <<"arm", ArmAt(at, how)>>
ArmReached(t, how) == IF how = "return" THEN ~t.classBody ELSE InLoop(t)
EmitArm(t, how, at) ==
  LET value  == IF how = "return" THEN <<"val", at>> ELSE NoValue
      opened == StartBlock(t, ArmTarget(t, how, at), value)
  IN  IF ~ArmReached(t, how) THEN FinishBlock(opened, End("unreachable", NoValue, <<>>))
      ELSE IF how # "return" /\ StraightToLoop(t) THEN RecordTarget(t, ArmTarget(t, how, at))
      ELSE ExitWalk(opened, how, value, ArmAt(at, how))

DispatchArms(t, pending, join, at) ==
  LET case == FinishBlock(t, End("case", pending,
                <<Goto(join, NoValue), Goto(ArmTarget(t, "return", at), NoValue), Goto(t.handler, NoValue),
                  Goto(ArmTarget(t, "break", at), NoValue), Goto(ArmTarget(t, "continue", at), NoValue)>>))
  IN  EmitArm(EmitArm(EmitArm(case, "return", at), "break", at), "continue", at)
=============================================================================
