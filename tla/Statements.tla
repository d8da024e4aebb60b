----------------------------- MODULE Statements -----------------------------
(***************************************************************************)
(* Pylate's statement interpreter (Pylate/Transfers/Statements.lean and    *)
(* Fixpoint.lean) over small programs.  The interpreter threads a context  *)
(* (Actx) beside the abstract state: the classes being handled, the classes*)
(* the enclosing tries catch, a snapshot per program point and the         *)
(* obligations.                                                            *)
(*                                                                         *)
(* A program maps statement numbers to records; a body is a sequence of    *)
(* numbers, and a number is also the position of its statement.  Objects   *)
(* are abstracted to the scalar ObjectScalar, and an expression is a       *)
(* constant, a name, or an operation that may raise one exception.         *)
(***************************************************************************)
EXTENDS Completion, AbortPolicy, TLC

CONSTANTS NoneScalar, ObjectScalar, IntScalar,   \* the scalars of the programs
          AnyClass,                              \* the root of the exceptions
          NoName, NoClass                        \* `except:` and bare `raise`

InitialContext(policy) ==
  [policy |-> policy, handling |-> <<>>, active |-> <<>>,
   snaps |-> [point \in {} |-> NoState], obliged |-> {}]

\* One snapshot per program point, joined over the visits.
Snap(c, point, st) ==
  LET old == IF point \in DOMAIN c.snaps THEN c.snaps[point] ELSE NoState
  IN  [c EXCEPT !.snaps = (point :> JoinOpt(old, st)) @@ c.snaps]
SnapOpt(c, point, st) == IF st = NoState THEN c ELSE Snap(c, point, st)

At(n)              == <<n, "node", 0>>
JoinPoint(n, kind) == <<n, kind, 0>>
HandlerEntry(n, i) == <<n, "handlerEntry", i>>

Oblige(c, n, cls) == [c EXCEPT !.obliged = @ \cup {<<n, cls>>}]

\* A raise by the interpreter itself: an obligation, or exceptional flow.
MachineRaise(n, origin, cls, st, c) ==
  IF Aborts(c.policy, c.active, cls, Undeclared)
  THEN [raised |-> NoRaise, ctx |-> Oblige(c, n, cls)]
  ELSE [raised |-> RaiseOf(cls, origin, st), ctx |-> c]

-----------------------------------------------------------------------------
(* Expressions: a value and state, or none, and what was raised. *)

Value(v, st, c) == [value |-> v, state |-> st, raised |-> NoRaise, ctx |-> c]

\* Reading a name strips Unbound from it; the raise keeps no site.
NameRead(n, x, st, c) ==
  IF Unbound \notin st.env[x] THEN Value(st.env[x], st, c)
  ELSE LET bound   == st.env[x] \ {Unbound}
           machine == MachineRaise(n, Nowhere, "UnboundLocalError", st, c)
       IN  [value  |-> bound,
            state  |-> IF bound = {} THEN NoState ELSE EnvSet(st, x, bound),
            raised |-> machine.raised, ctx |-> machine.ctx]

\* An operation of a rule that ends normally or raises.
Partial(n, e, st, c) ==
  LET machine == MachineRaise(n, n, e.cls, st, c)
  IN  [value |-> {IntScalar}, state |-> st, raised |-> machine.raised, ctx |-> machine.ctx]

Eval(n, e, st, c) ==
  CASE e.k = "const"   -> Value({e.v}, st, c)
    [] e.k = "name"    -> NameRead(n, e.x, st, c)
    [] e.k = "partial" -> Partial(n, e, st, c)

\* Test the value of a condition and narrow a name by the outcome.
Sides(e, flow) ==
  LET side(kept, possible) ==
        IF flow.state = NoState \/ flow.value \cap possible = {} THEN NoState
        ELSE IF e.k = "name" THEN EnvSet(flow.state, e.x, flow.value \ kept)
        ELSE flow.state
  IN  [truthy |-> side({NoneScalar}, {IntScalar, ObjectScalar}),
       falsy  |-> side({ObjectScalar}, {IntScalar, NoneScalar}),
       raised |-> flow.raised, ctx |-> flow.ctx]

Branch(n, e, st, c) == Sides(e, Eval(n, e, st, c))

-----------------------------------------------------------------------------
(* Simple statements. *)

Outcome(flow, c) == [out |-> flow, ctx |-> c]

\* Completions after an expression: what it raised, and what follows normally.
AfterExpr(flow, next) ==
  Outcome(JoinCompletion(Raised(flow.raised),
                         IF flow.state = NoState THEN NoCompletion ELSE next), flow.ctx)

AssignStmt(n, s, st, c) ==
  LET flow == Eval(n, s.e, st, c)
  IN  AfterExpr(flow, Normal(EnvSet(flow.state, s.x, flow.value)))

ExprStmt(n, s, st, c) == LET flow == Eval(n, s.e, st, c) IN AfterExpr(flow, Normal(flow.state))

ReturnStmt(n, s, st, c) ==
  LET flow == Eval(n, s.e, st, c) IN AfterExpr(flow, Returned(flow.value, flow.state))

DeleteStmt(s, st, c) == Outcome(Normal(EnvKill(st, s.x)), c)

\* A bare raise re-raises the innermost handled class; outside a handler it is a
\* RuntimeError whose site is not kept.
RaiseStmt(n, s, st, c) ==
  IF s.cls # NoClass THEN Outcome(Raised(RaiseOf(s.cls, n, st)), c)
  ELSE IF c.handling # <<>> THEN Outcome(Raised(RaiseOf(Head(c.handling), n, st)), c)
  ELSE LET machine == MachineRaise(n, Nowhere, "RuntimeError", st, c)
       IN  Outcome(Raised(machine.raised), machine.ctx)

-----------------------------------------------------------------------------
(* Compound statements. *)

RECURSIVE ExecuteBody(_, _, _, _), ExecuteStatement(_, _, _, _),
          Close(_, _, _, _), RunCases(_, _, _, _, _), RunPending(_, _, _, _)

\* Run a body from a state, or nothing from NoState.
BodyFrom(p, body, st, c) ==
  IF st = NoState THEN Outcome(NoCompletion, c) ELSE ExecuteBody(p, body, st, c)

\* Join a further outcome, run in the context the first one left.
AlsoRun(first, second) == Outcome(JoinCompletion(first.out, second.out), second.ctx)

\* Later statements run only after normal completion; every other completion
\* bypasses them and is kept.
Then(p, rest, first) ==
  AlsoRun(Outcome(WithoutNormal(first.out), first.ctx),
          BodyFrom(p, rest, first.out.normal, first.ctx))

ExecuteBody(p, body, st, c) ==
  IF body = <<>> THEN Outcome(Normal(st), c)
  ELSE Then(p, Tail(body), ExecuteStatement(p, Head(body), st, Snap(c, At(Head(body)), st)))

\* Record the normal completion at a join point of the statement.
MergeAt(n, kind, done) ==
  Outcome(done.out, SnapOpt(done.ctx, JoinPoint(n, kind), done.out.normal))

ElseArm(p, s, branch, yes) == AlsoRun(yes, BodyFrom(p, s.orelse, branch.falsy, yes.ctx))

Arms(p, s, branch) ==
  AlsoRun(Outcome(Raised(branch.raised), branch.ctx),
          ElseArm(p, s, branch, BodyFrom(p, s.body, branch.truthy, branch.ctx)))

IfStmt(p, n, s, st, c) ==
  MergeAt(n, "ifMerge", Arms(p, s, Branch(n, s.e, st, c)))

\* One iteration of a loop whose body ended with `body`.
LoopStep(n, raised, body) ==
  LET boundary == ConsumeLoopBoundary(body.out)
  IN  [backedge |-> boundary.backedge,
       escaped  |-> JoinCompletion(Raised(raised), boundary.escaped),
       ctx      |-> SnapOpt(body.ctx, JoinPoint(n, "continueTarget"), body.out.continued)]

WhileStep(p, n, branch) ==
  LoopStep(n, branch.raised, BodyFrom(p, p[n].body, branch.truthy, branch.ctx))

ForStep(p, n, st, c) ==
  LoopStep(n, NoRaise, BodyFrom(p, p[n].body, EnvSet(st, p[n].x, p[n].elements), c))

Iteration(p, n, st, c) ==
  IF p[n].k = "while" THEN WhileStep(p, n, Branch(n, p[n].e, st, c)) ELSE ForStep(p, n, st, c)

\* What the rounds have found, the last one included.
Reached(fixed, step) ==
  [invariant  |-> fixed.invariant,
   escaped    |-> JoinCompletion(fixed.escaped, step.escaped),
   progressed |-> fixed.progressed \/ step.backedge # NoState,
   ctx        |-> step.ctx]

CloseAfter(p, n, fixed, step) ==
  LET next == JoinOpt(fixed.invariant, step.backedge)
  IN  IF Le(next, fixed.invariant) THEN Reached(fixed, step)
      ELSE Close(p, n, [Reached(fixed, step) EXCEPT !.invariant = next], step.ctx)

\* Rounds from `fixed.invariant` until the back edge adds nothing.
Close(p, n, fixed, c) ==
  CloseAfter(p, n, fixed,
    Iteration(p, n, fixed.invariant, Snap(c, JoinPoint(n, "loopHead"), fixed.invariant)))

Closed(p, n, st, c) ==
  Close(p, n, [invariant |-> st, escaped |-> NoCompletion, progressed |-> FALSE], c)

\* A while whose condition, at the closed head, gave `last`.
WhileExit(p, n, escaped, last) ==
  MergeAt(n, "loopExit",
    AlsoRun(Outcome(JoinCompletion(escaped, Raised(last.raised)), last.ctx),
            BodyFrom(p, p[n].orelse, last.falsy,
              SnapOpt(last.ctx, JoinPoint(n, "breakTarget"), escaped.normal))))

WhileFixpoint(p, n, fixed) ==
  WhileExit(p, n, fixed.escaped, Branch(n, p[n].e, fixed.invariant, fixed.ctx))

ForElse(p, n, fixed) ==
  IF ~p[n].nonempty \/ fixed.progressed THEN ExecuteBody(p, p[n].orelse, fixed.invariant, fixed.ctx)
  ELSE Outcome(NoCompletion, fixed.ctx)

ForFixpoint(p, n, fixed) == AlsoRun(Outcome(fixed.escaped, fixed.ctx), ForElse(p, n, fixed))

ThroughBridge(loop) == Outcome(ThroughAMulti(loop.out), loop.ctx)

\* The body of a `for` over nothing is not analysed.
LoopStmt(p, n, st, c) ==
  ThroughBridge(
    IF p[n].k = "while" THEN WhileFixpoint(p, n, Closed(p, n, st, c))
    ELSE IF p[n].elements = {} THEN ExecuteBody(p, p[n].orelse, st, c)
    ELSE ForFixpoint(p, n, Closed(p, n, st, c)))

-----------------------------------------------------------------------------
(* try. *)

\* `except:` names AnyClass.
CaughtBy(h, cls) == h.cls \in Mro[cls]

\* The first clause that catches a class; 0 if none does.
FirstHandler(handlers, cls) ==
  LET matching == {i \in DOMAIN handlers : CaughtBy(handlers[i], cls)}
  IN  IF matching = {} THEN 0 ELSE CHOOSE i \in matching : \A j \in matching : i <= j

\* Mutation: the name of a handler is killed only when it ends normally.
CleanupNormally(h, flow) ==
  IF h.name = NoName THEN flow ELSE [flow EXCEPT !.normal = KillOpt(@, h.name)]

\* `except ... as name` unbinds the name however the handler ends.
CleanupHandlerTarget(h, flow) == IF h.name = NoName THEN flow ELSE KillEverywhere(flow, h.name)

EnterHandling(c, cls) == [c EXCEPT !.handling = <<cls>> \o @]

\* Mutation: the class stays on the handling stack.
HandlingKept(c) == c

LeaveHandling(c) == [c EXCEPT !.handling = Tail(@)]

EndClause(h, handled) ==
  Outcome(CleanupHandlerTarget(h, handled.out), LeaveHandling(handled.ctx))

\* One clause entered by one reaching case, from that case's own state.
ExecuteHandlerCase(p, n, i, key, st, c) ==
  LET h     == p[n].handlers[i]
      bound == IF h.name = NoName THEN st ELSE EnvSet(st, h.name, {ObjectScalar})
  IN  EndClause(h, ExecuteBody(p, h.body, bound,
                     EnterHandling(Snap(c, HandlerEntry(n, i), st), key[1])))

\* Mutation: a clause is entered from the join of every case that reaches the try.
StateOfAllCases(raised, key) == JoinAll({raised[k] : k \in DOMAIN raised})

EntryStateOf(raised, key) == raised[key]

\* Run the cases of `keys`, one after the other, and join what they end with.
RunCases(p, n, raised, keys, sofar) ==
  IF keys = {} THEN sofar
  ELSE LET key == CHOOSE key \in keys : TRUE
       IN  RunCases(p, n, raised, keys \ {key},
             AlsoRun(sofar,
               ExecuteHandlerCase(p, n, FirstHandler(p[n].handlers, key[1]), key,
                                  EntryStateOf(raised, key), sofar.ctx)))

\* Cases no clause catches stay raised; what a clause raises is not matched again.
RouteHandlers(p, n, body, c) ==
  LET caught   == {key \in DOMAIN body.raised : FirstHandler(p[n].handlers, key[1]) # 0}
      uncaught == [key \in DOMAIN body.raised \ caught |-> body.raised[key]]
  IN  IF DOMAIN body.raised = {} \/ p[n].handlers = <<>> THEN Outcome(body, c)
      ELSE MergeAt(n, "handlerMerge",
             RunCases(p, n, body.raised, caught, Outcome([body EXCEPT !.raised = uncaught], c)))

\* else receives only the body's normal completion, after the handlers.
ThenElse(p, n, normal, routed) == AlsoRun(routed, BodyFrom(p, p[n].orelse, normal, routed.ctx))

TryExceptElse(p, n, body) ==
  ThenElse(p, n, body.out.normal, RouteHandlers(p, n, WithoutNormal(body.out), body.ctx))

\* Mutation: a finally that does not end normally leaves the pending completion.
FinallyKeepsPending(final, resumed) == JoinCompletion(resumed, final)

\* The pending completion is reinstated by a normal finally and replaced by any
\* other completion of it.
FinallyResult(final, resumed) ==
  JoinCompletion(IF final.normal = NoState THEN NoCompletion ELSE resumed, WithoutNormal(final))

\* The completions finally runs on, one at a time: normal, break, continue, return
\* and every raised case.
PendingSlices(pending) ==
  ({Normal(pending.normal), Broke(pending.broke), Continued(pending.continued),
    [NoCompletion EXCEPT !.returned = pending.returned]}
   \ {NoCompletion})
  \cup {Raised(RaiseOf(key[1], key[2], pending.raised[key])) : key \in DOMAIN pending.raised}

\* The state a single slice is in, and the slice moved to another state.
SliceState(slice) ==
  JoinAll({slice.normal, slice.broke, slice.continued, slice.returned.state}
          \cup {slice.raised[key] : key \in DOMAIN slice.raised})
MoveOpt(from, st) == IF from = NoState THEN NoState ELSE st
MoveSlice(slice, st) ==
  [normal    |-> MoveOpt(slice.normal, st),
   returned  |-> [slice.returned EXCEPT !.state = MoveOpt(@, st)],
   broke     |-> MoveOpt(slice.broke, st),
   continued |-> MoveOpt(slice.continued, st),
   raised    |-> [key \in DOMAIN slice.raised |-> st]]

EndSlice(slice, final) ==
  Outcome(FinallyResult(final.out, MoveSlice(slice, final.out.normal)), final.ctx)

RunPending(p, n, slices, sofar) ==
  IF slices = {} THEN sofar
  ELSE LET slice == CHOOSE slice \in slices : TRUE
       IN  RunPending(p, n, slices \ {slice},
             AlsoRun(sofar,
               EndSlice(slice, ExecuteBody(p, p[n].final, SliceState(slice), sofar.ctx))))

RunFinally(p, n, pending) ==
  IF p[n].final = <<>> THEN pending
  ELSE RunPending(p, n, PendingSlices(pending.out),
         Outcome(NoCompletion,
                 SnapOpt(pending.ctx, JoinPoint(n, "finallyEntry"), pending.out.normal)))

EnterTryBody(c, handlers) ==
  [c EXCEPT !.active = <<{handlers[i].cls : i \in DOMAIN handlers}>> \o @]
LeaveTryBody(body) == [body EXCEPT !.ctx.active = Tail(@)]

TryStmt(p, n, s, st, c) ==
  MergeAt(n, "finallyMerge",
    RunFinally(p, n,
      TryExceptElse(p, n,
        LeaveTryBody(ExecuteBody(p, s.body, st, EnterTryBody(c, s.handlers))))))

ExecuteStatement(p, n, st, c) ==
  LET s == p[n] IN
  CASE s.k = "assign"   -> AssignStmt(n, s, st, c)
    [] s.k = "expr"     -> ExprStmt(n, s, st, c)
    [] s.k = "delete"   -> DeleteStmt(s, st, c)
    [] s.k = "pass"     -> Outcome(Normal(st), c)
    [] s.k = "return"   -> ReturnStmt(n, s, st, c)
    [] s.k = "break"    -> Outcome(Broke(st), c)
    [] s.k = "continue" -> Outcome(Continued(st), c)
    [] s.k = "raise"    -> RaiseStmt(n, s, st, c)
    [] s.k = "if"       -> IfStmt(p, n, s, st, c)
    [] s.k \in {"while", "for"} -> LoopStmt(p, n, st, c)
    [] s.k = "try"      -> TryStmt(p, n, s, st, c)

\* The analysis of a program, from names that are all unbound.
Analyse(p, main, policy) == ExecuteBody(p, main, EmptyState, InitialContext(policy))
=============================================================================
