----------------------------- MODULE Completion -----------------------------
(***************************************************************************)
(* The five ways a statement completes in Pylate's interpreter             *)
(* (Pylate/Transfers/Flow.lean, Engine/Exc.lean, Transfers/Statements.lean,*)
(* Transfers/Compatibility.lean).  Each is a state, or NoState when the    *)
(* statement cannot complete that way; the exceptional one is a state per  *)
(* exception class and raise site.  The value a raised case carries is     *)
(* left out: handlers bind a fresh object and never read it.               *)
(***************************************************************************)
EXTENDS AbstractState, FiniteSetsExt

CONSTANTS Nowhere   \* the origin of a raise whose site was not kept

NoRaise == [key \in {} |-> NoState]

RaiseOf(cls, origin, st) == [key \in {<<cls, origin>>} |-> st]

\* Mutation: a site that recurs keeps its first state.
JoinRaisedKeepsFirst(a, b) ==
  [key \in DOMAIN a \cup DOMAIN b |-> IF key \in DOMAIN a THEN a[key] ELSE b[key]]

\* Cases are keyed by class and raise site: only a recurring site is joined.
JoinRaised(a, b) ==
  [key \in DOMAIN a \cup DOMAIN b |->
     JoinOpt(IF key \in DOMAIN a THEN a[key] ELSE NoState,
             IF key \in DOMAIN b THEN b[key] ELSE NoState)]

\* A return carries a value beside its state.
NoReturn == [value |-> {}, state |-> NoState]

JoinReturn(a, b) == [value |-> a.value \cup b.value, state |-> JoinOpt(a.state, b.state)]

NoCompletion == [normal |-> NoState, returned |-> NoReturn, broke |-> NoState,
                 continued |-> NoState, raised |-> NoRaise]

Normal(st)      == [NoCompletion EXCEPT !.normal = st]
Returned(v, st) == [NoCompletion EXCEPT !.returned = [value |-> v, state |-> st]]
Broke(st)       == [NoCompletion EXCEPT !.broke = st]
Continued(st)   == [NoCompletion EXCEPT !.continued = st]
Raised(r)       == [NoCompletion EXCEPT !.raised = r]

JoinCompletion(a, b) ==
  [normal    |-> JoinOpt(a.normal, b.normal),
   returned  |-> JoinReturn(a.returned, b.returned),
   broke     |-> JoinOpt(a.broke, b.broke),
   continued |-> JoinOpt(a.continued, b.continued),
   raised    |-> JoinRaised(a.raised, b.raised)]

WithoutNormal(flow) == [flow EXCEPT !.normal = NoState]

\* Kill a name in every completion.
KillOpt(st, x) == IF st = NoState THEN NoState ELSE EnvKill(st, x)
KillEverywhere(flow, x) ==
  [normal    |-> KillOpt(flow.normal, x),
   returned  |-> [flow.returned EXCEPT !.state = KillOpt(@, x)],
   broke     |-> KillOpt(flow.broke, x),
   continued |-> KillOpt(flow.continued, x),
   raised    |-> [key \in DOMAIN flow.raised |-> EnvKill(flow.raised[key], x)]]

-----------------------------------------------------------------------------
(* Loops. *)

\* Mutation: continue leaves the loop with break.
ContinueBreaks(body) ==
  [backedge |-> body.normal,
   escaped  |-> [body EXCEPT !.normal = JoinOpt(body.broke, body.continued),
                             !.broke = NoState, !.continued = NoState]]

\* continue and normal completion return to the head; break leaves normally.
ConsumeLoopBoundary(body) ==
  [backedge |-> JoinOpt(body.normal, body.continued),
   escaped  |-> [body EXCEPT !.normal = body.broke, !.broke = NoState,
                             !.continued = NoState]]


JoinAll(sts) == FoldSet(JoinOpt, NoState, sts)

\* Every loop statement passes through AMulti: its exceptions keep their classes
\* but lose their sites, and share the join of their states.
ThroughAMulti(flow) ==
  LET st == JoinAll({flow.raised[key] : key \in DOMAIN flow.raised})
  IN  [flow EXCEPT !.raised =
         [key \in {<<k[1], Nowhere>> : k \in DOMAIN flow.raised} |-> st]]
=============================================================================
