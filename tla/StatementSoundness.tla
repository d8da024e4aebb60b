------------------------- MODULE StatementSoundness -------------------------
(***************************************************************************)
(* The statement interpreter against the program it analyses: the program  *)
(* is analysed once, then run, and everything the run does is looked up in *)
(* what the analysis recorded.  A run that hits a raise the policy turned  *)
(* into an obligation is excused from there on: the obligation is owed.    *)
(***************************************************************************)
EXTENDS PythonRun

CONSTANTS Programs, PoliciesOf(_)

VARIABLES analysis

vars == <<run, analysis>>

Init ==
  /\ RunInit(Programs)
  /\ \E policy \in PoliciesOf(prog) : analysis = Analyse(prog.nodes, prog.main, policy)

Next == RunNext /\ UNCHANGED analysis

Spec == Init /\ [][Next]_vars

-----------------------------------------------------------------------------

Excused == faults \cap analysis.ctx.obliged # {}

StateCovers(st, sigma) == st # NoState /\ \A x \in Vars : sigma[x] \in st.env[x]

SnapCovers(point) ==
  /\ point \in DOMAIN analysis.ctx.snaps
  /\ StateCovers(analysis.ctx.snaps[point], store)

TypeOK ==
  /\ store \in [Vars -> Scalars \cup {Unbound}]
  /\ signal.s \in {"go", "break", "continue", "return", "raise"}
  /\ analysis.ctx.handling = <<>> /\ analysis.ctx.active = <<>>
  /\ \A point \in DOMAIN analysis.ctx.snaps : analysis.ctx.snaps[point] \in AState

\* Every statement the program reaches was analysed from a state that covers the
\* store it is reached with, whichever completions and handlers led there
\* (executeBody snaps each statement at its input state).
StatementsCovered == AtStatement /\ ~Excused => SnapCovers(At(Here))

\* The points a run is at between statements; a `for` over nothing has no head.
JoinPointsReached ==
  CASE AtHead ->
         (IF Frame.k = "for" /\ Loop.elements = {} THEN {} ELSE {JoinPoint(Frame.node, "loopHead")})
         \cup (IF signal.s = "continue" THEN {JoinPoint(Frame.node, "continueTarget")} ELSE {})
    [] AtLoop /\ Frame.k = "while" /\ signal.s = "break" -> {JoinPoint(Frame.node, "breakTarget")}
    [] AtTry /\ Frame.k = "try" /\ Catching # {} -> {HandlerEntry(Frame.node, Clause)}
    [] OTHER -> {}

\* The loop heads, break and continue targets and handler entries recorded for
\* Emit cover the stores that reach them.
JoinPointsCovered == ~Excused => \A point \in JoinPointsReached : SnapCovers(point)

\* How the program ends is one of the completions of its body, with a state that
\* covers the final store: no outcome is missed.
ExitCovered ==
  frames = <<>> /\ ~Excused =>
    CASE signal.s = "go" -> StateCovers(analysis.out.normal, store)
      [] signal.s = "return" -> /\ StateCovers(analysis.out.returned.state, store)
                                /\ signal.v \in analysis.out.returned.value
      [] signal.s = "raise" -> \E key \in DOMAIN analysis.out.raised :
                                 /\ key[1] = signal.cls
                                 /\ StateCovers(analysis.out.raised[key], store)
      [] OTHER -> FALSE

\* The policy never turns a raise into an obligation when the program goes on to
\* catch it: no live handler is pruned (mraise, handledHere).
LiveHandlersKept ==
  AtTry /\ Frame.k = "try" /\ Catching # {} /\ signal.machine =>
    <<signal.site, signal.cls>> \notin analysis.ctx.obliged

\* The statements of a straight body and of the ifs in it.
StatementsIn(ns) ==
  LET flat    == {ns[i] : i \in DOMAIN ns}
      arms(s) == IF s.k = "if" THEN {s.body[i] : i \in DOMAIN s.body}
                                    \cup {s.orelse[i] : i \in DOMAIN s.orelse} ELSE {}
  IN  flat \cup UNION {arms(prog.nodes[n]) : n \in flat}

\* What a statement raises, if it can only raise where it starts.
RaisedBy(s) ==
  CASE s.k = "raise" -> {s.cls}
    [] s.k \in {"assign", "expr", "return", "if"} ->
         (CASE s.e.k = "const" -> {}
            [] s.e.k = "name"  -> {"UnboundLocalError"}
            [] OTHER           -> {s.e.cls})
    [] OTHER -> {}

Straight(ns) == \A n \in StatementsIn(ns) :
                  /\ prog.nodes[n].k \notin {"while", "for", "try"}
                  /\ NoClass \notin RaisedBy(prog.nodes[n])

\* A clause is entered with the states of the raises it catches only: the values a
\* name has at a clause are values it has at a statement of the try body that may
\* raise a class this clause is the first to catch ("a handler could not tell which
\* raise it was entered from", Statements.lean:353).  Loops in the body are left
\* out: they share one state among their exceptions.
HandlersSeparate ==
  \A n \in DOMAIN prog.nodes : prog.nodes[n].k = "try" /\ Straight(prog.nodes[n].body) =>
    \A i \in DOMAIN prog.nodes[n].handlers : HandlerEntry(n, i) \in DOMAIN analysis.ctx.snaps =>
      \A x \in Vars :
        analysis.ctx.snaps[HandlerEntry(n, i)].env[x] \subseteq
          UNION {analysis.ctx.snaps[At(r)].env[x] :
                   r \in {r \in StatementsIn(prog.nodes[n].body) :
                            /\ At(r) \in DOMAIN analysis.ctx.snaps
                            /\ \E cls \in RaisedBy(prog.nodes[r]) :
                                 FirstHandler(prog.nodes[n].handlers, cls) = i}}

\* Everything inside a try statement without compound statements in it.
PartsOf(s) ==
  StatementsIn(s.body) \cup StatementsIn(s.orelse)
  \cup UNION {StatementsIn(s.handlers[i].body) : i \in DOMAIN s.handlers}

\* A finally that always returns or raises replaces whatever was pending: control
\* does not pass it, and no exception from the rest of its try gets out
\* (runFinallyOn, "any non-normal completion of finally replaces the pending
\* completion").
FinallyReplaces ==
  \A n \in DOMAIN prog.nodes :
    LET s == prog.nodes[n] IN
    s.k = "try" /\ Straight(s.body) /\ s.final # <<>> =>
      (prog.nodes[s.final[1]].k \in {"return", "raise"} =>
         /\ JoinPoint(n, "finallyMerge") \notin DOMAIN analysis.ctx.snaps
         /\ \A key \in DOMAIN analysis.out.raised : key[2] \notin PartsOf(s))

\* The finally entry "accumulates the join of every completion that reaches it"
\* (Statements.lean:426).
FinallyEntryCovered ==
  ~Excused /\ AtTry /\ Try.final # <<>> /\ Frame.k \in {"else", "try"}
  /\ (Frame.k = "try" => signal.s # "go" /\ Catching = {})
    => SnapCovers(JoinPoint(Frame.node, "finallyEntry"))
=============================================================================
