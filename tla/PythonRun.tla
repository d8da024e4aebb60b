----------------------------- MODULE PythonRun ------------------------------
(***************************************************************************)
(* CPython executing one of the programs of Statements: a store, a stack of*)
(* frames for the statements being executed, and how the last step         *)
(* completed.  Conditions on integers and the raises of partial operations *)
(* are choices.                                                            *)
(***************************************************************************)
EXTENDS Statements

VARIABLES
  prog,      \* the program: [main, nodes]
  store,     \* [Vars -> Scalars \cup {Unbound}]
  frames,    \* the innermost first
  signal,    \* how the last step completed
  faults     \* the sites and classes of the raises by the interpreter so far

run == <<prog, store, frames, signal, faults>>

Go            == [s |-> "go"]
Jump(kind)    == [s |-> kind]
ReturnOf(v)   == [s |-> "return", v |-> v]
RaiseAt(n, cls, machine) == [s |-> "raise", cls |-> cls, site |-> n, machine |-> machine]

Frame   == Head(frames)
Below == Tail(frames)

Body(ns) == <<[k |-> "body", rest |-> ns]>>

\* The statement about to execute, if any.
AtStatement == frames # <<>> /\ Frame.k = "body" /\ Frame.rest # <<>> /\ signal.s = "go"
Here        == Head(Frame.rest)
Stmt        == prog.nodes[Here]
Rest        == Body(Tail(Frame.rest)) \o Below

\* The exception being handled: of the innermost handler, or of the innermost
\* finally that interrupts an exception.
Handling ==
  LET handles(f) == \/ f.k = "handler"
                    \/ f.k = "final" /\ f.pending.s = "raise"
      depths == {i \in DOMAIN frames : handles(frames[i])}
      inner  == frames[CHOOSE i \in depths : \A j \in depths : i <= j]
  IN  IF depths = {} THEN NoClass
      ELSE IF inner.k = "handler" THEN inner.cls ELSE inner.pending.cls

\* What evaluating an expression may give: a value, or a class raised.
Values(e)  == CASE e.k = "const" -> {e.v}
                [] e.k = "name"  -> {store[e.x]} \ {Unbound}
                [] OTHER         -> {IntScalar}
Fails(e)   == CASE e.k = "partial" -> {e.cls}
                [] e.k = "name" /\ store[e.x] = Unbound -> {"UnboundLocalError"}
                [] OTHER -> {}
HasExpr(s) == s.k \in {"assign", "expr", "return", "if", "while"}

Truths(v) == (IF v = NoneScalar THEN {} ELSE {TRUE}) \cup (IF v = ObjectScalar THEN {} ELSE {FALSE})

Fault(cls) ==
  /\ signal' = RaiseAt(Here, cls, TRUE)
  /\ faults' = faults \cup {<<Here, cls>>}

-----------------------------------------------------------------------------
(* Statements. *)

EvalFails ==
  /\ AtStatement /\ HasExpr(Stmt) /\ Stmt.k # "while"
  /\ \E cls \in Fails(Stmt.e) : Fault(cls)
  /\ frames' = Rest
  /\ UNCHANGED <<prog, store>>

DoAssign ==
  /\ AtStatement /\ Stmt.k = "assign"
  /\ \E v \in Values(Stmt.e) : store' = [store EXCEPT ![Stmt.x] = v]
  /\ frames' = Rest
  /\ UNCHANGED <<prog, signal, faults>>

DoExpr ==
  /\ AtStatement
  /\ Stmt.k = "pass" \/ (Stmt.k = "expr" /\ Values(Stmt.e) # {})
  /\ frames' = Rest
  /\ UNCHANGED <<prog, store, signal, faults>>

DoDelete ==
  /\ AtStatement /\ Stmt.k = "delete"
  /\ IF store[Stmt.x] = Unbound
     THEN Fault("UnboundLocalError") /\ UNCHANGED store
     ELSE store' = [store EXCEPT ![Stmt.x] = Unbound] /\ UNCHANGED <<signal, faults>>
  /\ frames' = Rest
  /\ UNCHANGED prog

DoJump ==
  /\ AtStatement /\ Stmt.k \in {"break", "continue"}
  /\ signal' = Jump(Stmt.k)
  /\ frames' = Rest
  /\ UNCHANGED <<prog, store, faults>>

DoReturn ==
  /\ AtStatement /\ Stmt.k = "return"
  /\ \E v \in Values(Stmt.e) : signal' = ReturnOf(v)
  /\ frames' = Rest
  /\ UNCHANGED <<prog, store, faults>>

DoRaise ==
  /\ AtStatement /\ Stmt.k = "raise"
  /\ IF Stmt.cls # NoClass THEN signal' = RaiseAt(Here, Stmt.cls, FALSE) /\ UNCHANGED faults
     ELSE IF Handling # NoClass
     THEN signal' = RaiseAt(Here, Handling, FALSE) /\ UNCHANGED faults
     ELSE Fault("RuntimeError")
  /\ frames' = Rest
  /\ UNCHANGED <<prog, store>>

EnterIf ==
  /\ AtStatement /\ Stmt.k = "if"
  /\ \E v \in Values(Stmt.e), b \in BOOLEAN :
       /\ b \in Truths(v)
       /\ frames' = Body(IF b THEN Stmt.body ELSE Stmt.orelse) \o Rest
  /\ UNCHANGED <<prog, store, signal, faults>>

EnterBlock ==
  /\ AtStatement /\ Stmt.k \in {"while", "for", "try"}
  /\ frames' = (IF Stmt.k = "try" THEN Body(Stmt.body) ELSE <<>>)
               \o <<[k |-> Stmt.k, node |-> Here, turned |-> FALSE]>> \o Rest
  /\ UNCHANGED <<prog, store, signal, faults>>

\* The end of a body, reached or jumped over.
LeaveBody ==
  /\ frames # <<>> /\ Frame.k = "body"
  /\ Frame.rest = <<>> \/ signal.s # "go"
  /\ frames' = Below
  /\ UNCHANGED <<prog, store, signal, faults>>

-----------------------------------------------------------------------------
(* Loops: the loop frame is on top between iterations. *)

AtLoop   == frames # <<>> /\ Frame.k \in {"while", "for"}
Loop     == prog.nodes[Frame.node]
AtHead   == AtLoop /\ signal.s \in {"go", "continue"}
Turned   == <<[Frame EXCEPT !.turned = TRUE]>> \o Below

TestWhile ==
  /\ AtHead /\ Frame.k = "while"
  /\ \/ \E v \in Values(Loop.e), b \in BOOLEAN :
          /\ b \in Truths(v)
          /\ frames' = IF b THEN Body(Loop.body) \o Turned ELSE Body(Loop.orelse) \o Below
          /\ signal' = Go
          /\ UNCHANGED faults
     \/ \E cls \in Fails(Loop.e) :
          /\ signal' = RaiseAt(Frame.node, cls, TRUE)
          /\ faults' = faults \cup {<<Frame.node, cls>>}
          /\ frames' = Below
  /\ UNCHANGED <<prog, store>>

NextElement ==
  /\ AtHead /\ Frame.k = "for"
  /\ \E v \in Loop.elements : store' = [store EXCEPT ![Loop.x] = v]
  /\ frames' = Body(Loop.body) \o Turned
  /\ signal' = Go
  /\ UNCHANGED <<prog, faults>>

EndFor ==
  /\ AtHead /\ Frame.k = "for"
  /\ Loop.nonempty => Frame.turned
  /\ frames' = Body(Loop.orelse) \o Below
  /\ signal' = Go
  /\ UNCHANGED <<prog, store, faults>>

LeaveLoop ==
  /\ AtLoop /\ signal.s \in {"break", "return", "raise"}
  /\ frames' = Below
  /\ signal' = IF signal.s = "break" THEN Go ELSE signal
  /\ UNCHANGED <<prog, store, faults>>

-----------------------------------------------------------------------------
(* try: the frame says which part of the statement is below the bodies. *)

AtTry == frames # <<>> /\ Frame.k \in {"try", "handler", "else", "final"}
Try   == prog.nodes[Frame.node]

\* The clauses that catch the exception being raised; the first one runs.
Catching == {i \in DOMAIN Try.handlers :
               signal.s = "raise" /\ Try.handlers[i].cls \in Mro[signal.cls]}
Clause   == CHOOSE i \in Catching : \A j \in Catching : i <= j

\* Start finally, remembering what it interrupts.
Finally ==
  IF Try.final = <<>> THEN frames' = Below /\ UNCHANGED signal
  ELSE /\ frames' = Body(Try.final)
                    \o <<[k |-> "final", node |-> Frame.node, pending |-> signal]>> \o Below
       /\ signal' = Go

EnterHandler ==
  /\ AtTry /\ Frame.k = "try" /\ Catching # {}
  /\ LET h == Try.handlers[Clause] IN
     /\ store' = IF h.name = NoName THEN store ELSE [store EXCEPT ![h.name] = ObjectScalar]
     /\ frames' = Body(h.body)
                  \o <<[k |-> "handler", node |-> Frame.node, clause |-> Clause,
                        cls |-> signal.cls]>> \o Below
  /\ signal' = Go
  /\ UNCHANGED <<prog, faults>>

EnterElse ==
  /\ AtTry /\ Frame.k = "try" /\ signal.s = "go"
  /\ frames' = Body(Try.orelse) \o <<[k |-> "else", node |-> Frame.node]>> \o Below
  /\ UNCHANGED <<prog, store, signal, faults>>

EndHandler ==
  /\ AtTry /\ Frame.k = "handler"
  /\ LET h == Try.handlers[Frame.clause] IN
     store' = IF h.name = NoName THEN store ELSE [store EXCEPT ![h.name] = Unbound]
  /\ Finally
  /\ UNCHANGED <<prog, faults>>

EndGuarded ==
  /\ AtTry
  /\ Frame.k = "else" \/ (Frame.k = "try" /\ signal.s # "go" /\ Catching = {})
  /\ Finally
  /\ UNCHANGED <<prog, store, faults>>

EndFinally ==
  /\ AtTry /\ Frame.k = "final"
  /\ frames' = Below
  /\ signal' = IF signal.s = "go" THEN Frame.pending ELSE signal
  /\ UNCHANGED <<prog, store, faults>>

Finished == frames = <<>> /\ UNCHANGED run

RunInit(programs) ==
  /\ prog \in programs
  /\ store = [x \in Vars |-> Unbound]
  /\ frames = Body(prog.main)
  /\ signal = Go
  /\ faults = {}

RunNext ==
  \/ EvalFails \/ DoAssign \/ DoExpr \/ DoDelete \/ DoJump \/ DoReturn \/ DoRaise
  \/ EnterIf \/ EnterBlock \/ LeaveBody
  \/ TestWhile \/ NextElement \/ EndFor \/ LeaveLoop
  \/ EnterHandler \/ EnterElse \/ EndHandler \/ EndGuarded \/ EndFinally
  \/ Finished
=============================================================================
