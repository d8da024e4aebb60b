------------------------------ MODULE MantleRun ------------------------------
(***************************************************************************)
(* A whole lowered function, and what it does when it runs by what         *)
(* StrataPython/Mantle/Env.lean says of the instructions: blocks, values,  *)
(* and the exception being handled, which is state of the run.  An         *)
(* instruction that calls out waits for an outcome; the others run by      *)
(* themselves.                                                             *)
(***************************************************************************)
EXTENDS StatementLowering, FiniteSets, SequencesExt

----------------------------------------------------------------------------
(* The lowering of a whole function. *)

BuildFunc(classBody, ss) ==
  LET exc  == <<"exc", <<>>>>
      ran  == TransStmts(StartBlock(Translator(classBody), <<"entry", <<>>>>, NoValue), ss, <<>>)
      fell == IF IsOpen(ran) THEN FinishBlock(ran, End("return", NoValue, <<>>)) ELSE ran
  IN  CheckClosed(FinishBlock(StartBlock(fell, <<"propagate", <<>>>>, exc), End("error", exc, <<>>)))

----------------------------------------------------------------------------
(* Well-formedness: no label is used twice and no value given twice, every *)
(* successor is a block other than the entry, and no value is used where   *)
(* it may not have been given: none is needed on entry.                    *)

Entry == <<"entry", <<>>>>
Successors(block) ==
  {g.to : g \in ToSet(block.term.succs)} \cup ({i.err : i \in ToSet(block.instrs)} \ {NoLabel})

RECURSIVE ReachedFrom(_, _)
ReachedFrom(labels, blocks) ==
  LET more == labels \cup UNION {Successors(b) : b \in {c \in ToSet(blocks) : c.label \in labels}}
  IN  IF more = labels THEN labels ELSE ReachedFrom(more, blocks)
Reached(blocks) == ReachedFrom({Entry}, blocks)

\* The values a block needs, given what the blocks it may go to need.
Needs(block, need) ==
  LET TermNeeds == ({block.term.on} \cup {g.arg : g \in ToSet(block.term.succs)}
                    \cup UNION {need[g.to] : g \in ToSet(block.term.succs)}) \ {NoValue}
      n == Len(block.instrs)
      before[i \in 1..(n + 1)] ==
        IF i = n + 1 THEN TermNeeds
        ELSE LET instr == block.instrs[i]
             IN  (before[i + 1] \ {instr.res})
                 \cup ({instr.on} \ {NoValue})
                 \cup (IF instr.err = NoLabel THEN {} ELSE need[instr.err])
  IN  before[1] \ {block.param}

RECURSIVE NeededAtLeast(_, _)
NeededAtLeast(need, code) ==
  LET more == [l \in DOMAIN code |-> Needs(code[l], need)]
  IN  IF more = need THEN need ELSE NeededAtLeast(more, code)
Needed(code) == NeededAtLeast([l \in DOMAIN code |-> {}], code)

\* The function as emitted: the blocks its entry reaches, and what each needs.
Emitted(b) ==
  LET reached == Reached(b.blocks)
      kept == SelectSeq(b.blocks, LAMBDA block : block.label \in reached)
      code == [l \in {block.label : block \in ToSet(kept)} |-> CHOOSE block \in ToSet(kept) : block.label = l]
  IN  [code |-> code, distinct |-> Cardinality(DOMAIN code) = Len(kept)]

Given(block) == SelectSeq(<<block.param>> \o [i \in DOMAIN block.instrs |-> block.instrs[i].res],
                          LAMBDA v : v # NoValue)
WellFormed(fn) ==
  /\ fn.distinct
  /\ Cardinality(UNION {ToSet(Given(fn.code[l])) : l \in DOMAIN fn.code}) =
       MapThenSumSet(LAMBDA l : Len(Given(fn.code[l])), DOMAIN fn.code)
  /\ \A label \in DOMAIN fn.code : Successors(fn.code[label]) \subseteq DOMAIN fn.code \ {Entry}
  /\ Needed(fn.code)[Entry] = {}

\* A function that was misused in building, or is not well formed, is a stub.
Stub == Entry :> [label |-> Entry, param |-> NoValue, instrs |-> <<>>,
                  term |-> End("unreachable", NoValue, <<>>)]
BuiltFunc(b) ==
  LET fn   == Emitted(b)
      code == IF b.errors = {} /\ WellFormed(fn) THEN fn.code ELSE Stub
  IN  [code |-> code, needed |-> Needed(code)]

----------------------------------------------------------------------------
(* The run. *)

Started(caller) ==
  [label |-> Entry, pc |-> 1, values |-> <<>>, handled |-> caller, result |-> <<>>]

Finished(run) == run.result # <<>>
BlockOf(fn, run) == fn.code[run.label]
AtEnd(fn, run) == run.pc > Len(BlockOf(fn, run).instrs)
NextInstr(fn, run) == BlockOf(fn, run).instrs[run.pc]
Waits(fn, run) == ~Finished(run) /\ ~AtEnd(fn, run) /\ NextInstr(fn, run).kind = "op"

Value(run, v) == IF v = NoValue THEN NoExc ELSE run.values[v]

\* What the operation a run waits at is, on which exception, with which one handled.
Asked(fn, run) ==
  LET instr == NextInstr(fn, run)
  IN  [op |-> instr.what, on |-> Value(run, instr.on), handled |-> run.handled]

Result(run, res, x) ==
  [run EXCEPT !.pc = @ + 1, !.values = IF res = NoValue THEN @ ELSE (res :> x) @@ @]

\* Going to a block keeps the values needed there.
Go(fn, run, label, x) ==
  LET param  == fn.code[label].param
      values == IF param = NoValue THEN run.values ELSE (param :> x) @@ run.values
      kept   == (fn.needed[label] \cup {param}) \ {NoValue}
  IN  [run EXCEPT !.label = label, !.pc = 1, !.values = [v \in kept |-> values[v]]]

GoTo(fn, run, goto) == Go(fn, run, goto.to, Value(run, goto.arg))

Answer(fn, run, outcome) ==
  LET instr == NextInstr(fn, run)
  IN  IF outcome.how = "raise" THEN Go(fn, run, instr.err, outcome.value)
      ELSE Result(run, instr.res, IF outcome.how = "ok" THEN outcome.value ELSE outcome.how = "yes")

RunInstr(fn, run) ==
  LET instr == NextInstr(fn, run)
      on    == Value(run, instr.on)
  IN  CASE instr.kind = "complete" -> Result(run, instr.res, Completed(instr.what[1], on))
        [] instr.kind = "isStop"   -> Result(run, instr.res, IsStop(on))
        [] instr.kind = "push"     -> [Result(run, instr.res, run.handled) EXCEPT !.handled = on]
        [] instr.kind = "pending"  ->
             [Result(run, instr.res, run.handled) EXCEPT !.handled = IF on.how = "raise" THEN on.value ELSE @]
        [] instr.kind = "pop"      -> [Result(run, NoValue, NoExc) EXCEPT !.handled = on]
        [] instr.kind = "handled"  ->
             IF run.handled = NoExc THEN Go(fn, run, instr.err, NothingActive)
             ELSE Result(run, instr.res, run.handled)

CaseOrder == [normal |-> 1, return |-> 2, raise |-> 3, break |-> 4, continue |-> 5]
RunEnd(fn, run) ==
  LET term == BlockOf(fn, run).term
      on   == Value(run, term.on)
  IN  CASE term.kind = "jump"   -> GoTo(fn, run, term.succs[1])
        [] term.kind = "branch" -> GoTo(fn, run, term.succs[IF on THEN 1 ELSE 2])
        [] term.kind = "case"   -> Go(fn, run, term.succs[CaseOrder[on.how]].to, on.value)
        [] term.kind = "return" -> [run EXCEPT !.result = Completed("return", on), !.values = <<>>]
        [] term.kind = "error"  -> [run EXCEPT !.result = Completed("raise", on), !.values = <<>>]
        [] term.kind = "unreachable" -> [run EXCEPT !.result = Completed("unreachable", on)]

StepByItself(fn, run) == IF AtEnd(fn, run) THEN RunEnd(fn, run) ELSE RunInstr(fn, run)
=============================================================================
