------------------------- MODULE MantleBuilder_proofs -------------------------
(***************************************************************************)
(* The builder driven by any client, in any order: what a function in which *)
(* no misuse was recorded is sure of.  ExitLowering is one such client.     *)
(***************************************************************************)
EXTENDS MantleBuilder, Integers, TLAPS

CONSTANTS Labels, Values, Instructions, Ends

VARIABLE b

Init == b = NewBuilder
Next ==
  \/ \E instr \in Instructions : b' = Emit(b, instr)
  \/ \E label \in Labels \ {NoLabel}, param \in Values : b' = StartBlock(b, label, param)
  \/ \E term \in Ends : b' = FinishBlock(b, term)
  \/ b' = CheckClosed(b)
Spec == Init /\ [][Next]_b

----------------------------------------------------------------------------

Blocks == [label : Labels \ {NoLabel}, param : Values \cup {NoValue}, instrs : Seq(Instructions),
           term : Ends]
TypeOK ==
  /\ b = [label |-> b.label, param |-> b.param, instrs |-> b.instrs, blocks |-> b.blocks,
          labels |-> b.labels, errors |-> b.errors]
  /\ b.label \in Labels \cup {NoLabel}
  /\ b.param \in Values \cup {NoValue}
  /\ b.instrs \in Seq(Instructions)
  /\ b.blocks \in Seq(Blocks)
  /\ b.labels \subseteq Labels \ {NoLabel}

\* Every label opened is that of a finished block or of the open one.
NoneLost ==
  \A label \in b.labels :
    (IsOpen(b) /\ b.label = label) \/ \E i \in DOMAIN b.blocks : b.blocks[i].label = label

\* Finished blocks and the open one have labels of their own, all opened.
LabelsDistinct ==
  /\ \A i, j \in DOMAIN b.blocks : b.blocks[i].label = b.blocks[j].label => i = j
  /\ \A i \in DOMAIN b.blocks : b.blocks[i].label \in b.labels
  /\ IsOpen(b) => b.label \in b.labels /\ \A i \in DOMAIN b.blocks : b.blocks[i].label # b.label

\* A function in which no misuse was recorded has one block for each label opened: none was
\* lost by opening another over it and none shares its label (Build.lean, startBlock).
BlocksKept == b.errors = {} => NoneLost /\ LabelsDistinct

BuilderInv == TypeOK /\ BlocksKept

\* A new builder has no block and no label.
LEMMA BuilderInit == Init => BuilderInv
  BY DEF Init, BuilderInv, TypeOK, BlocksKept, NoneLost, LabelsDistinct, NewBuilder, IsOpen,
         NoLabel, NoValue, Blocks

\* Emitting adds to the open block, or records that there is none.
LEMMA EmitKeeps ==
  ASSUME BuilderInv, NEW instr \in Instructions, b' = Emit(b, instr)
  PROVE  BuilderInv'
<1>1. CASE IsOpen(b)
  <2>1. b' = [b EXCEPT !.instrs = Append(@, instr)]
    BY <1>1 DEF Emit
  <2>2. TypeOK'
    <3>1. Append(b.instrs, instr) \in Seq(Instructions)
      BY DEF BuilderInv, TypeOK
    <3> QED BY <2>1, <3>1 DEF BuilderInv, TypeOK
  <2>3. BlocksKept'
    BY <2>1 DEF BuilderInv, TypeOK, BlocksKept, NoneLost, LabelsDistinct, IsOpen
  <2> QED BY <2>2, <2>3 DEF BuilderInv
<1>2. CASE ~IsOpen(b)
  <2>1. b' = [b EXCEPT !.errors = @ \cup {"no block open"}]
    BY <1>2 DEF Emit, Misuse
  <2> QED BY <2>1 DEF BuilderInv, TypeOK, BlocksKept
<1> QED BY <1>1, <1>2

\* toFunc's last check records a block left open and changes nothing else.
LEMMA CheckClosedKeeps ==
  ASSUME BuilderInv, b' = CheckClosed(b)
  PROVE  BuilderInv'
<1>1. CASE IsOpen(b)
  <2>1. b' = [b EXCEPT !.errors = @ \cup {"ends open"}]
    BY <1>1 DEF CheckClosed, Misuse
  <2> QED BY <2>1 DEF BuilderInv, TypeOK, BlocksKept
<1>2. CASE ~IsOpen(b)
  <2>1. b' = b
    BY <1>2 DEF CheckClosed
  <2> QED BY <2>1 DEF BuilderInv, TypeOK, BlocksKept, NoneLost, LabelsDistinct, IsOpen
<1> QED BY <1>1, <1>2

\* Opening a block: over an open one, or under a label used before, it is misuse on record.
LEMMA StartKeeps ==
  ASSUME BuilderInv, NEW label \in Labels \ {NoLabel}, NEW param \in Values,
         b' = StartBlock(b, label, param)
  PROVE  BuilderInv'
<1> DEFINE lost  == IF IsOpen(b) THEN Misuse(b, "opened while open") ELSE b
           twice == IF label \in b.labels THEN Misuse(lost, "opened twice") ELSE lost
<1> HIDE DEF lost, twice
<1>1. b' = Opened(twice, label, param)
  BY DEF StartBlock, lost, twice
<1>2. \E e :
        /\ twice = [b EXCEPT !.errors = e]
        /\ e = {} => ~IsOpen(b) /\ label \notin b.labels /\ b.errors = {}
  <2>1. \E e : lost = [b EXCEPT !.errors = e] /\ (e = {} => ~IsOpen(b) /\ b.errors = {})
    <3>1. CASE IsOpen(b)
      BY <3>1 DEF lost, Misuse, BuilderInv, TypeOK
    <3>2. CASE ~IsOpen(b)
      <4>1. lost = [b EXCEPT !.errors = b.errors]
        BY <3>2 DEF lost, BuilderInv, TypeOK
      <4> QED BY <3>2, <4>1 DEF BuilderInv, TypeOK
    <3> QED BY <3>1, <3>2
  <2>2. PICK e :
          lost = [b EXCEPT !.errors = e] /\ (e = {} => ~IsOpen(b) /\ b.errors = {})
    BY <2>1
  <2>3. CASE label \in b.labels
    <3>1. twice = [b EXCEPT !.errors = e \cup {"opened twice"}]
      BY <2>2, <2>3 DEF twice, Misuse, BuilderInv, TypeOK
    <3> QED BY <3>1
  <2>4. CASE label \notin b.labels
    BY <2>2, <2>4 DEF twice
  <2> QED BY <2>3, <2>4
<1>3. PICK e :
        /\ twice = [b EXCEPT !.errors = e]
        /\ e = {} => ~IsOpen(b) /\ label \notin b.labels /\ b.errors = {}
  BY <1>2
<1>4. b' = [label |-> label, param |-> param, instrs |-> <<>>, blocks |-> b.blocks,
            labels |-> b.labels \cup {label}, errors |-> e]
  BY <1>1, <1>3 DEF Opened, BuilderInv, TypeOK
<1>5. TypeOK'
  <2>1. <<>> \in Seq(Instructions)
    OBVIOUS
  <2> QED BY <1>4, <2>1 DEF BuilderInv, TypeOK
<1>6. BlocksKept'
  <2> SUFFICES ASSUME e = {}
               PROVE  NoneLost' /\ LabelsDistinct'
    BY <1>4 DEF BlocksKept
  <2>1. ~IsOpen(b) /\ label \notin b.labels /\ NoneLost /\ LabelsDistinct
    BY <1>3 DEF BuilderInv, BlocksKept
  <2>2. NoneLost'
    BY <1>4, <2>1 DEF NoneLost, IsOpen
  <2>3. LabelsDistinct'
    BY <1>4, <2>1 DEF LabelsDistinct, IsOpen
  <2> QED BY <2>2, <2>3
<1> QED BY <1>5, <1>6 DEF BuilderInv

\* Finishing moves the open block, label included, to the finished ones.
LEMMA FinishKeeps ==
  ASSUME BuilderInv, NEW term \in Ends, b' = FinishBlock(b, term)
  PROVE  BuilderInv'
<1>1. CASE ~IsOpen(b)
  <2>1. b' = [b EXCEPT !.errors = @ \cup {"no block to finish"}]
    BY <1>1 DEF FinishBlock, Misuse
  <2> QED BY <2>1 DEF BuilderInv, TypeOK, BlocksKept
<1>2. CASE IsOpen(b)
  <2> DEFINE block == [label |-> b.label, param |-> b.param, instrs |-> b.instrs, term |-> term]
  <2>1. block \in Blocks /\ b.blocks \in Seq(Blocks)
    BY <1>2 DEF BuilderInv, TypeOK, Blocks, IsOpen
  <2>2. b' = [b EXCEPT !.blocks = Append(@, block), !.label = NoLabel, !.param = NoValue,
                       !.instrs = <<>>]
    BY <1>2 DEF FinishBlock
  <2>3. TypeOK'
    <3>1. Append(b.blocks, block) \in Seq(Blocks) /\ <<>> \in Seq(Instructions)
      BY <2>1
    <3> QED BY <2>2, <3>1 DEF BuilderInv, TypeOK
  <2>4. /\ b'.blocks = Append(b.blocks, block) /\ b'.label = NoLabel
        /\ b'.labels = b.labels /\ b'.errors = b.errors
    BY <2>2 DEF BuilderInv, TypeOK
  <2>5. /\ DOMAIN b'.blocks = DOMAIN b.blocks \cup {Len(b.blocks) + 1}
        /\ Len(b.blocks) + 1 \notin DOMAIN b.blocks
        /\ b'.blocks[Len(b.blocks) + 1] = block
        /\ \A i \in DOMAIN b.blocks : b'.blocks[i] = b.blocks[i]
    BY <2>1, <2>4
  <2>6. BlocksKept'
    <3> SUFFICES ASSUME b'.errors = {}
                 PROVE  NoneLost' /\ LabelsDistinct'
      BY DEF BlocksKept
    <3>1. NoneLost /\ LabelsDistinct
      BY <2>4 DEF BuilderInv, BlocksKept
    <3>2. NoneLost'
      <4> SUFFICES ASSUME NEW l \in b.labels
                   PROVE  \E i \in DOMAIN b'.blocks : b'.blocks[i].label = l
        BY <2>4 DEF NoneLost
      <4>1. CASE b.label = l
        BY <4>1, <2>5
      <4>2. CASE b.label # l
        <5>1. PICK i \in DOMAIN b.blocks : b.blocks[i].label = l
          BY <4>2, <3>1 DEF NoneLost
        <5> QED BY <5>1, <2>5
      <4> QED BY <4>1, <4>2
    <3>3. LabelsDistinct'
      BY <1>2, <2>4, <2>5, <3>1 DEF LabelsDistinct, IsOpen
    <3> QED BY <3>2, <3>3
  <2> QED BY <2>3, <2>6 DEF BuilderInv
<1> QED BY <1>1, <1>2

\* However its client uses it, a builder without a recorded misuse has every block it opened
\* exactly once: a misuse cannot pass unrecorded.
THEOREM BuilderKeepsBlocks == Spec => []BlocksKept
<1>1. Init => BuilderInv
  BY BuilderInit
<1>2. BuilderInv /\ [Next]_b => BuilderInv'
  <2> SUFFICES ASSUME BuilderInv, [Next]_b
               PROVE  BuilderInv'
    OBVIOUS
  <2>1. ASSUME NEW instr \in Instructions, b' = Emit(b, instr)
        PROVE  BuilderInv'
    BY <2>1, EmitKeeps
  <2>2. ASSUME NEW label \in Labels \ {NoLabel}, NEW param \in Values,
               b' = StartBlock(b, label, param)
        PROVE  BuilderInv'
    BY <2>2, StartKeeps
  <2>3. ASSUME NEW term \in Ends, b' = FinishBlock(b, term)
        PROVE  BuilderInv'
    BY <2>3, FinishKeeps
  <2>4. CASE b' = CheckClosed(b)
    BY <2>4, CheckClosedKeeps
  <2>5. CASE UNCHANGED b
    BY <2>5 DEF BuilderInv, TypeOK, BlocksKept, NoneLost, LabelsDistinct, IsOpen
  <2> QED BY <2>1, <2>2, <2>3, <2>4, <2>5 DEF Next
<1>3. BuilderInv => BlocksKept
  BY DEF BuilderInv
<1> QED BY <1>1, <1>2, <1>3, PTL DEF Spec
=============================================================================
