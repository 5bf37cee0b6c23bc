-------------------------- MODULE GpuPipelineProofs --------------------------
(***************************************************************************)
(* Proofs about GpuPipeline, for every ring of at least two slots, every   *)
(* snapshot interval, every number of batches and every set of cells: its  *)
(* types, the use of the ring's slots, and the order in which kernels and  *)
(* copies execute on the two streams.                                      *)
(***************************************************************************)
EXTENDS GpuPipeline, TLAPS

USE NSlotsAssumption, IntervalAssumption, MaxBatchesAssumption

\* The part of the loop body in which the current batch is not yet counted.
InBatch == pc \in {"barrier", "reset_wait", "reset", "h2d", "decode", "aggregate"}

CountInv ==
    /\ Len(opens) = IF InBatch THEN batches + 1 ELSE batches
    /\ pc \in {"print", "print_pending"} => pending # Null

TypeInv == TypeOK /\ CountInv

-----------------------------------------------------------------------------
\* The values a kernel writes to a cell are cell values.
LEMMA CellTypes ==
    /\ EmptyCell \in CellValue
    /\ EmptyAccum \in AccumValue
    /\ \A cell \in CellValue, b \in Nat : Aggregated(cell, b) \in CellValue
<1>1. EmptyCell \in CellValue
  BY DEF EmptyCell, CellValue
<1>2. ASSUME NEW cell \in CellValue, NEW b \in Nat
      PROVE  Aggregated(cell, b) \in CellValue
  <2>1. CASE b \in Batch
    <3>1. cell[b] + 1 \in Nat
      BY <2>1 DEF CellValue
    <3> QED
      BY <3>1 DEF CellValue, Aggregated
  <2>2. CASE b \notin Batch
    BY <2>2 DEF CellValue, Aggregated
  <2> QED
    BY <2>1, <2>2
<1> QED
  BY <1>1, <1>2 DEF EmptyAccum, AccumValue

\* What issuing a command does to the two streams.
LEMMA Issuing ==
    ASSUME issued \in [Stream -> Seq(Command)], NEW s \in Stream, NEW c \in Command,
           Issue(s, c)
    PROVE  /\ issued' \in [Stream -> Seq(Command)]
           /\ issued'[1 - s] = issued[1 - s]
           /\ Len(issued'[s]) = Len(issued[s]) + 1
           /\ issued'[s][Len(issued[s]) + 1] = c
           /\ \A p \in 1..Len(issued[s]) : issued'[s][p] = issued[s][p]
<1>1. issued[s] \in Seq(Command) /\ 1 - s \in Stream /\ 1 - s # s
  BY DEF Stream
<1>2. issued'[s] = Append(issued[s], c) /\ issued'[1 - s] = issued[1 - s]
  BY <1>1 DEF Issue
<1>3. issued' \in [Stream -> Seq(Command)]
  BY <1>1, <1>2 DEF Issue
<1> QED
  BY <1>1, <1>2, <1>3

\* What the host issues are commands.
LEMMA CommandTypes ==
    ASSUME TypeInv
    PROVE  /\ \A ev \in Event : Wait(ev) \in Command
           /\ \A op \in {"h2d", "decode", "aggregate"} : OnSlot(op) \in Command
           /\ \A op \in {"reset", "snapshot"} : Kernel(op) \in Command
           /\ \A i \in {0, 1} : CopyTo(i) \in Command
BY DEF TypeInv, TypeOK, Wait, OnSlot, Kernel, CopyTo, Command, CurrentBatch

\* The head of a busy stream is a command, of one of four shapes.
LEMMA HeadTypes ==
    ASSUME TypeOK, NEW s \in Stream, Busy(s)
    PROVE  /\ retired[s] + 1 \in 1..Len(issued[s])
           /\ HeadOf(s) \in Command
           /\ HeadOf(s).op = "wait" => HeadOf(s).ev \in Event
           /\ HeadOf(s).op \in SlotOps => HeadOf(s).slot \in Slot
           /\ HeadOf(s).op = "d2h" => HeadOf(s).dst \in {0, 1}
<1>1. retired[s] + 1 \in 1..Len(issued[s])
  BY DEF TypeOK, Busy
<1>2. HeadOf(s) \in Command
  BY <1>1 DEF TypeOK, HeadOf
<1> QED
  BY <1>1, <1>2 DEF Command, SlotOps

-----------------------------------------------------------------------------
(***************************************************************************)
(* Type correctness, action by action.                                     *)
(***************************************************************************)
\* The type invariant holds when the loop is entered.
LEMMA InitType == Init => TypeInv
<1> SUFFICES ASSUME Init PROVE TypeInv
  OBVIOUS
<1>1. /\ issued \in [Stream -> Seq(Command)]
      /\ opens \in Seq(BOOLEAN) /\ Len(opens) = 0
      /\ printed \in Seq(PrintedRow)
      /\ \A s \in Stream : retired[s] <= Len(issued[s])
  BY DEF Init
<1>2. acc \in AccumValue /\ d_snap \in AccumValue /\ h_snap \in [{0, 1} -> AccumValue]
  BY CellTypes DEF Init
<1>3. /\ pc = "acquire" /\ next_ \in Slot /\ slot \in Slot
      /\ si = 0 /\ batches = 0 /\ last_ts = 0 /\ bi = 0 /\ pending = Null /\ pending_ts = 0
  BY DEF Init, Slot
<1>4. reset_vwap \in BOOLEAN /\ barrier_set \in BOOLEAN
  BY DEF Init
<1>5. last_agg \in [Stream -> Slot \cup {Null}]
  BY DEF Init
<1>6. done \in [Slot -> Event] /\ barrier_ev \in Event /\ snap_done \in [{0, 1} -> Event]
  BY DEF Init, Event, NeverRecorded, Stream
<1>7. /\ retired \in [Stream -> Nat]
      /\ did \in [Stream -> SUBSET ({"read", "write", "consume"} \X Cells)]
  BY DEF Init
<1>8. /\ h_raw \in [Slot -> Batch \cup {NoBatch}]
      /\ d_raw \in [Slot -> Batch \cup {NoBatch}]
      /\ soa \in [Slot -> Batch \cup {NoBatch}]
  BY DEF Init
<1>9. TypeOK
  BY <1>1, <1>2, <1>3, <1>4, <1>5, <1>6, <1>7, <1>8 DEF TypeOK, HostPc, Stream
<1>10. CountInv
  BY <1>1, <1>3 DEF CountInv, InBatch
<1> QED
  BY <1>9, <1>10 DEF TypeInv

USE DEF hostVars, eventVars, deviceVars, ioVars

\* SlotRing::acquire stays within the ring.
LEMMA AcquireType == TypeInv /\ Acquire => TypeInv'
<1> SUFFICES ASSUME TypeInv, Acquire PROVE TypeInv'
  OBVIOUS
<1>1. (next_ + 1) % NSlots \in Slot
  BY DEF TypeInv, TypeOK, Slot
<1> QED
  BY <1>1 DEF Acquire, TypeInv, TypeOK, CountInv, InBatch, HostPc

\* fill returns a batch: one more open flag, its number in the slot.
LEMMA FillType == TypeInv /\ Fill => TypeInv'
<1> SUFFICES ASSUME TypeInv, Fill PROVE TypeInv'
  OBVIOUS
<1>1. PICK open \in BOOLEAN : reset_vwap' = open /\ opens' = Append(opens, open)
  BY DEF Fill
<1>2. /\ opens' \in Seq(BOOLEAN) /\ Len(opens') = batches + 1
      /\ Len(opens') <= MaxBatches
  BY <1>1 DEF Fill, TypeInv, TypeOK, CountInv, InBatch
<1>3. h_raw' \in [Slot -> Batch \cup {NoBatch}]
  BY DEF Fill, TypeInv, TypeOK, Batch
<1>4. batches % 2 \in Stream
  BY DEF TypeInv, TypeOK, Stream
<1> QED
  BY <1>1, <1>2, <1>3, <1>4 DEF Fill, TypeInv, TypeOK, CountInv, InBatch, HostPc

\* The steps that issue and print nothing.
LEMMA SilentType ==
    TypeInv /\ (FeedEnds \/ Drain \/ NextBatch \/ SyncStreams \/ FinalSync) => TypeInv'
<1>1. TypeInv /\ FeedEnds => TypeInv'
  BY DEF FeedEnds, TypeInv, TypeOK, CountInv, InBatch, HostPc
<1>2. TypeInv /\ Drain => TypeInv'
  BY DEF Drain, OtherBuffer, TypeInv, TypeOK, CountInv, InBatch, HostPc
<1>3. TypeInv /\ NextBatch => TypeInv'
  BY DEF NextBatch, TypeInv, TypeOK, CountInv, InBatch, HostPc
<1>4. TypeInv /\ SyncStreams => TypeInv'
  BY DEF SyncStreams, TypeInv, TypeOK, CountInv, InBatch, HostPc
<1>5. TypeInv /\ FinalSync => TypeInv'
  BY DEF FinalSync, TypeInv, TypeOK, CountInv, InBatch, HostPc
<1> QED
  BY <1>1, <1>2, <1>3, <1>4, <1>5

(***************************************************************************)
(* The actions that issue one command.                                     *)
(***************************************************************************)
LEMMA RecordTypes ==
    ASSUME TypeInv, NEW s \in Stream
    PROVE  RecordAfterIssue(s) \in Event
<1>1. issued[s] \in Seq(Command)
  BY DEF TypeInv, TypeOK
<1> QED
  BY <1>1 DEF RecordAfterIssue, Event

\* What the type invariant says of the streams survives an issue.
LEMMA IssueKeepsTypes ==
    ASSUME TypeInv, NEW s \in Stream, NEW c \in Command, Issue(s, c), UNCHANGED retired
    PROVE  /\ issued' \in [Stream -> Seq(Command)]
           /\ \A t \in Stream : retired'[t] <= Len(issued'[t])
<1>1. issued \in [Stream -> Seq(Command)]
  BY DEF TypeInv, TypeOK
<1>2. /\ issued' \in [Stream -> Seq(Command)]
      /\ issued'[1 - s] = issued[1 - s]
      /\ Len(issued'[s]) = Len(issued[s]) + 1
  BY <1>1, Issuing
<1>3. \A t \in Stream : t = s \/ t = 1 - s
  BY DEF Stream
<1>4. Len(issued[s]) \in Nat /\ retired[s] \in Nat
  BY <1>1 DEF TypeInv, TypeOK
<1>5. retired'[s] <= Len(issued'[s])
  BY <1>2, <1>4 DEF TypeInv, TypeOK
<1>6. retired'[1 - s] <= Len(issued'[1 - s])
  <2>1. 1 - s \in Stream
    BY DEF Stream
  <2> QED
    BY <1>2, <2>1 DEF TypeInv, TypeOK
<1> QED
  BY <1>2, <1>3, <1>5, <1>6

\* The wait on the other stream's last aggregate, issued or not.
LEMMA WaitForOtherStreamKeepsTypes ==
    ASSUME TypeInv, WaitForOtherStream, UNCHANGED retired
    PROVE  /\ issued' \in [Stream -> Seq(Command)]
           /\ \A t \in Stream : retired'[t] <= Len(issued'[t])
<1>1. CASE last_agg[1 - si] # Null
  <2>1. si \in Stream /\ 1 - si \in Stream
    BY DEF TypeInv, TypeOK, Stream
  <2>2. done[last_agg[1 - si]] \in Event
    BY <1>1, <2>1 DEF TypeInv, TypeOK
  <2>3. Wait(done[last_agg[1 - si]]) \in Command
    BY <2>2, CommandTypes
  <2> QED
    BY <1>1, <2>1, <2>3, IssueKeepsTypes DEF WaitForOtherStream
<1>2. CASE last_agg[1 - si] = Null
  BY <1>2 DEF WaitForOtherStream, TypeInv, TypeOK
<1> QED
  BY <1>1, <1>2

\* The three places where an event wait is issued.
LEMMA WaitsType ==
    TypeInv /\ (WaitForBarrier \/ WaitBeforeReset \/ WaitBeforeSnapshot) => TypeInv'
<1>1. ASSUME TypeInv, WaitForBarrier PROVE TypeInv'
  <2>1. /\ issued' \in [Stream -> Seq(Command)]
        /\ \A t \in Stream : retired'[t] <= Len(issued'[t])
    <3>1. CASE barrier_set
      <4>1. Wait(barrier_ev) \in Command /\ si \in Stream
        BY <1>1, CommandTypes DEF TypeInv, TypeOK
      <4> QED
        BY <1>1, <3>1, <4>1, IssueKeepsTypes DEF WaitForBarrier
    <3>2. CASE ~barrier_set
      BY <1>1, <3>2 DEF WaitForBarrier, TypeInv, TypeOK
    <3> QED
      BY <3>1, <3>2
  <2>2. pc' \in {"reset_wait", "h2d"} /\ pc = "barrier"
    BY <1>1 DEF WaitForBarrier
  <2> QED
    BY <1>1, <2>1, <2>2 DEF WaitForBarrier, TypeInv, TypeOK, CountInv, InBatch, HostPc
<1>2. ASSUME TypeInv, WaitBeforeReset PROVE TypeInv'
  <2>1. /\ issued' \in [Stream -> Seq(Command)]
        /\ \A t \in Stream : retired'[t] <= Len(issued'[t])
    BY <1>2, WaitForOtherStreamKeepsTypes DEF WaitBeforeReset
  <2> QED
    BY <1>2, <2>1 DEF WaitBeforeReset, TypeInv, TypeOK, CountInv, InBatch, HostPc
<1>3. ASSUME TypeInv, WaitBeforeSnapshot PROVE TypeInv'
  <2>1. /\ issued' \in [Stream -> Seq(Command)]
        /\ \A t \in Stream : retired'[t] <= Len(issued'[t])
    BY <1>3, WaitForOtherStreamKeepsTypes DEF WaitBeforeSnapshot
  <2> QED
    BY <1>3, <2>1 DEF WaitBeforeSnapshot, TypeInv, TypeOK, CountInv, InBatch, HostPc
<1> QED
  BY <1>1, <1>2, <1>3

\* The copy to the device and the decoding.
LEMMA CopiesInType == TypeInv /\ (CopyIn \/ Decode) => TypeInv'
<1> SUFFICES ASSUME TypeInv, CopyIn \/ Decode PROVE TypeInv'
  OBVIOUS
<1>1. \E op \in {"h2d", "decode"} : Issue(si, OnSlot(op))
  BY DEF CopyIn, Decode
<1>2. /\ issued' \in [Stream -> Seq(Command)]
      /\ \A t \in Stream : retired'[t] <= Len(issued'[t])
  BY <1>1, CommandTypes, IssueKeepsTypes DEF CopyIn, Decode, TypeInv, TypeOK
<1> QED
  BY <1>2 DEF CopyIn, Decode, TypeInv, TypeOK, CountInv, InBatch, HostPc

\* The kernels after which barrier_ev is recorded.
LEMMA BarrierKernelsType == TypeInv /\ (Reset \/ TakeSnapshot) => TypeInv'
<1> SUFFICES ASSUME TypeInv, Reset \/ TakeSnapshot PROVE TypeInv'
  OBVIOUS
<1>1. \E op \in {"reset", "snapshot"} : Issue(si, Kernel(op))
  BY DEF Reset, TakeSnapshot
<1>2. /\ issued' \in [Stream -> Seq(Command)]
      /\ \A t \in Stream : retired'[t] <= Len(issued'[t])
  BY <1>1, CommandTypes, IssueKeepsTypes DEF Reset, TakeSnapshot, TypeInv, TypeOK
<1>3. barrier_ev' \in Event /\ barrier_set' \in BOOLEAN
  BY RecordTypes DEF Reset, TakeSnapshot, RecordBarrier, TypeInv, TypeOK
<1> QED
  BY <1>2, <1>3 DEF Reset, TakeSnapshot, TypeInv, TypeOK, CountInv, InBatch, HostPc

\* The aggregate, after which done is recorded and the batch counted.
LEMMA AggregateType == TypeInv /\ Aggregate => TypeInv'
<1> SUFFICES ASSUME TypeInv, Aggregate PROVE TypeInv'
  OBVIOUS
<1>1. /\ issued' \in [Stream -> Seq(Command)]
      /\ \A t \in Stream : retired'[t] <= Len(issued'[t])
  BY CommandTypes, IssueKeepsTypes DEF Aggregate, TypeInv, TypeOK
<1>2. done' \in [Slot -> Event] /\ last_agg' \in [Stream -> Slot \cup {Null}]
  BY RecordTypes DEF Aggregate, TypeInv, TypeOK
<1>3. /\ Len(opens) = batches + 1 /\ Len(opens) <= MaxBatches
      /\ batches' = batches + 1 /\ batches' \in 0..MaxBatches /\ last_ts' \in 0..MaxBatches
  BY DEF Aggregate, TypeInv, TypeOK, CountInv, InBatch
<1>4. pc' \in {"snap_wait", "next_batch"}
  BY DEF Aggregate
<1> QED
  BY <1>1, <1>2, <1>3, <1>4 DEF Aggregate, TypeInv, TypeOK, CountInv, InBatch, HostPc

\* The copy of a periodic snapshot to the host.
LEMMA CopyOutType == TypeInv /\ CopyOut => TypeInv'
<1> SUFFICES ASSUME TypeInv, CopyOut PROVE TypeInv'
  OBVIOUS
<1>1. /\ issued' \in [Stream -> Seq(Command)]
      /\ \A t \in Stream : retired'[t] <= Len(issued'[t])
  BY CommandTypes, IssueKeepsTypes DEF CopyOut, TypeInv, TypeOK
<1>2. snap_done' \in [{0, 1} -> Event]
  BY RecordTypes DEF CopyOut, TypeInv, TypeOK
<1> QED
  BY <1>1, <1>2 DEF CopyOut, TypeInv, TypeOK, CountInv, InBatch, HostPc

\* The final snapshot and its copy.
LEMMA FinalIssuesType == TypeInv /\ (FinalSnapshot \/ FinalCopyOut) => TypeInv'
<1> SUFFICES ASSUME TypeInv, FinalSnapshot \/ FinalCopyOut PROVE TypeInv'
  OBVIOUS
<1>1. Issue(0, Kernel("snapshot")) \/ Issue(0, CopyTo(0))
  BY DEF FinalSnapshot, FinalCopyOut
<1>2. /\ issued' \in [Stream -> Seq(Command)]
      /\ \A t \in Stream : retired'[t] <= Len(issued'[t])
  BY <1>1, CommandTypes, IssueKeepsTypes DEF FinalSnapshot, FinalCopyOut, Stream
<1> QED
  BY <1>2 DEF FinalSnapshot, FinalCopyOut, TypeInv, TypeOK, CountInv, InBatch, HostPc

\* The rows printed are rows: a periodic one has a buffer pending.
LEMMA PrintsType == TypeInv /\ (PrintDrained \/ PrintPending \/ FinalPrint) => TypeInv'
<1> SUFFICES ASSUME TypeInv, PrintDrained \/ PrintPending \/ FinalPrint PROVE TypeInv'
  OBVIOUS
<1>1. PICK ts \in 0..MaxBatches, i \in {0, 1} :
        printed' = Append(printed, [ts |-> ts, cells |-> h_snap[i]])
  BY DEF PrintDrained, PrintPending, FinalPrint, PrintRow, TypeInv, TypeOK, CountInv, Null
<1>2. [ts |-> ts, cells |-> h_snap[i]] \in PrintedRow
  BY DEF TypeInv, TypeOK, PrintedRow
<1>3. printed' \in Seq(PrintedRow)
  BY <1>1, <1>2 DEF TypeInv, TypeOK
<1> QED
  BY <1>3 DEF PrintDrained, PrintPending, FinalPrint, TypeInv, TypeOK, CountInv, InBatch, HostPc

-----------------------------------------------------------------------------
(***************************************************************************)
(* The streams.  Whatever a step of stream s does to the memory, it either *)
(* retires the head of s or takes one step of the kernel at the head.      *)
(***************************************************************************)
LEMMA Retiring ==
    ASSUME TypeOK, NEW s \in Stream, Busy(s), Retire(s), UNCHANGED issued
    PROVE  /\ retired' \in [Stream -> Nat]
           /\ \A t \in Stream : retired'[t] <= Len(issued'[t])
           /\ did' \in [Stream -> SUBSET ({"read", "write", "consume"} \X Cells)]
           /\ retired'[s] = retired[s] + 1
           /\ retired'[1 - s] = retired[1 - s]
<1>1. retired[s] \in Nat /\ retired[s] + 1 <= Len(issued[s])
  BY DEF TypeOK, Busy
<1>2. retired'[s] = retired[s] + 1 /\ \A t \in Stream : t # s => retired'[t] = retired[t]
  BY DEF TypeOK, Retire
<1>3. retired' \in [Stream -> Nat]
  BY <1>1 DEF TypeOK, Retire
<1>4. \A t \in Stream : retired'[t] <= Len(issued'[t])
  BY <1>1, <1>2 DEF TypeOK
<1>5. did' \in [Stream -> SUBSET ({"read", "write", "consume"} \X Cells)]
  BY DEF TypeOK, Retire
<1>6. 1 - s \in Stream /\ 1 - s # s
  BY DEF Stream
<1> QED
  BY <1>2, <1>3, <1>4, <1>5, <1>6

\* A kernel takes one of its steps, and retires with the last.
LEMMA KernelStepping ==
    ASSUME TypeOK, NEW s \in Stream, NEW op \in AccumOps, NEW step,
           KernelStep(s, op, step), UNCHANGED issued
    PROVE  /\ Busy(s) /\ HeadOf(s).op = op
           /\ retired' \in [Stream -> Nat]
           /\ \A t \in Stream : retired'[t] <= Len(issued'[t])
           /\ did' \in [Stream -> SUBSET ({"read", "write", "consume"} \X Cells)]
           /\ UNCHANGED retired \/ Retire(s)
<1>1. Busy(s) /\ HeadOf(s).op = op /\ step \in Steps(op)
  BY DEF KernelStep, At
<1>2. step \in {"read", "write", "consume"} \X Cells
  BY <1>1 DEF Steps, Cells
<1>3. CASE Retire(s)
  BY <1>1, <1>3, Retiring
<1>4. CASE did' = [did EXCEPT ![s] = @ \cup {step}] /\ UNCHANGED retired
  BY <1>1, <1>2, <1>4 DEF TypeOK
<1> QED
  BY <1>1, <1>3, <1>4 DEF KernelStep

\* A step of a stream leaves the host alone.
LEMMA StreamSteps ==
    ASSUME TypeOK, NEW s \in Stream, Device(s)
    PROVE  UNCHANGED hostSide /\ Busy(s) /\ (UNCHANGED retired \/ Retire(s))
<1>1. CASE StreamWait(s) \/ CopyHostToDevice(s) \/ DecodeKernel(s) \/ CopyDeviceToHost(s)
  BY <1>1 DEF StreamWait, CopyHostToDevice, DecodeKernel, CopyDeviceToHost, At, hostSide
<1>2. CASE AggregateKernel(s) \/ ResetKernel(s) \/ SnapshotRead(s) \/ SnapshotConsume(s)
  BY <1>2 DEF AggregateKernel, ResetKernel, SnapshotRead, SnapshotConsume, KernelStep, At
<1> QED
  BY <1>1, <1>2 DEF Device

\* The commands that execute in one step.
LEMMA RetiringStepsType ==
    ASSUME TypeInv, NEW s \in Stream,
           StreamWait(s) \/ CopyHostToDevice(s) \/ DecodeKernel(s) \/ CopyDeviceToHost(s)
    PROVE  TypeInv'
<1>1. UNCHANGED hostSide /\ Busy(s) /\ Retire(s)
  BY DEF StreamWait, CopyHostToDevice, DecodeKernel, CopyDeviceToHost, At, hostSide
<1>2. /\ retired' \in [Stream -> Nat]
      /\ \A t \in Stream : retired'[t] <= Len(issued'[t])
      /\ did' \in [Stream -> SUBSET ({"read", "write", "consume"} \X Cells)]
  BY <1>1, Retiring DEF TypeInv, hostSide
<1>3. HeadOf(s).op \in SlotOps => HeadOf(s).slot \in Slot
  BY <1>1, HeadTypes DEF TypeInv
<1>4. /\ d_raw' \in [Slot -> Batch \cup {NoBatch}]
      /\ soa' \in [Slot -> Batch \cup {NoBatch}]
      /\ acc' \in AccumValue /\ d_snap' \in AccumValue
      /\ h_snap' \in [{0, 1} -> AccumValue]
  <2>1. /\ h_raw \in [Slot -> Batch \cup {NoBatch}]
        /\ d_raw \in [Slot -> Batch \cup {NoBatch}]
        /\ soa \in [Slot -> Batch \cup {NoBatch}]
        /\ acc \in AccumValue /\ d_snap \in AccumValue
        /\ h_snap \in [{0, 1} -> AccumValue]
    BY DEF TypeInv, TypeOK
  <2>2. CASE StreamWait(s)
    BY <2>1, <2>2 DEF StreamWait
  <2>3. CASE CopyHostToDevice(s)
    <3>1. HeadOf(s).slot \in Slot
      BY <1>3, <2>3 DEF CopyHostToDevice, At, SlotOps
    <3> QED
      BY <2>1, <2>3, <3>1 DEF CopyHostToDevice
  <2>4. CASE DecodeKernel(s)
    <3>1. HeadOf(s).slot \in Slot
      BY <1>3, <2>4 DEF DecodeKernel, At, SlotOps
    <3> QED
      BY <2>1, <2>4, <3>1 DEF DecodeKernel
  <2>5. CASE CopyDeviceToHost(s)
    BY <2>1, <2>5 DEF CopyDeviceToHost
  <2> QED
    BY <2>2, <2>3, <2>4, <2>5
<1> QED
  BY <1>1, <1>2, <1>4 DEF hostSide, TypeInv, TypeOK, CountInv, InBatch

\* The steps of kernels on the accumulators.
LEMMA KernelStepsType ==
    ASSUME TypeInv, NEW s \in Stream,
           AggregateKernel(s) \/ ResetKernel(s) \/ SnapshotRead(s) \/ SnapshotConsume(s)
    PROVE  TypeInv'
<1>1. UNCHANGED <<hostSide, d_raw, soa, h_snap>>
  BY DEF AggregateKernel, ResetKernel, SnapshotRead, SnapshotConsume
<1>2. PICK op \in AccumOps, step \in {"read", "write", "consume"} \X Cells :
        KernelStep(s, op, step)
  BY DEF AggregateKernel, ResetKernel, SnapshotRead, SnapshotConsume, AccumOps, WholeArray,
         Cells
<1>3. /\ Busy(s) /\ HeadOf(s).op = op
      /\ retired' \in [Stream -> Nat]
      /\ \A t \in Stream : retired'[t] <= Len(issued'[t])
      /\ did' \in [Stream -> SUBSET ({"read", "write", "consume"} \X Cells)]
  BY <1>1, <1>2, KernelStepping DEF TypeInv, hostSide
<1>4. acc' \in AccumValue /\ d_snap' \in AccumValue
  <2>1. CASE AggregateKernel(s)
    <3>1. PICK c \in Cells :
            /\ KernelStep(s, "aggregate", <<"write", c>>)
            /\ acc' = [acc EXCEPT ![c] = Aggregated(@, soa[HeadOf(s).slot])]
      BY <2>1 DEF AggregateKernel
    <3>2. HeadOf(s).slot \in Slot
      BY <3>1, HeadTypes DEF KernelStep, At, SlotOps, TypeInv
    <3>3. soa[HeadOf(s).slot] \in Nat
      BY <3>2 DEF TypeInv, TypeOK, Batch, NoBatch
    <3>4. acc[c] \in CellValue
      BY DEF TypeInv, TypeOK, AccumValue
    <3>5. Aggregated(acc[c], soa[HeadOf(s).slot]) \in CellValue
      BY <3>3, <3>4, CellTypes
    <3>6. acc' \in AccumValue
      BY <3>1, <3>5 DEF TypeInv, TypeOK, AccumValue
    <3> QED
      BY <2>1, <3>6 DEF AggregateKernel, TypeInv, TypeOK
  <2>2. CASE ResetKernel(s) \/ SnapshotConsume(s)
    <3>1. EmptyCell \in CellValue
      BY CellTypes
    <3>2. PICK c \in Cells : acc' = [acc EXCEPT ![c] = EmptyCell]
      BY <2>2 DEF ResetKernel, SnapshotConsume, Cells
    <3>3. acc' \in AccumValue
      BY <3>1, <3>2 DEF TypeInv, TypeOK, AccumValue
    <3> QED
      BY <2>2, <3>3 DEF ResetKernel, SnapshotConsume, TypeInv, TypeOK
  <2>3. CASE SnapshotRead(s)
    <3>1. PICK c \in Cells : d_snap' = [d_snap EXCEPT ![c] = acc[c]]
      BY <2>3 DEF SnapshotRead
    <3>2. d_snap' \in AccumValue
      BY <3>1 DEF TypeInv, TypeOK, AccumValue
    <3> QED
      BY <2>3, <3>2 DEF SnapshotRead, TypeInv, TypeOK
  <2> QED
    BY <2>1, <2>2, <2>3
<1> QED
  BY <1>1, <1>3, <1>4 DEF hostSide, TypeInv, TypeOK, CountInv, InBatch

\* Every step keeps the type invariant.
LEMMA NextType == TypeInv /\ [Next]_vars => TypeInv'
<1> SUFFICES ASSUME TypeInv, [Next]_vars PROVE TypeInv'
  OBVIOUS
<1>1. CASE Host
  BY <1>1, AcquireType, FillType, SilentType, WaitsType, CopiesInType, BarrierKernelsType,
     AggregateType, CopyOutType, FinalIssuesType, PrintsType DEF Host
<1>2. ASSUME NEW s \in Stream, Device(s) PROVE TypeInv'
  BY <1>2, RetiringStepsType, KernelStepsType DEF Device
<1>3. CASE UNCHANGED vars
  BY <1>3 DEF vars, TypeInv, TypeOK, CountInv, InBatch
<1> QED
  BY <1>1, <1>2, <1>3 DEF Next, Terminated

\* Every variable of the pipeline keeps its type, the device memory and the
\* command queues included.
THEOREM TypeCorrect == Spec => []TypeOK
<1>1. TypeInv => TypeOK
  BY DEF TypeInv
<1> QED
  BY InitType, NextType, <1>1, PTL DEF Spec

-----------------------------------------------------------------------------
(***************************************************************************)
(* The slot handed to the parser is not in use.                            *)
(*                                                                         *)
(* Every command in flight that uses a slot lies at or before the position *)
(* the slot's done event captured, unless the host is between the copy and *)
(* the record of the current batch; and the done event of the slot the     *)
(* host works on stays complete until it is recorded again.  The second    *)
(* part is what lets the record of Aggregate overwrite the event.          *)
(***************************************************************************)
CoveredByDone(s, p) ==
    LET ev == done[issued[s][p].slot] IN ev.stream = s /\ p <= ev.pos

SlotsCovered ==
    \A s \in Stream : \A p \in Unretired(s) :
        issued[s][p].op \in SlotOps =>
            \/ CoveredByDone(s, p)
            \/ pc \in {"decode", "aggregate"} /\ issued[s][p].slot = slot /\ s = si

SlotReady == pc = "fill" \/ InBatch => Completed(done[slot])

SlotInv == SlotsCovered /\ SlotReady

\* The commands in flight after an issue: the earlier ones and the new one.
LEMMA InFlightAfterIssue ==
    ASSUME TypeInv, NEW s \in Stream, NEW c \in Command, Issue(s, c), UNCHANGED retired,
           NEW t \in Stream, NEW p \in Unretired(t)'
    PROVE  \/ p \in Unretired(t) /\ issued'[t][p] = issued[t][p]
           \/ t = s /\ p = Len(issued[s]) + 1 /\ issued'[t][p] = c
<1>1. issued \in [Stream -> Seq(Command)] /\ retired \in [Stream -> Nat]
  BY DEF TypeInv, TypeOK
<1>2. /\ issued'[1 - s] = issued[1 - s]
      /\ Len(issued'[s]) = Len(issued[s]) + 1
      /\ issued'[s][Len(issued[s]) + 1] = c
      /\ \A q \in 1..Len(issued[s]) : issued'[s][q] = issued[s][q]
  BY <1>1, Issuing
<1>3. p \in retired[t]+1 .. Len(issued'[t])
  BY DEF Unretired
<1>4. CASE t = 1 - s
  BY <1>1, <1>2, <1>3, <1>4 DEF Unretired
<1>5. CASE t = s
  <2>1. Len(issued[s]) \in Nat /\ retired[s] \in Nat
    BY <1>1
  <2> QED
    BY <1>2, <1>3, <1>5, <2>1 DEF Unretired
<1>6. t = s \/ t = 1 - s
  BY DEF Stream
<1> QED
  BY <1>4, <1>5, <1>6

\* A step that issues no slot command and re-records no done event keeps the
\* commands in flight covered, outside the copy-to-record part of the loop.
LEMMA CoveredAfterOtherIssue ==
    ASSUME TypeInv, SlotsCovered, UNCHANGED <<retired, done>>,
           pc \notin {"decode", "aggregate"},
           \/ UNCHANGED issued
           \/ \E s \in Stream, c \in Command : c.op \notin SlotOps /\ Issue(s, c)
    PROVE  SlotsCovered'
<1> SUFFICES ASSUME NEW t \in Stream, NEW p \in Unretired(t)', issued'[t][p].op \in SlotOps
             PROVE  CoveredByDone(t, p)'
  BY DEF SlotsCovered
<1>1. p \in Unretired(t) /\ issued'[t][p] = issued[t][p]
  <2>1. CASE UNCHANGED issued
    BY <2>1 DEF Unretired
  <2>2. ASSUME NEW s \in Stream, NEW c \in Command, c.op \notin SlotOps, Issue(s, c)
        PROVE  p \in Unretired(t) /\ issued'[t][p] = issued[t][p]
    BY <2>2, InFlightAfterIssue
  <2> QED
    BY <2>1, <2>2
<1>2. CoveredByDone(t, p)
  BY <1>1 DEF SlotsCovered
<1> QED
  BY <1>1, <1>2 DEF CoveredByDone

\* So does the copy of a batch to the device, or its decoding: the command is
\* of the current batch.
LEMMA CoveredAfterCopy ==
    ASSUME TypeInv, SlotsCovered, CopyIn \/ Decode
    PROVE  SlotsCovered'
<1>1. PICK op \in {"h2d", "decode"} : Issue(si, OnSlot(op))
  BY DEF CopyIn, Decode
<1>2. OnSlot(op) \in Command /\ OnSlot(op).slot = slot /\ si \in Stream
  BY CommandTypes DEF OnSlot, TypeInv, TypeOK
<1>3. UNCHANGED <<retired, done, slot, si>> /\ pc' \in {"decode", "aggregate"}
  BY DEF CopyIn, Decode
<1> SUFFICES ASSUME NEW t \in Stream, NEW p \in Unretired(t)', issued'[t][p].op \in SlotOps
             PROVE  CoveredByDone(t, p)' \/ (issued'[t][p].slot = slot /\ t = si)
  BY <1>3 DEF SlotsCovered
<1>4. CASE p \in Unretired(t) /\ issued'[t][p] = issued[t][p]
  BY <1>3, <1>4 DEF SlotsCovered, CoveredByDone
<1>5. CASE t = si /\ issued'[t][p] = OnSlot(op)
  BY <1>2, <1>5
<1> QED
  BY <1>1, <1>2, <1>3, <1>4, <1>5, InFlightAfterIssue

\* And so does the record after the aggregate: what it covered before has
\* retired, and what is in flight on the slot precedes it on its stream.
LEMMA CoveredAfterAggregate ==
    ASSUME TypeInv, SlotInv, Aggregate
    PROVE  SlotsCovered'
<1>1. /\ Issue(si, OnSlot("aggregate")) /\ UNCHANGED retired
      /\ done' = [done EXCEPT ![slot] = RecordAfterIssue(si)]
      /\ pc = "aggregate"
  BY DEF Aggregate
<1>2. /\ OnSlot("aggregate") \in Command /\ OnSlot("aggregate").slot = slot
      /\ si \in Stream /\ slot \in Slot
  BY CommandTypes DEF OnSlot, TypeInv, TypeOK
<1>3. /\ done'[slot] = RecordAfterIssue(si)
      /\ \A k \in Slot : k # slot => done'[k] = done[k]
  BY <1>1, <1>2 DEF TypeInv, TypeOK
<1>4. Completed(done[slot])
  BY <1>1 DEF SlotInv, SlotReady, InBatch
<1> SUFFICES ASSUME NEW t \in Stream, NEW p \in Unretired(t)', issued'[t][p].op \in SlotOps
             PROVE  CoveredByDone(t, p)'
  BY DEF SlotsCovered
<1>5. Len(issued[si]) \in Nat
  BY <1>2 DEF TypeInv, TypeOK
<1>6. CASE t = si /\ p = Len(issued[si]) + 1 /\ issued'[t][p] = OnSlot("aggregate")
  BY <1>2, <1>3, <1>5, <1>6 DEF CoveredByDone, RecordAfterIssue
<1>7. CASE p \in Unretired(t) /\ issued'[t][p] = issued[t][p]
  <2>1. /\ p \in Nat /\ p > retired[t] /\ p <= Len(issued[t])
        /\ retired[t] \in Nat /\ issued[t][p] \in Command
    BY <1>7 DEF Unretired, TypeInv, TypeOK
  <2>2. issued[t][p].slot \in Slot
    BY <1>7, <2>1 DEF Command, SlotOps
  <2>3. CASE issued[t][p].slot # slot
    <3>1. CoveredByDone(t, p)
      BY <1>7, <2>3 DEF SlotInv, SlotsCovered
    <3> QED
      BY <1>3, <1>7, <2>2, <2>3, <3>1 DEF CoveredByDone
  <2>4. CASE issued[t][p].slot = slot
    <3>1. done[slot] \in Event
      BY <1>2 DEF TypeInv, TypeOK
    <3>2. ~CoveredByDone(t, p)
      BY <1>4, <2>1, <2>4, <3>1 DEF CoveredByDone, Completed, Event
    <3>3. t = si
      BY <1>7, <3>2 DEF SlotInv, SlotsCovered
    <3> QED
      BY <1>3, <1>5, <1>7, <2>1, <2>4, <3>3 DEF CoveredByDone, RecordAfterIssue
  <2> QED
    BY <2>3, <2>4
<1> QED
  BY <1>1, <1>2, <1>6, <1>7, InFlightAfterIssue

\* The waits, kernels and copies that use no slot.
LEMMA OtherIssues ==
    ASSUME TypeInv,
           \/ WaitForBarrier \/ WaitBeforeReset \/ Reset \/ WaitBeforeSnapshot
           \/ TakeSnapshot \/ CopyOut \/ FinalSnapshot \/ FinalCopyOut
    PROVE  \/ UNCHANGED issued
           \/ \E s \in Stream, c \in Command : c.op \notin SlotOps /\ Issue(s, c)
<1>1. si \in Stream /\ 0 \in Stream /\ 1 - si \in Stream
  BY DEF TypeInv, TypeOK, Stream
<1>2. CASE WaitForBarrier
  <2>1. Wait(barrier_ev) \in Command /\ Wait(barrier_ev).op \notin SlotOps
    BY CommandTypes DEF TypeInv, TypeOK, Wait, SlotOps
  <2> QED
    BY <1>1, <1>2, <2>1 DEF WaitForBarrier
<1>3. CASE WaitBeforeReset \/ WaitBeforeSnapshot
  <2>1. CASE last_agg[1 - si] = Null
    BY <1>3, <2>1 DEF WaitBeforeReset, WaitBeforeSnapshot, WaitForOtherStream
  <2>2. CASE last_agg[1 - si] # Null
    <3>1. done[last_agg[1 - si]] \in Event
      BY <1>1, <2>2 DEF TypeInv, TypeOK
    <3>2. /\ Wait(done[last_agg[1 - si]]) \in Command
          /\ Wait(done[last_agg[1 - si]]).op \notin SlotOps
      BY <3>1, CommandTypes DEF Wait, SlotOps
    <3> QED
      BY <1>1, <1>3, <2>2, <3>2 DEF WaitBeforeReset, WaitBeforeSnapshot, WaitForOtherStream
  <2> QED
    BY <2>1, <2>2
<1>4. CASE Reset \/ TakeSnapshot \/ FinalSnapshot
  <2>1. \A op \in {"reset", "snapshot"} : Kernel(op) \in Command /\ Kernel(op).op \notin SlotOps
    BY CommandTypes DEF Kernel, SlotOps
  <2> QED
    BY <1>1, <1>4, <2>1 DEF Reset, TakeSnapshot, FinalSnapshot
<1>5. CASE CopyOut \/ FinalCopyOut
  <2>1. \A i \in {0, 1} : CopyTo(i) \in Command /\ CopyTo(i).op \notin SlotOps
    BY CommandTypes DEF CopyTo, SlotOps
  <2>2. bi \in {0, 1}
    BY DEF TypeInv, TypeOK
  <2> QED
    BY <1>1, <1>5, <2>1, <2>2 DEF CopyOut, FinalCopyOut
<1> QED
  BY <1>2, <1>3, <1>4, <1>5

\* Every host step keeps the slot invariant.
LEMMA HostKeepsSlots == TypeInv /\ SlotInv /\ Host => SlotInv'
<1> SUFFICES ASSUME TypeInv, SlotInv, Host PROVE SlotInv'
  OBVIOUS
<1>1. CASE Aggregate
  <2>1. SlotReady'
    BY <1>1 DEF Aggregate, SlotReady, InBatch
  <2> QED
    BY <1>1, <2>1, CoveredAfterAggregate DEF SlotInv
<1>2. CASE CopyIn \/ Decode
  <2>1. SlotReady'
    BY <1>2 DEF CopyIn, Decode, SlotInv, SlotReady, InBatch, Completed
  <2> QED
    BY <1>2, <2>1, CoveredAfterCopy DEF SlotInv
<1>3. CASE \/ WaitForBarrier \/ WaitBeforeReset \/ Reset \/ WaitBeforeSnapshot
           \/ TakeSnapshot \/ CopyOut \/ FinalSnapshot \/ FinalCopyOut
  <2>1. UNCHANGED <<retired, done>> /\ pc \notin {"decode", "aggregate"}
    BY <1>3 DEF WaitForBarrier, WaitBeforeReset, Reset, WaitBeforeSnapshot, TakeSnapshot,
                CopyOut, FinalSnapshot, FinalCopyOut
  <2>2. SlotsCovered'
    BY <1>3, <2>1, OtherIssues, CoveredAfterOtherIssue DEF SlotInv
  <2>3. SlotReady'
    BY <1>3 DEF WaitForBarrier, WaitBeforeReset, Reset, WaitBeforeSnapshot, TakeSnapshot,
                CopyOut, FinalSnapshot, FinalCopyOut, SlotInv, SlotReady, InBatch, Completed
  <2> QED
    BY <2>2, <2>3 DEF SlotInv
<1>4. CASE \/ Acquire \/ Fill \/ FeedEnds \/ Drain \/ PrintDrained \/ NextBatch
           \/ SyncStreams \/ PrintPending \/ FinalSync \/ FinalPrint
  <2>1. UNCHANGED <<retired, done, issued>> /\ pc \notin {"decode", "aggregate"}
    BY <1>4 DEF Acquire, Fill, FeedEnds, Drain, PrintDrained, NextBatch, SyncStreams,
                PrintPending, FinalSync, FinalPrint
  <2>2. SlotsCovered'
    BY <2>1, CoveredAfterOtherIssue DEF SlotInv
  <2>3. SlotReady'
    BY <1>4 DEF Acquire, Fill, FeedEnds, Drain, PrintDrained, NextBatch, SyncStreams,
                PrintPending, FinalSync, FinalPrint, SlotInv, SlotReady, InBatch, Completed
  <2> QED
    BY <2>2, <2>3 DEF SlotInv
<1> QED
  BY <1>1, <1>2, <1>3, <1>4 DEF Host

\* Time only helps: what has retired stays retired.
LEMMA StreamsKeepSlots ==
    ASSUME TypeInv, SlotInv, NEW s \in Stream, Device(s)
    PROVE  SlotInv'
<1>1. /\ UNCHANGED <<pc, slot, si, done, issued>>
      /\ \A t \in Stream : retired[t] \in Nat /\ retired'[t] \in Nat /\ retired[t] <= retired'[t]
  <2>1. UNCHANGED hostSide /\ Busy(s) /\ (UNCHANGED retired \/ Retire(s))
    BY StreamSteps DEF TypeInv
  <2>2. \A t \in Stream : retired[t] \in Nat
    BY DEF TypeInv, TypeOK
  <2>3. \A t \in Stream : retired'[t] = retired[t] \/ retired'[t] = retired[t] + 1
    BY <2>1, <2>2 DEF Retire, TypeInv, TypeOK
  <2> QED
    BY <2>1, <2>2, <2>3 DEF hostSide
<1>2. SlotsCovered'
  <2>1. \A t \in Stream : Unretired(t)' \subseteq Unretired(t)
    BY <1>1 DEF Unretired, TypeInv, TypeOK
  <2> QED
    BY <1>1, <2>1 DEF SlotInv, SlotsCovered, CoveredByDone
<1>3. SlotReady'
  <2>1. done[slot] \in Event
    BY DEF TypeInv, TypeOK
  <2>2. Completed(done[slot]) => Completed(done[slot])'
    BY <1>1, <2>1 DEF Completed, Event
  <2> QED
    BY <1>1, <2>2 DEF SlotInv, SlotReady, InBatch
<1> QED
  BY <1>2, <1>3 DEF SlotInv

\* The slot invariant holds in every reachable state.
LEMMA SlotInvariance == Spec => [](TypeInv /\ SlotInv)
<1>1. Init => SlotInv
  BY DEF Init, SlotInv, SlotsCovered, SlotReady, InBatch, Unretired, Completed, NeverRecorded,
         Stream
<1>2. TypeInv /\ SlotInv /\ [Next]_vars => SlotInv'
  <2>1. TypeInv /\ SlotInv /\ UNCHANGED vars => SlotInv'
    BY DEF vars, SlotInv, SlotsCovered, CoveredByDone, SlotReady, InBatch, Unretired, Completed
  <2> QED
    BY <2>1, HostKeepsSlots, StreamsKeepSlots DEF Next, Terminated
<1> QED
  BY InitType, NextType, <1>1, <1>2, PTL DEF Spec

\* A slot whose done event is complete is used by nothing in flight.
LEMMA ReadySlotUnused ==
    ASSUME TypeInv, SlotInv
    PROVE  SlotExclusive
<1> SUFFICES ASSUME pc = "fill", NEW s \in Stream, NEW p \in Unretired(s),
                    issued[s][p].op \in SlotOps, issued[s][p].slot = slot
             PROVE  FALSE
  BY DEF SlotExclusive
<1>1. done[slot] \in Event /\ Completed(done[slot])
  BY DEF TypeInv, TypeOK, SlotInv, SlotReady
<1>2. CoveredByDone(s, p)
  BY DEF SlotInv, SlotsCovered
<1>3. p \in Nat /\ p > retired[s] /\ retired[s] \in Nat
  BY DEF Unretired, TypeInv, TypeOK
<1>4. done[slot].stream = s /\ p <= done[slot].pos /\ done[slot].pos \in Nat
  BY <1>1, <1>2 DEF CoveredByDone, Event
<1>5. retired[s] >= done[slot].pos
  BY <1>1, <1>4 DEF Completed
<1> QED
  BY <1>3, <1>4, <1>5

\* The parser never writes into a slot a command in flight still uses.
THEOREM SlotsAreExclusive == Spec => []SlotExclusive
BY SlotInvariance, ReadySlotUnused, PTL

-----------------------------------------------------------------------------
(***************************************************************************)
(* The order in which the kernels and copies execute on the two streams.   *)
(***************************************************************************)
\* The command at position q of stream t is complete when the event is.
Covers(ev, t, q) == ev.stream = t /\ q <= ev.pos

\* The command at position w of stream s waits for the one at position q of t.
HoldsBack(s, w, t, q) == issued[s][w].op = "wait" /\ Covers(issued[s][w].ev, t, q)

\* Whatever is issued to stream s from now on waits for it.
HeldBack(s, t, q) == \E w \in Unretired(s) : HoldsBack(s, w, t, q)

IsWhole(s, p) == issued[s][p].op \in WholeArray
IsAggregate(s, p) == issued[s][p].op = "aggregate"

\* Of a whole-array kernel and a kernel of the other stream, one waits for the other.
Ordered(s, p, q) ==
    \/ \E w \in Unretired(s) : w < p /\ HoldsBack(s, w, 1 - s, q)
    \/ \E w \in Unretired(1 - s) : w < q /\ HoldsBack(1 - s, w, s, p)

KernelsOrdered ==
    \A s \in Stream : \A p \in Unretired(s), q \in Unretired(1 - s) :
        IsWhole(s, p) /\ issued[1 - s][q].op \in AccumOps => Ordered(s, p, q)

FinalPc == {"final_snapshot", "final_d2h", "final_sync", "final_print", "done"}
SyncedPc == {"print_pending"} \cup FinalPc

\* The next wait on barrier_ev holds the other stream back from every whole-array
\* kernel of stream s, unless a wait in flight there does already.
WholeCovered ==
    pc \notin FinalPc =>
        \A s \in Stream : \A q \in Unretired(s) :
            IsWhole(s, q) =>
                /\ barrier_set
                /\ Covers(barrier_ev, s, q) \/ HeldBack(1 - s, s, q)

\* Once that wait is issued, the stream of the current batch is held back.
AfterBarrier ==
    {"reset_wait", "reset", "h2d", "decode", "aggregate", "snap_wait", "drain", "print",
     "snapshot"}

BarrierWaited ==
    pc \in AfterBarrier =>
        \A q \in Unretired(1 - si) : IsWhole(1 - si, q) => HeldBack(si, 1 - si, q)

\* last_agg leads to the event that covers every aggregate of the stream.
AggregatesCovered ==
    \A s \in Stream : \A q \in Unretired(s) :
        IsAggregate(s, q) => last_agg[s] # Null /\ Covers(done[last_agg[s]], s, q)

\* Once the wait on it is issued, the current stream is held back from the aggregates
\* of the other one as well.
AfterOtherWait == {"reset", "drain", "print", "snapshot"}

OtherStreamWaited ==
    pc \in AfterOtherWait =>
        \A q \in Unretired(1 - si) : IsAggregate(1 - si, q) => HeldBack(si, 1 - si, q)

\* The slot in use is not the one the other stream used last, so Aggregate does not
\* overwrite the event that stands for the other stream's aggregates.
BetweenBatches ==
    {"acquire", "snap_wait", "drain", "print", "snapshot", "d2h", "next_batch"}

SlotsApart ==
    /\ InBatch => si = batches % 2
    /\ pc = "fill" \/ InBatch => slot # last_agg[1 - (batches % 2)] /\ next_ # slot
    /\ pc \in BetweenBatches => next_ # last_agg[1 - (batches % 2)]

\* After the streams were synchronized only the final snapshot is issued.
IdleAtEnd ==
    /\ pc \in SyncedPc => Idle(1)
    /\ pc \in SyncedPc \ {"final_d2h", "final_sync"} => Idle(0)

OrderInv ==
    /\ KernelsOrdered /\ WholeCovered /\ BarrierWaited
    /\ AggregatesCovered /\ OtherStreamWaited
    /\ SlotsApart /\ IdleAtEnd

-----------------------------------------------------------------------------
(***************************************************************************)
(* What is in flight after a step.                                         *)
(***************************************************************************)
\* Issuing a command leaves the commands in flight where they are.
LEMMA IssueKeepsInFlight ==
    ASSUME TypeInv, NEW s \in Stream, NEW c \in Command, Issue(s, c), UNCHANGED retired
    PROVE  /\ \A t \in Stream : \A p \in Unretired(t) :
                p \in Unretired(t)' /\ issued'[t][p] = issued[t][p]
           /\ Len(issued[s]) + 1 \in Unretired(s)'
           /\ issued'[s][Len(issued[s]) + 1] = c
           /\ \A p \in Unretired(s) : p < Len(issued[s]) + 1
<1>1. issued \in [Stream -> Seq(Command)] /\ retired \in [Stream -> Nat]
  BY DEF TypeInv, TypeOK
<1>2. /\ issued'[1 - s] = issued[1 - s]
      /\ Len(issued'[s]) = Len(issued[s]) + 1
      /\ issued'[s][Len(issued[s]) + 1] = c
      /\ \A q \in 1..Len(issued[s]) : issued'[s][q] = issued[s][q]
  BY <1>1, Issuing
<1>3. Len(issued[s]) \in Nat /\ retired[s] \in Nat /\ retired[s] <= Len(issued[s])
  BY <1>1 DEF TypeInv, TypeOK
<1>4. \A p \in Unretired(1 - s) :
        p \in Unretired(1 - s)' /\ issued'[1 - s][p] = issued[1 - s][p]
  BY <1>2 DEF Unretired
<1>5. \A p \in Unretired(s) : p \in Unretired(s)' /\ issued'[s][p] = issued[s][p]
  BY <1>2, <1>3 DEF Unretired
<1>6. \A t \in Stream : t = s \/ t = 1 - s
  BY DEF Stream
<1>7. /\ Len(issued[s]) + 1 \in Unretired(s)'
      /\ \A p \in Unretired(s) : p < Len(issued[s]) + 1
  BY <1>2, <1>3 DEF Unretired
<1> QED
  BY <1>2, <1>4, <1>5, <1>6, <1>7

\* A host step that issues at most a command of the kinds ops: a command in flight
\* afterwards was so before, or is of these kinds.
IssuesOnly(ops) ==
    /\ UNCHANGED retired
    /\ \/ UNCHANGED issued
       \/ \E s \in Stream, c \in Command : c.op \in ops /\ Issue(s, c)

InFlightKept ==
    \A t \in Stream : \A p \in Unretired(t) :
        p \in Unretired(t)' /\ issued'[t][p] = issued[t][p]

NoneNew(ops) ==
    \A t \in Stream : \A p \in Unretired(t)' :
        issued'[t][p].op \in ops => p \in Unretired(t) /\ issued'[t][p] = issued[t][p]

LEMMA IssuingOnly ==
    ASSUME TypeInv, NEW ops, IssuesOnly(ops), NEW others, ops \cap others = {}
    PROVE  InFlightKept /\ NoneNew(others)
<1>1. CASE UNCHANGED issued
  BY <1>1 DEF IssuesOnly, InFlightKept, NoneNew, Unretired
<1>2. ASSUME NEW s \in Stream, NEW c \in Command, c.op \in ops, Issue(s, c)
      PROVE  InFlightKept /\ NoneNew(others)
  <2>1. UNCHANGED retired
    BY DEF IssuesOnly
  <2>2. InFlightKept
    BY <1>2, <2>1, IssueKeepsInFlight DEF InFlightKept
  <2>3. ASSUME NEW t \in Stream, NEW p \in Unretired(t)', issued'[t][p].op \in others
        PROVE  p \in Unretired(t) /\ issued'[t][p] = issued[t][p]
    BY <1>2, <2>1, <2>3, InFlightAfterIssue
  <2> QED
    BY <2>2, <2>3 DEF NoneNew
<1> QED
  BY <1>1, <1>2 DEF IssuesOnly

\* A wait in flight stays one.
LEMMA HoldsBackKept ==
    ASSUME InFlightKept, NEW s \in Stream, NEW w \in Unretired(s), NEW t, NEW q,
           HoldsBack(s, w, t, q)
    PROVE  w \in Unretired(s)' /\ HoldsBack(s, w, t, q)'
BY DEF InFlightKept, HoldsBack, Covers

\* The host steps that issue nothing.
SilentStep ==
    \/ Acquire \/ Fill \/ FeedEnds \/ Drain \/ PrintDrained \/ NextBatch
    \/ SyncStreams \/ PrintPending \/ FinalSync \/ FinalPrint

\* What issues which command.
LEMMA HostIssues ==
    ASSUME TypeInv
    PROVE  /\ WaitForBarrier \/ WaitBeforeReset \/ WaitBeforeSnapshot => IssuesOnly({"wait"})
           /\ CopyIn \/ Decode => IssuesOnly({"h2d", "decode"})
           /\ Aggregate => IssuesOnly({"aggregate"})
           /\ Reset => IssuesOnly({"reset"})
           /\ TakeSnapshot \/ FinalSnapshot => IssuesOnly({"snapshot"})
           /\ CopyOut \/ FinalCopyOut => IssuesOnly({"d2h"})
           /\ SilentStep => IssuesOnly({})
<1>1. si \in Stream /\ 0 \in Stream /\ 1 - si \in Stream
  BY DEF TypeInv, TypeOK, Stream
<1>2. WaitForBarrier => IssuesOnly({"wait"})
  <2>1. Wait(barrier_ev) \in Command /\ Wait(barrier_ev).op = "wait"
    BY CommandTypes DEF TypeInv, TypeOK, Wait
  <2> QED
    BY <1>1, <2>1 DEF WaitForBarrier, IssuesOnly
<1>3. WaitBeforeReset \/ WaitBeforeSnapshot => IssuesOnly({"wait"})
  <2>1. CASE last_agg[1 - si] = Null
    BY <2>1 DEF WaitBeforeReset, WaitBeforeSnapshot, WaitForOtherStream, IssuesOnly
  <2>2. CASE last_agg[1 - si] # Null
    <3>1. done[last_agg[1 - si]] \in Event
      BY <1>1, <2>2 DEF TypeInv, TypeOK
    <3>2. /\ Wait(done[last_agg[1 - si]]) \in Command
          /\ Wait(done[last_agg[1 - si]]).op = "wait"
      BY <3>1, CommandTypes DEF Wait
    <3> QED
      BY <1>1, <2>2, <3>2 DEF WaitBeforeReset, WaitBeforeSnapshot, WaitForOtherStream,
                              IssuesOnly
  <2> QED
    BY <2>1, <2>2
<1>4. /\ CopyIn \/ Decode => IssuesOnly({"h2d", "decode"})
      /\ Aggregate => IssuesOnly({"aggregate"})
  <2>1. \A op \in {"h2d", "decode", "aggregate"} : OnSlot(op) \in Command /\ OnSlot(op).op = op
    BY CommandTypes DEF OnSlot
  <2> QED
    BY <1>1, <2>1 DEF CopyIn, Decode, Aggregate, IssuesOnly
<1>5. /\ Reset => IssuesOnly({"reset"})
      /\ TakeSnapshot \/ FinalSnapshot => IssuesOnly({"snapshot"})
  <2>1. \A op \in {"reset", "snapshot"} : Kernel(op) \in Command /\ Kernel(op).op = op
    BY CommandTypes DEF Kernel
  <2> QED
    BY <1>1, <2>1 DEF Reset, TakeSnapshot, FinalSnapshot, IssuesOnly
<1>6. CopyOut \/ FinalCopyOut => IssuesOnly({"d2h"})
  <2>1. \A i \in {0, 1} : CopyTo(i) \in Command /\ CopyTo(i).op = "d2h"
    BY CommandTypes DEF CopyTo
  <2>2. bi \in {0, 1}
    BY DEF TypeInv, TypeOK
  <2> QED
    BY <1>1, <2>1, <2>2 DEF CopyOut, FinalCopyOut, IssuesOnly
<1>7. SilentStep => IssuesOnly({})
  BY DEF SilentStep, Acquire, Fill, FeedEnds, Drain, PrintDrained, NextBatch, SyncStreams,
         PrintPending, FinalSync, FinalPrint, IssuesOnly
<1> QED
  BY <1>2, <1>3, <1>4, <1>5, <1>6, <1>7

-----------------------------------------------------------------------------
(***************************************************************************)
(* The kernels of the two streams are ordered.                             *)
(***************************************************************************)
\* An issue adds nothing to the other stream.
NoneNewOn(t) ==
    \A p \in Unretired(t)' : p \in Unretired(t) /\ issued'[t][p] = issued[t][p]

LEMMA NoneNewOnOtherStream ==
    ASSUME TypeInv, NEW s \in Stream, NEW c \in Command, Issue(s, c), UNCHANGED retired
    PROVE  NoneNewOn(1 - s)
<1>1. 1 - s \in Stream /\ 1 - s # s
  BY DEF Stream
<1> QED
  BY <1>1, InFlightAfterIssue DEF NoneNewOn

\* What has been waited for stays so.
LEMMA HeldBackKept ==
    ASSUME InFlightKept, NEW s \in Stream, NEW t, NEW q, HeldBack(s, t, q)
    PROVE  HeldBack(s, t, q)'
<1>1. PICK w \in Unretired(s) : HoldsBack(s, w, t, q)
  BY DEF HeldBack
<1>2. w \in Unretired(s)' /\ HoldsBack(s, w, t, q)'
  BY <1>1, HoldsBackKept
<1> QED
  BY <1>2 DEF HeldBack

LEMMA OrderedKept ==
    ASSUME InFlightKept, NEW s \in Stream, NEW p, NEW q, Ordered(s, p, q)
    PROVE  Ordered(s, p, q)'
<1>1. 1 - s \in Stream
  BY DEF Stream
<1>2. ASSUME NEW t \in Stream, NEW u, NEW r, NEW w \in Unretired(t), HoldsBack(t, w, u, r)
      PROVE  w \in Unretired(t)' /\ HoldsBack(t, w, u, r)'
  BY <1>2, HoldsBackKept
<1> QED
  BY <1>1, <1>2 DEF Ordered

\* A step that issues no kernel on the accumulators keeps them ordered.
LEMMA OrderedAfterOther ==
    ASSUME KernelsOrdered, InFlightKept, NoneNew(AccumOps)
    PROVE  KernelsOrdered'
<1> SUFFICES ASSUME NEW s \in Stream, NEW p \in Unretired(s)', NEW q \in Unretired(1 - s)',
                    IsWhole(s, p)', issued'[1 - s][q].op \in AccumOps
             PROVE  Ordered(s, p, q)'
  BY DEF KernelsOrdered
<1>1. 1 - s \in Stream
  BY DEF Stream
<1>2. p \in Unretired(s) /\ issued'[s][p] = issued[s][p]
  BY DEF NoneNew, IsWhole, AccumOps
<1>3. q \in Unretired(1 - s) /\ issued'[1 - s][q] = issued[1 - s][q]
  BY <1>1 DEF NoneNew
<1>4. Ordered(s, p, q)
  BY <1>2, <1>3 DEF KernelsOrdered, IsWhole
<1> QED
  BY <1>4, OrderedKept

\* So does the launch of a kernel that is held back from those of the other stream
\* with which it must not overlap.
LEMMA OrderedAfterKernel ==
    ASSUME TypeInv, KernelsOrdered,
           NEW s \in Stream, NEW c \in Command, Issue(s, c), UNCHANGED retired,
           \A q \in Unretired(1 - s) :
               IsWhole(1 - s, q) \/ (c.op \in WholeArray /\ IsAggregate(1 - s, q))
               => HeldBack(s, 1 - s, q)
    PROVE  KernelsOrdered'
<1> DEFINE n == Len(issued[s]) + 1
<1>1. InFlightKept
  BY IssueKeepsInFlight DEF InFlightKept
<1>2. \A w \in Unretired(s) : w < n
  BY IssueKeepsInFlight
<1>3. 1 - s \in Stream /\ 1 - s # s /\ 1 - (1 - s) = s
  BY DEF Stream
<1> HIDE DEF n
<1> SUFFICES ASSUME NEW t \in Stream, NEW p \in Unretired(t)', NEW q \in Unretired(1 - t)',
                    IsWhole(t, p)', issued'[1 - t][q].op \in AccumOps
             PROVE  Ordered(t, p, q)'
  BY DEF KernelsOrdered
<1>4. 1 - t \in Stream /\ 1 - t # t /\ (t = s \/ t = 1 - s)
  BY DEF Stream
<1>5. \/ p \in Unretired(t) /\ issued'[t][p] = issued[t][p]
      \/ t = s /\ p = n /\ issued'[t][p] = c
  BY InFlightAfterIssue DEF n
<1>6. \/ q \in Unretired(1 - t) /\ issued'[1 - t][q] = issued[1 - t][q]
      \/ 1 - t = s /\ q = n /\ issued'[1 - t][q] = c
  BY <1>4, InFlightAfterIssue DEF n
<1>7. CASE p \in Unretired(t) /\ issued'[t][p] = issued[t][p]
           /\ q \in Unretired(1 - t) /\ issued'[1 - t][q] = issued[1 - t][q]
  <2>1. Ordered(t, p, q)
    BY <1>7 DEF KernelsOrdered, IsWhole
  <2> QED
    BY <1>1, <2>1, OrderedKept
<1>8. CASE t = s /\ p = n /\ issued'[t][p] = c
  <2>1. q \in Unretired(1 - s) /\ issued'[1 - s][q] = issued[1 - s][q]
    BY <1>3, <1>4, <1>6, <1>8
  <2>2. IsWhole(1 - s, q) \/ IsAggregate(1 - s, q)
    BY <1>8, <2>1 DEF IsWhole, IsAggregate, AccumOps
  <2>3. c.op \in WholeArray
    BY <1>8 DEF IsWhole
  <2>4. PICK w \in Unretired(s) : HoldsBack(s, w, 1 - s, q)
    BY <2>1, <2>2, <2>3 DEF HeldBack
  <2>5. w \in Unretired(s)' /\ HoldsBack(s, w, 1 - s, q)' /\ w < p
    BY <1>1, <1>2, <1>8, <2>4, HoldsBackKept
  <2> QED
    BY <1>8, <2>5 DEF Ordered
<1>9. CASE 1 - t = s /\ q = n /\ issued'[1 - t][q] = c
  <2>1. t = 1 - s
    BY <1>4, <1>9
  <2>2. p \in Unretired(1 - s) /\ issued'[1 - s][p] = issued[1 - s][p]
    BY <1>3, <1>5, <2>1
  <2>3. IsWhole(1 - s, p)
    BY <2>1, <2>2 DEF IsWhole
  <2>4. PICK w \in Unretired(s) : HoldsBack(s, w, 1 - s, p)
    BY <2>2, <2>3 DEF HeldBack
  <2>5. w \in Unretired(s)' /\ HoldsBack(s, w, 1 - s, p)' /\ w < q
    BY <1>1, <1>2, <1>9, <2>4, HoldsBackKept
  <2> QED
    BY <1>3, <2>1, <2>5 DEF Ordered
<1> QED
  BY <1>5, <1>6, <1>7, <1>8, <1>9

\* A step that launches no whole-array kernel and records no barrier.
LEMMA WholeAfterOther ==
    ASSUME WholeCovered, InFlightKept, NoneNew(WholeArray),
           UNCHANGED <<barrier_set, barrier_ev>>, pc \in FinalPc => pc' \in FinalPc
    PROVE  WholeCovered'
<1> SUFFICES ASSUME pc' \notin FinalPc, NEW s \in Stream, NEW q \in Unretired(s)',
                    IsWhole(s, q)'
             PROVE  barrier_set' /\ (Covers(barrier_ev, s, q)' \/ HeldBack(1 - s, s, q)')
  BY DEF WholeCovered
<1>1. 1 - s \in Stream
  BY DEF Stream
<1>2. q \in Unretired(s) /\ IsWhole(s, q)
  BY DEF NoneNew, IsWhole
<1>3. barrier_set /\ (Covers(barrier_ev, s, q) \/ HeldBack(1 - s, s, q))
  BY <1>2 DEF WholeCovered
<1> QED
  BY <1>1, <1>3, HeldBackKept DEF Covers

\* The launch of a reset or of a periodic snapshot: the barrier recorded after it
\* covers its stream, and its stream has been held back from the other.
LEMMA WholeAfterBarrier ==
    ASSUME TypeInv, WholeCovered, BarrierWaited, Reset \/ TakeSnapshot
    PROVE  WholeCovered'
<1>1. PICK c \in Command : Issue(si, c)
  BY CommandTypes DEF Reset, TakeSnapshot
<1>2. /\ si \in Stream /\ UNCHANGED <<retired, si>> /\ pc \in AfterBarrier
      /\ barrier_set' = TRUE /\ barrier_ev' = RecordAfterIssue(si)
  BY DEF Reset, TakeSnapshot, RecordBarrier, AfterBarrier, TypeInv, TypeOK
<1>3. InFlightKept
  BY <1>1, <1>2, IssueKeepsInFlight DEF InFlightKept
<1>4. NoneNewOn(1 - si)
  BY <1>1, <1>2, NoneNewOnOtherStream DEF NoneNewOn
<1>5. ASSUME NEW q \in Unretired(si)' PROVE Covers(barrier_ev, si, q)'
  <2>1. q \in Unretired(si) \/ q = Len(issued[si]) + 1
    <3>1. \A p \in (retired'[si] + 1)..Len(issued'[si]) :
            p \in Unretired(si) \/ p = Len(issued[si]) + 1
      BY <1>1, <1>2, InFlightAfterIssue DEF Unretired
    <3> QED
      BY <1>2, <3>1 DEF Unretired
  <2>2. q <= Len(issued[si]) + 1
    <3>1. Len(issued[si]) \in Nat /\ retired[si] \in Nat
      BY <1>2 DEF TypeInv, TypeOK
    <3> QED
      BY <2>1, <3>1 DEF Unretired
  <2> QED
    BY <1>2, <2>2 DEF Covers, RecordAfterIssue
<1>6. ASSUME NEW q \in Unretired(1 - si)', IsWhole(1 - si, q)'
      PROVE  HeldBack(si, 1 - si, q)'
  <2>1. q \in Unretired(1 - si) /\ IsWhole(1 - si, q)
    BY <1>2, <1>4, <1>6 DEF NoneNewOn, IsWhole, Unretired
  <2>2. HeldBack(si, 1 - si, q)
    BY <1>2, <2>1 DEF BarrierWaited
  <2> QED
    BY <1>2, <1>3, <2>2, HeldBackKept
<1>7. \A s \in Stream : s = si \/ (s = 1 - si /\ 1 - s = si)
  BY <1>2 DEF Stream
<1> QED
  BY <1>2, <1>5, <1>6, <1>7 DEF WholeCovered

\* A step that launches no aggregate and leaves its events alone.
LEMMA AggregatesAfterOther ==
    ASSUME AggregatesCovered, InFlightKept, NoneNew({"aggregate"}),
           UNCHANGED <<last_agg, done>>
    PROVE  AggregatesCovered'
BY DEF AggregatesCovered, NoneNew, IsAggregate, Covers

\* The launch of an aggregate: its event covers the aggregates of its stream, and
\* that of the other stream is in another slot.
LEMMA AggregatesAfterAggregate ==
    ASSUME TypeInv, AggregatesCovered, SlotsApart, Aggregate
    PROVE  AggregatesCovered'
<1>1. PICK c \in Command : Issue(si, c)
  BY CommandTypes DEF Aggregate
<1>2. /\ si \in Stream /\ 1 - si \in Stream /\ 1 - si # si /\ slot \in Slot /\ slot # Null
      /\ UNCHANGED <<retired, si>> /\ batches \in Nat
      /\ done \in [Slot -> Event] /\ last_agg \in [Stream -> Slot \cup {Null}]
      /\ done' = [done EXCEPT ![slot] = RecordAfterIssue(si)]
      /\ last_agg' = [last_agg EXCEPT ![si] = slot]
  BY DEF Aggregate, TypeInv, TypeOK, Stream, Slot, Null
<1>3. last_agg[1 - si] # slot
  BY DEF Aggregate, SlotsApart, InBatch
<1>4. ASSUME NEW q \in Unretired(si)'
      PROVE  last_agg'[si] # Null /\ Covers(done'[last_agg'[si]], si, q)
  <2>1. q \in Unretired(si) \/ q = Len(issued[si]) + 1
    <3>1. \A p \in (retired'[si] + 1)..Len(issued'[si]) :
            p \in Unretired(si) \/ p = Len(issued[si]) + 1
      BY <1>1, <1>2, InFlightAfterIssue DEF Unretired
    <3> QED
      BY <1>2, <3>1 DEF Unretired
  <2>2. q <= Len(issued[si]) + 1
    <3>1. Len(issued[si]) \in Nat /\ retired[si] \in Nat
      BY <1>2 DEF TypeInv, TypeOK
    <3> QED
      BY <2>1, <3>1 DEF Unretired
  <2>3. last_agg'[si] = slot /\ done'[slot] = RecordAfterIssue(si)
    BY <1>2
  <2> QED
    BY <1>2, <2>2, <2>3 DEF Covers, RecordAfterIssue
<1>5. ASSUME NEW q \in Unretired(1 - si)', IsAggregate(1 - si, q)'
      PROVE  last_agg'[1 - si] # Null /\ Covers(done'[last_agg'[1 - si]], 1 - si, q)
  <2>1. NoneNewOn(1 - si)
    BY <1>1, <1>2, NoneNewOnOtherStream DEF NoneNewOn
  <2>2. q \in Unretired(1 - si) /\ IsAggregate(1 - si, q)
    BY <1>2, <1>5, <2>1 DEF NoneNewOn, IsAggregate, Unretired
  <2>3. last_agg[1 - si] # Null /\ Covers(done[last_agg[1 - si]], 1 - si, q)
    BY <1>2, <2>2 DEF AggregatesCovered
  <2>4. last_agg'[1 - si] = last_agg[1 - si] /\ done'[last_agg[1 - si]] = done[last_agg[1 - si]]
    BY <1>2, <1>3, <2>3
  <2> QED
    BY <2>3, <2>4
<1>6. \A s \in Stream : s = si \/ s = 1 - si
  BY <1>2 DEF Stream
<1>7. ASSUME NEW s \in Stream, NEW q \in Unretired(s)', IsAggregate(s, q)'
      PROVE  last_agg'[s] # Null /\ Covers(done'[last_agg'[s]], s, q)
  <2>1. CASE s = si
    BY <1>2, <1>4, <1>7, <2>1 DEF Unretired
  <2>2. CASE s = 1 - si
    BY <1>2, <1>5, <1>7, <2>2 DEF Unretired, IsAggregate
  <2> QED
    BY <1>6, <2>1, <2>2
<1> QED
  BY <1>7 DEF AggregatesCovered, Covers

(***************************************************************************)
(* The waits of the current batch.                                         *)
(***************************************************************************)
\* A step that works on the current batch changes nothing in the other stream.
LEMMA BatchStepsIssueOnCurrent ==
    ASSUME TypeInv,
           \/ WaitForBarrier \/ WaitBeforeReset \/ Reset \/ CopyIn \/ Decode \/ Aggregate
           \/ WaitBeforeSnapshot \/ Drain \/ PrintDrained \/ TakeSnapshot
    PROVE  InFlightKept /\ NoneNewOn(1 - si) /\ UNCHANGED si /\ si \in Stream
<1>1. UNCHANGED <<retired, si>> /\ si \in Stream /\ 1 - si \in Stream
  BY DEF WaitForBarrier, WaitBeforeReset, Reset, CopyIn, Decode, Aggregate,
         WaitBeforeSnapshot, Drain, PrintDrained, TakeSnapshot, TypeInv, TypeOK, Stream
<1>2. UNCHANGED issued \/ \E c \in Command : Issue(si, c)
  <2>1. CASE WaitForBarrier
    <3>1. Wait(barrier_ev) \in Command
      BY CommandTypes DEF TypeInv, TypeOK
    <3> QED
      BY <2>1, <3>1 DEF WaitForBarrier
  <2>2. CASE WaitBeforeReset \/ WaitBeforeSnapshot
    <3>1. CASE last_agg[1 - si] = Null
      BY <2>2, <3>1 DEF WaitBeforeReset, WaitBeforeSnapshot, WaitForOtherStream
    <3>2. CASE last_agg[1 - si] # Null
      <4>1. done[last_agg[1 - si]] \in Event
        BY <1>1, <3>2 DEF TypeInv, TypeOK
      <4> QED
        BY <2>2, <3>2, <4>1, CommandTypes DEF WaitBeforeReset, WaitBeforeSnapshot,
                                              WaitForOtherStream
    <3> QED
      BY <3>1, <3>2
  <2>3. CASE CopyIn \/ Decode \/ Aggregate
    BY <2>3, CommandTypes DEF CopyIn, Decode, Aggregate
  <2>4. CASE Reset \/ TakeSnapshot
    BY <2>4, CommandTypes DEF Reset, TakeSnapshot
  <2>5. CASE Drain \/ PrintDrained
    BY <2>5 DEF Drain, PrintDrained
  <2> QED
    BY <2>1, <2>2, <2>3, <2>4, <2>5
<1>3. CASE UNCHANGED issued
  BY <1>1, <1>3 DEF InFlightKept, NoneNewOn, Unretired
<1>4. ASSUME NEW c \in Command, Issue(si, c)
      PROVE  InFlightKept /\ NoneNewOn(1 - si)
  <2>1. InFlightKept
    BY <1>1, <1>4, IssueKeepsInFlight DEF InFlightKept
  <2>2. NoneNewOn(1 - si)
    BY <1>1, <1>4, NoneNewOnOtherStream DEF NoneNewOn
  <2> QED
    BY <2>1, <2>2
<1> QED
  BY <1>1, <1>2, <1>3, <1>4

\* The kernels of the other stream that stay in flight are still waited for.
LEMMA StillHeldBack ==
    ASSUME InFlightKept, NoneNewOn(1 - si), UNCHANGED si, si \in Stream,
           NEW q \in Unretired(1 - si)'
    PROVE  /\ q \in Unretired(1 - si)
           /\ IsWhole(1 - si, q)' <=> IsWhole(1 - si, q)
           /\ IsAggregate(1 - si, q)' <=> IsAggregate(1 - si, q)
           /\ HeldBack(si, 1 - si, q) => HeldBack(si, 1 - si, q)'
<1>1. q \in Unretired(1 - si) /\ issued'[1 - si][q] = issued[1 - si][q]
  BY DEF NoneNewOn, Unretired
<1>2. HeldBack(si, 1 - si, q) => HeldBack(si, 1 - si, q)'
  <2> SUFFICES ASSUME HeldBack(si, 1 - si, q) PROVE HeldBack(si, 1 - si, q)'
    OBVIOUS
  <2>1. PICK w \in Unretired(si) : HoldsBack(si, w, 1 - si, q)
    BY DEF HeldBack
  <2>2. w \in Unretired(si)' /\ HoldsBack(si, w, 1 - si, q)'
    BY <2>1 DEF InFlightKept, HoldsBack, Covers, Unretired
  <2> QED
    BY <2>2 DEF HeldBack
<1> QED
  BY <1>1, <1>2 DEF IsWhole, IsAggregate

\* The wait that is issued holds the stream back from what its event covers.
LEMMA NewWaitHoldsBack ==
    ASSUME TypeInv, NEW s \in Stream, NEW ev \in Event, Issue(s, Wait(ev)),
           UNCHANGED retired, NEW t, NEW q, Covers(ev, t, q)
    PROVE  \E w \in Unretired(s)' : /\ issued'[s][w].op = "wait"
                                    /\ Covers(issued'[s][w].ev, t, q)
<1>1. Wait(ev) \in Command /\ Wait(ev).op = "wait" /\ Wait(ev).ev = ev
  BY CommandTypes DEF Wait
<1>2. /\ Len(issued[s]) + 1 \in Unretired(s)'
      /\ issued'[s][Len(issued[s]) + 1] = Wait(ev)
  BY <1>1, IssueKeepsInFlight
<1> QED
  BY <1>1, <1>2

LEMMA BarrierAfterStep ==
    ASSUME TypeInv, BarrierWaited, WholeCovered,
           \/ WaitForBarrier \/ WaitBeforeReset \/ Reset \/ CopyIn \/ Decode \/ Aggregate
           \/ WaitBeforeSnapshot \/ Drain \/ PrintDrained \/ TakeSnapshot
    PROVE  BarrierWaited'
<1>1. InFlightKept /\ NoneNewOn(1 - si) /\ UNCHANGED si /\ si \in Stream
  BY BatchStepsIssueOnCurrent
<1>2. 1 - si \in Stream /\ 1 - (1 - si) = si
  BY <1>1 DEF Stream
<1> SUFFICES ASSUME pc' \in AfterBarrier, NEW q \in Unretired(1 - si)', IsWhole(1 - si, q)'
             PROVE  HeldBack(si, 1 - si, q)'
  BY DEF BarrierWaited
<1>3. q \in Unretired(1 - si) /\ IsWhole(1 - si, q)
  BY <1>1, StillHeldBack
<1>4. CASE pc \in AfterBarrier
  <2>1. HeldBack(si, 1 - si, q)
    BY <1>3, <1>4 DEF BarrierWaited
  <2> QED
    BY <1>1, <2>1, StillHeldBack
<1>5. CASE WaitForBarrier
  <2>1. barrier_set /\ (Covers(barrier_ev, 1 - si, q) \/ HeldBack(si, 1 - si, q))
    BY <1>2, <1>3, <1>5 DEF WaitForBarrier, WholeCovered, FinalPc
  <2>2. CASE HeldBack(si, 1 - si, q)
    BY <1>1, <2>2, StillHeldBack
  <2>3. CASE Covers(barrier_ev, 1 - si, q)
    <3>1. barrier_ev \in Event /\ Issue(si, Wait(barrier_ev)) /\ UNCHANGED retired
      BY <1>5, <2>1 DEF WaitForBarrier, TypeInv, TypeOK
    <3>2. PICK w \in Unretired(si)' : /\ issued'[si][w].op = "wait"
                                      /\ Covers(issued'[si][w].ev, 1 - si, q)
      BY <1>1, <2>3, <3>1, NewWaitHoldsBack DEF Unretired
    <3> QED
      BY <1>1, <3>2 DEF HeldBack, HoldsBack, Covers
  <2> QED
    BY <2>1, <2>2, <2>3
<1> QED
  BY <1>4, <1>5 DEF WaitBeforeReset, Reset, CopyIn, Decode, Aggregate,
                    WaitBeforeSnapshot, Drain, PrintDrained, TakeSnapshot, AfterBarrier

LEMMA OtherStreamAfterStep ==
    ASSUME TypeInv, OtherStreamWaited, AggregatesCovered,
           \/ WaitForBarrier \/ WaitBeforeReset \/ Reset \/ CopyIn \/ Decode \/ Aggregate
           \/ WaitBeforeSnapshot \/ Drain \/ PrintDrained \/ TakeSnapshot
    PROVE  OtherStreamWaited'
<1>1. InFlightKept /\ NoneNewOn(1 - si) /\ UNCHANGED si /\ si \in Stream
  BY BatchStepsIssueOnCurrent
<1>2. 1 - si \in Stream
  BY <1>1 DEF Stream
<1> SUFFICES ASSUME pc' \in AfterOtherWait, NEW q \in Unretired(1 - si)',
                    IsAggregate(1 - si, q)'
             PROVE  HeldBack(si, 1 - si, q)'
  BY DEF OtherStreamWaited
<1>3. q \in Unretired(1 - si) /\ IsAggregate(1 - si, q)
  BY <1>1, StillHeldBack
<1>4. CASE pc \in AfterOtherWait
  <2>1. HeldBack(si, 1 - si, q)
    BY <1>3, <1>4 DEF OtherStreamWaited
  <2> QED
    BY <1>1, <2>1, StillHeldBack
<1>5. CASE WaitBeforeReset \/ WaitBeforeSnapshot
  <2>1. last_agg[1 - si] # Null /\ Covers(done[last_agg[1 - si]], 1 - si, q)
    BY <1>2, <1>3 DEF AggregatesCovered
  <2>2. done[last_agg[1 - si]] \in Event
    BY <1>2, <2>1 DEF TypeInv, TypeOK
  <2>3. Issue(si, Wait(done[last_agg[1 - si]])) /\ UNCHANGED retired
    BY <1>5, <2>1 DEF WaitBeforeReset, WaitBeforeSnapshot, WaitForOtherStream
  <2>4. PICK w \in Unretired(si)' : /\ issued'[si][w].op = "wait"
                                    /\ Covers(issued'[si][w].ev, 1 - si, q)
    BY <1>1, <2>1, <2>2, <2>3, NewWaitHoldsBack DEF Unretired
  <2> QED
    BY <1>1, <2>4 DEF HeldBack, HoldsBack, Covers
<1> QED
  BY <1>4, <1>5 DEF WaitForBarrier, Reset, CopyIn, Decode, Aggregate,
                    Drain, PrintDrained, TakeSnapshot, AfterOtherWait

(***************************************************************************)
(* The slots and the end of the loop.                                      *)
(***************************************************************************)
\* SlotRing hands out another slot than the last.
LEMMA NextSlotDiffers == ASSUME NEW k \in Slot PROVE (k + 1) % NSlots # k
<1>1. CASE k + 1 < NSlots
  <2>1. (k + 1) % NSlots = k + 1
    BY <1>1 DEF Slot
  <2> QED
    BY <2>1 DEF Slot
<1>2. CASE k + 1 = NSlots
  <2>1. (k + 1) % NSlots = 0
    BY <1>2
  <2> QED
    BY <1>2, <2>1 DEF Slot
<1> QED
  BY <1>1, <1>2 DEF Slot

LEMMA HostKeepsSlotsApart ==
    ASSUME TypeInv, SlotsApart, Host
    PROVE  SlotsApart'
<1>1. CASE Acquire
  <2>1. next_' # next_
    BY <1>1, NextSlotDiffers DEF Acquire, TypeInv, TypeOK
  <2> QED
    BY <1>1, <2>1 DEF Acquire, SlotsApart, InBatch, BetweenBatches
<1>2. CASE Aggregate
  <2>1. /\ last_agg' = [last_agg EXCEPT ![si] = slot] /\ batches' = batches + 1
        /\ UNCHANGED next_ /\ pc' \in {"snap_wait", "next_batch"} /\ InBatch
        /\ batches \in Nat /\ last_agg \in [Stream -> Slot \cup {Null}] /\ si \in Stream
    BY <1>2 DEF Aggregate, InBatch, TypeInv, TypeOK
  <2>2. 1 - (batches' % 2) = si
    BY <2>1 DEF SlotsApart
  <2>3. last_agg'[1 - (batches' % 2)] = slot
    BY <2>1, <2>2
  <2> QED
    BY <2>1, <2>3 DEF SlotsApart, InBatch
<1>3. CASE Fill
  BY <1>3 DEF Fill, SlotsApart, InBatch, BetweenBatches
<1>4. CASE WaitForBarrier \/ WaitBeforeReset \/ Reset \/ CopyIn \/ Decode
  BY <1>4 DEF WaitForBarrier, WaitBeforeReset, Reset, CopyIn, Decode, SlotsApart, InBatch,
              BetweenBatches
<1>5. CASE WaitBeforeSnapshot \/ Drain \/ PrintDrained \/ TakeSnapshot \/ CopyOut \/ NextBatch
  BY <1>5 DEF WaitBeforeSnapshot, Drain, PrintDrained, TakeSnapshot, CopyOut, NextBatch,
              SlotsApart, InBatch, BetweenBatches
<1>6. CASE \/ FeedEnds \/ SyncStreams \/ PrintPending \/ FinalSnapshot \/ FinalCopyOut
           \/ FinalSync \/ FinalPrint
  BY <1>6 DEF FeedEnds, SyncStreams, PrintPending, FinalSnapshot, FinalCopyOut,
              FinalSync, FinalPrint, SlotsApart, InBatch, BetweenBatches
<1> QED
  BY <1>1, <1>2, <1>3, <1>4, <1>5, <1>6 DEF Host

LEMMA HostKeepsIdle ==
    ASSUME TypeInv, IdleAtEnd, Host
    PROVE  IdleAtEnd'
<1>1. CASE SyncStreams
  BY <1>1 DEF SyncStreams, IdleAtEnd, Idle, Stream
<1>2. CASE PrintPending \/ FinalSync \/ FinalPrint
  BY <1>2 DEF PrintPending, FinalSync, FinalPrint, IdleAtEnd, SyncedPc, FinalPc, Idle
<1>3. CASE FinalSnapshot \/ FinalCopyOut
  <2>1. issued'[1] = issued[1]
    BY <1>3 DEF FinalSnapshot, FinalCopyOut, Issue, TypeInv, TypeOK, Stream
  <2> QED
    BY <1>3, <2>1 DEF FinalSnapshot, FinalCopyOut, IdleAtEnd, SyncedPc, FinalPc, Idle
<1>4. CASE \/ Acquire \/ Fill \/ FeedEnds \/ WaitForBarrier \/ WaitBeforeReset \/ Reset
           \/ CopyIn \/ Decode \/ Aggregate
           \/ WaitBeforeSnapshot \/ Drain \/ PrintDrained \/ TakeSnapshot \/ CopyOut \/ NextBatch
  <2>1. pc' \notin SyncedPc
    BY <1>4 DEF Acquire, Fill, FeedEnds, WaitForBarrier, WaitBeforeReset, Reset, CopyIn,
                Decode, Aggregate, WaitBeforeSnapshot, Drain, PrintDrained, TakeSnapshot,
                CopyOut, NextBatch, SyncedPc, FinalPc
  <2> QED
    BY <2>1 DEF IdleAtEnd
<1> QED
  BY <1>1, <1>2, <1>3, <1>4 DEF Host

(***************************************************************************)
(* The invariant, step by step.                                            *)
(***************************************************************************)
\* The host steps other than the launches of kernels on the accumulators.
LaunchNoKernel ==
    \/ Acquire \/ Fill \/ FeedEnds \/ WaitForBarrier \/ WaitBeforeReset
    \/ CopyIn \/ Decode \/ WaitBeforeSnapshot \/ Drain \/ PrintDrained \/ CopyOut
    \/ NextBatch \/ SyncStreams \/ PrintPending \/ FinalCopyOut \/ FinalSync \/ FinalPrint

LEMMA HostLaunches ==
    Host <=> LaunchNoKernel \/ Aggregate \/ Reset \/ TakeSnapshot \/ FinalSnapshot
BY DEF Host, LaunchNoKernel

LEMMA LaunchingNone ==
    ASSUME TypeInv, LaunchNoKernel
    PROVE  /\ InFlightKept
           /\ NoneNew(AccumOps) /\ NoneNew(WholeArray) /\ NoneNew({"aggregate"})
           /\ UNCHANGED <<barrier_set, barrier_ev, last_agg, done>>
<1>1. PICK ops \in {{}, {"wait"}, {"h2d", "decode"}, {"d2h"}} : IssuesOnly(ops)
  BY HostIssues DEF LaunchNoKernel, SilentStep
<1>2. ops \cap AccumOps = {} /\ ops \cap WholeArray = {} /\ ops \cap {"aggregate"} = {}
  BY <1>1 DEF AccumOps, WholeArray
<1>3. UNCHANGED <<barrier_set, barrier_ev, last_agg, done>>
  BY DEF LaunchNoKernel, Acquire, Fill, FeedEnds, WaitForBarrier, WaitBeforeReset, CopyIn,
         Decode, WaitBeforeSnapshot, Drain, PrintDrained, CopyOut, NextBatch, SyncStreams,
         PrintPending, FinalCopyOut, FinalSync, FinalPrint
<1> QED
  BY <1>1, <1>2, <1>3, IssuingOnly

LEMMA HostKeepsKernelsOrdered ==
    ASSUME TypeInv, OrderInv, Host
    PROVE  KernelsOrdered'
<1>1. KernelsOrdered /\ BarrierWaited /\ OtherStreamWaited /\ IdleAtEnd
  BY DEF OrderInv
<1>2. si \in Stream /\ UNCHANGED retired
  BY HostIssues DEF Host, SilentStep, IssuesOnly, TypeInv, TypeOK
<1>3. CASE LaunchNoKernel
  BY <1>1, <1>3, LaunchingNone, OrderedAfterOther
<1>4. CASE Aggregate
  <2>1. /\ OnSlot("aggregate") \in Command /\ OnSlot("aggregate").op \notin WholeArray
        /\ Issue(si, OnSlot("aggregate")) /\ pc \in AfterBarrier
    BY <1>4, CommandTypes DEF Aggregate, OnSlot, WholeArray, AfterBarrier
  <2>2. \A q \in Unretired(1 - si) : IsWhole(1 - si, q) => HeldBack(si, 1 - si, q)
    BY <1>1, <2>1 DEF BarrierWaited
  <2> QED
    BY <1>1, <1>2, <2>1, <2>2, OrderedAfterKernel
<1>5. CASE Reset \/ TakeSnapshot
  <2>1. PICK c \in Command : Issue(si, c)
    BY <1>5, CommandTypes DEF Reset, TakeSnapshot
  <2>2. pc \in AfterBarrier /\ pc \in AfterOtherWait
    BY <1>5 DEF Reset, TakeSnapshot, AfterBarrier, AfterOtherWait
  <2>3. \A q \in Unretired(1 - si) :
          IsWhole(1 - si, q) \/ IsAggregate(1 - si, q) => HeldBack(si, 1 - si, q)
    BY <1>1, <2>2 DEF BarrierWaited, OtherStreamWaited
  <2> QED
    BY <1>1, <1>2, <2>1, <2>3, OrderedAfterKernel
<1>6. CASE FinalSnapshot
  <2>1. Issue(0, Kernel("snapshot")) /\ Kernel("snapshot") \in Command /\ 0 \in Stream
    BY <1>6, CommandTypes DEF FinalSnapshot, Stream
  <2>2. Unretired(1 - 0) = {}
    <3>1. retired[1] = Len(issued[1]) /\ retired[1] \in Nat
      BY <1>1, <1>6 DEF FinalSnapshot, IdleAtEnd, SyncedPc, FinalPc, Idle, TypeInv, TypeOK,
                        Stream
    <3> QED
      BY <3>1 DEF Unretired
  <2> QED
    BY <1>1, <1>2, <2>1, <2>2, OrderedAfterKernel
<1> QED
  BY <1>3, <1>4, <1>5, <1>6, HostLaunches

LEMMA HostKeepsCovered ==
    ASSUME TypeInv, OrderInv, Host
    PROVE  WholeCovered' /\ AggregatesCovered'
<1>1. WholeCovered /\ BarrierWaited /\ AggregatesCovered /\ SlotsApart
  BY DEF OrderInv
<1>2. CASE LaunchNoKernel
  <2>1. pc \in FinalPc => pc' \in FinalPc
    BY <1>2 DEF LaunchNoKernel, Acquire, Fill, FeedEnds, WaitForBarrier, WaitBeforeReset,
                CopyIn, Decode, WaitBeforeSnapshot, Drain, PrintDrained, CopyOut, NextBatch,
                SyncStreams, PrintPending, FinalCopyOut, FinalSync, FinalPrint, FinalPc
  <2> QED
    BY <1>1, <1>2, <2>1, LaunchingNone, WholeAfterOther, AggregatesAfterOther
<1>3. CASE Aggregate
  <2>1. IssuesOnly({"aggregate"}) /\ {"aggregate"} \cap WholeArray = {}
    BY <1>3, HostIssues DEF WholeArray
  <2>2. InFlightKept /\ NoneNew(WholeArray)
    BY <2>1, IssuingOnly
  <2>3. UNCHANGED <<barrier_set, barrier_ev>> /\ pc \notin FinalPc
    BY <1>3 DEF Aggregate, FinalPc
  <2>4. WholeCovered'
    BY <1>1, <2>2, <2>3, WholeAfterOther
  <2> QED
    BY <1>1, <1>3, <2>4, AggregatesAfterAggregate
<1>4. CASE Reset \/ TakeSnapshot \/ FinalSnapshot
  <2>1. PICK ops \in {{"reset"}, {"snapshot"}} : IssuesOnly(ops)
    BY <1>4, HostIssues
  <2>2. InFlightKept /\ NoneNew({"aggregate"})
    <3>1. ops \cap {"aggregate"} = {}
      BY <2>1
    <3> QED
      BY <2>1, <3>1, IssuingOnly
  <2>3. UNCHANGED <<last_agg, done>>
    BY <1>4 DEF Reset, TakeSnapshot, FinalSnapshot
  <2>4. AggregatesCovered'
    BY <1>1, <2>2, <2>3, AggregatesAfterOther
  <2>5. WholeCovered'
    BY <1>1, <1>4, WholeAfterBarrier DEF FinalSnapshot, WholeCovered, FinalPc
  <2> QED
    BY <2>4, <2>5
<1> QED
  BY <1>2, <1>3, <1>4, HostLaunches

LEMMA HostKeepsWaited ==
    ASSUME TypeInv, OrderInv, Host
    PROVE  BarrierWaited' /\ OtherStreamWaited'
<1>1. WholeCovered /\ BarrierWaited /\ AggregatesCovered /\ OtherStreamWaited
  BY DEF OrderInv
<1>2. CASE \/ WaitForBarrier \/ WaitBeforeReset \/ Reset \/ CopyIn \/ Decode \/ Aggregate
           \/ WaitBeforeSnapshot \/ Drain \/ PrintDrained \/ TakeSnapshot
  BY <1>1, <1>2, BarrierAfterStep, OtherStreamAfterStep
<1>3. CASE \/ Acquire \/ Fill \/ FeedEnds \/ CopyOut \/ NextBatch \/ SyncStreams \/ PrintPending
           \/ FinalSnapshot \/ FinalCopyOut \/ FinalSync \/ FinalPrint
  <2>1. pc' \notin AfterBarrier /\ pc' \notin AfterOtherWait
    BY <1>3 DEF Acquire, Fill, FeedEnds, CopyOut, NextBatch, SyncStreams, PrintPending,
                FinalSnapshot, FinalCopyOut, FinalSync, FinalPrint, AfterBarrier,
                AfterOtherWait
  <2> QED
    BY <2>1 DEF BarrierWaited, OtherStreamWaited
<1> QED
  BY <1>2, <1>3 DEF Host

LEMMA HostKeepsOrder == TypeInv /\ OrderInv /\ Host => OrderInv'
BY HostKeepsKernelsOrdered, HostKeepsCovered, HostKeepsWaited, HostKeepsSlotsApart,
   HostKeepsIdle DEF OrderInv

\* What a step of a stream does to the commands in flight: it can only retire one.
LEMMA DeviceInFlight ==
    ASSUME TypeInv, NEW x \in Stream, Device(x)
    PROVE  /\ UNCHANGED hostSide
           /\ \A t \in Stream : Unretired(t)' \subseteq Unretired(t)
           /\ \A t \in Stream : Idle(t) => Idle(t)'
<1>1. UNCHANGED hostSide /\ Busy(x) /\ (UNCHANGED retired \/ Retire(x))
  BY StreamSteps DEF TypeInv
<1>2. \A t \in Stream : retired[t] \in Nat
  BY DEF TypeInv, TypeOK
<1>3. \A t \in Stream : retired'[t] = retired[t] \/ (t = x /\ retired'[t] = retired[t] + 1)
  BY <1>1, <1>2 DEF Retire, TypeInv, TypeOK
<1>4. \A t \in Stream : Unretired(t)' \subseteq Unretired(t)
  BY <1>1, <1>2, <1>3 DEF Unretired, hostSide
<1>5. \A t \in Stream : Idle(t) => Idle(t)'
  BY <1>1, <1>2, <1>3 DEF Idle, Busy, hostSide
<1> QED
  BY <1>1, <1>4, <1>5

\* A wait retires only once what it waits for has.
LEMMA WaitOutlasts ==
    ASSUME TypeInv, NEW x \in Stream, Device(x),
           NEW s \in Stream, NEW w \in Unretired(s), NEW t \in Stream,
           NEW q \in Unretired(t)', HoldsBack(s, w, t, q)
    PROVE  w \in Unretired(s)' /\ HoldsBack(s, w, t, q)'
<1>1. /\ UNCHANGED issued /\ q \in Unretired(t)
      /\ Busy(x) /\ (UNCHANGED retired \/ Retire(x))
  BY DeviceInFlight, StreamSteps DEF TypeInv, hostSide
<1>2. HoldsBack(s, w, t, q)'
  BY <1>1 DEF HoldsBack, Covers
<1>3. retired[s] \in Nat /\ retired[t] \in Nat /\ Len(issued[s]) \in Nat
      /\ issued[s] \in Seq(Command) /\ w \in 1..Len(issued[s]) /\ w > retired[s]
  BY DEF TypeInv, TypeOK, Unretired
<1>4. CASE s = x /\ Retire(x) /\ w = retired[s] + 1
  <2>1. HeadOf(s).op = "wait" /\ HeadOf(s) = issued[s][w]
    BY <1>4 DEF HeadOf, HoldsBack
  <2>2. StreamWait(s)
    BY <1>4, <2>1 DEF Device, CopyHostToDevice, DecodeKernel, AggregateKernel, ResetKernel,
                      SnapshotRead, SnapshotConsume, CopyDeviceToHost, KernelStep, At
  <2>3. Completed(issued[s][w].ev)
    BY <2>1, <2>2 DEF StreamWait
  <2>4. issued[s][w].ev \in Event
    BY <1>3, <2>1 DEF Command
  <2>5. retired[t] >= q
    <3>1. issued[s][w].ev.stream = t /\ q <= issued[s][w].ev.pos
      BY DEF HoldsBack, Covers
    <3>2. retired[t] >= issued[s][w].ev.pos
      BY <2>3, <3>1 DEF Completed
    <3>3. issued[s][w].ev.pos \in Nat /\ q \in Nat
      BY <1>1, <1>3, <2>4 DEF Event, Unretired
    <3> QED
      BY <1>3, <3>1, <3>2, <3>3
  <2> QED
    BY <1>1, <1>3, <2>5 DEF Unretired
<1>5. CASE ~(s = x /\ Retire(x) /\ w = retired[s] + 1)
  <2>1. retired'[s] = retired[s] \/ (w > retired[s] + 1 /\ retired'[s] = retired[s] + 1)
    <3>1. CASE s = x /\ Retire(x)
      <4>1. retired'[s] = retired[s] + 1
        BY <3>1 DEF Retire, TypeInv, TypeOK
      <4>2. w > retired[s] + 1
        BY <1>3, <1>5, <3>1
      <4> QED
        BY <4>1, <4>2
    <3>2. CASE ~(s = x /\ Retire(x))
      BY <1>1, <3>2 DEF Retire, TypeInv, TypeOK
    <3> QED
      BY <3>1, <3>2
  <2> QED
    BY <1>1, <1>2, <1>3, <2>1 DEF Unretired
<1> QED
  BY <1>4, <1>5

LEMMA StreamsKeepOrder ==
    ASSUME TypeInv, OrderInv, NEW x \in Stream, Device(x)
    PROVE  OrderInv'
<1>1. /\ UNCHANGED <<pc, hostVars, eventVars, issued>>
      /\ \A t \in Stream : Unretired(t)' \subseteq Unretired(t)
      /\ \A t \in Stream : Idle(t) => Idle(t)'
  BY DeviceInFlight DEF hostSide
<1>2. si \in Stream /\ \A s \in Stream : 1 - s \in Stream
  BY DEF TypeInv, TypeOK, Stream
<1>3. ASSUME NEW s \in Stream, NEW t \in Stream, NEW q \in Unretired(t)', HeldBack(s, t, q)
      PROVE  HeldBack(s, t, q)'
  BY <1>3, WaitOutlasts DEF HeldBack
<1>4. KernelsOrdered'
  <2> SUFFICES ASSUME NEW s \in Stream, NEW p \in Unretired(s)',
                      NEW q \in Unretired(1 - s)',
                      IsWhole(s, p)', issued'[1 - s][q].op \in AccumOps
               PROVE  Ordered(s, p, q)'
    BY DEF KernelsOrdered
  <2>1. Ordered(s, p, q)
    BY <1>1, <1>2 DEF OrderInv, KernelsOrdered, IsWhole
  <2>2. \A w \in Unretired(s) :
          HoldsBack(s, w, 1 - s, q) => w \in Unretired(s)' /\ HoldsBack(s, w, 1 - s, q)'
    BY <1>2, WaitOutlasts
  <2>3. \A w \in Unretired(1 - s) :
          HoldsBack(1 - s, w, s, p) => w \in Unretired(1 - s)' /\ HoldsBack(1 - s, w, s, p)'
    BY <1>2, WaitOutlasts
  <2> QED
    BY <2>1, <2>2, <2>3 DEF Ordered
<1>5. WholeCovered'
  BY <1>1, <1>2, <1>3 DEF OrderInv, WholeCovered, IsWhole, Covers
<1>6. BarrierWaited'
  <2>1. \A q \in Unretired(1 - si) : q \in Unretired(1 - si)' /\ HeldBack(si, 1 - si, q)
                                     => HeldBack(si, 1 - si, q)'
    BY <1>1, <1>2, <1>3 DEF Unretired
  <2> QED
    BY <1>1, <1>2, <2>1 DEF OrderInv, BarrierWaited, IsWhole, Unretired
<1>7. AggregatesCovered'
  BY <1>1 DEF OrderInv, AggregatesCovered, IsAggregate, Covers
<1>8. OtherStreamWaited'
  BY <1>1, <1>2, <1>3 DEF OrderInv, OtherStreamWaited, IsAggregate, Unretired
<1>9. SlotsApart' /\ IdleAtEnd'
  BY <1>1 DEF OrderInv, SlotsApart, InBatch, IdleAtEnd, Stream
<1> QED
  BY <1>4, <1>5, <1>6, <1>7, <1>8, <1>9 DEF OrderInv

\* The order invariant holds in every reachable state.
LEMMA OrderInvariance == Spec => [](TypeInv /\ OrderInv)
<1>1. Init => OrderInv
  <2> SUFFICES ASSUME Init PROVE OrderInv
    OBVIOUS
  <2>1. \A s \in Stream : Unretired(s) = {}
    BY DEF Init, Unretired
  <2>2. pc = "acquire" /\ next_ = 0 /\ \A s \in Stream : last_agg[s] = Null
    BY DEF Init
  <2>3. SlotsApart
    BY <2>2 DEF Init, SlotsApart, InBatch, BetweenBatches, Null, Stream
  <2>4. si \in Stream /\ \A s \in Stream : 1 - s \in Stream
    BY DEF Init, Stream
  <2> QED
    BY <2>1, <2>2, <2>3, <2>4 DEF OrderInv, KernelsOrdered, WholeCovered, BarrierWaited,
          AggregatesCovered, OtherStreamWaited, IdleAtEnd, SyncedPc, FinalPc
<1>2. TypeInv /\ OrderInv /\ [Next]_vars => OrderInv'
  <2>1. TypeInv /\ OrderInv /\ UNCHANGED vars => OrderInv'
    BY DEF vars, OrderInv, KernelsOrdered, Ordered, HoldsBack, HeldBack, Covers, IsWhole,
           IsAggregate, WholeCovered, BarrierWaited, AggregatesCovered, OtherStreamWaited,
           SlotsApart, InBatch, IdleAtEnd, Idle, Unretired
  <2> QED
    BY <2>1, HostKeepsOrder, StreamsKeepOrder DEF Next, Terminated
<1> QED
  BY InitType, NextType, <1>1, <1>2, PTL DEF Spec

\* A reset or a snapshot has the accumulators to itself: no other kernel on them is
\* at the head of the other stream meanwhile.
THEOREM KernelsAreExclusive == Spec => []KernelExclusion
<1>1. TypeInv /\ OrderInv => KernelExclusion
  <2> SUFFICES ASSUME TypeInv, OrderInv, NEW op \in WholeArray, NEW other \in AccumOps,
                      NEW s \in Stream, At(s, op), At(1 - s, other)
               PROVE  FALSE
    BY DEF KernelExclusion
  <2> DEFINE p == retired[s] + 1
             q == retired[1 - s] + 1
  <2>1. 1 - s \in Stream
    BY DEF Stream
  <2>2. p \in Unretired(s) /\ q \in Unretired(1 - s)
    BY <2>1 DEF At, Busy, Unretired, TypeInv, TypeOK
  <2>3. IsWhole(s, p) /\ issued[1 - s][q].op \in AccumOps
    BY DEF At, HeadOf, IsWhole
  <2>4. Ordered(s, p, q)
    BY <2>2, <2>3 DEF OrderInv, KernelsOrdered
  <2>5. \A t \in Stream : \A w \in Unretired(t) : ~(w < retired[t] + 1)
    BY DEF Unretired, TypeInv, TypeOK
  <2> QED
    BY <2>1, <2>4, <2>5 DEF Ordered
<1> QED
  BY OrderInvariance, <1>1, PTL

-----------------------------------------------------------------------------
(***************************************************************************)
(* The snapshot buffers.                                                   *)
(*                                                                         *)
(* The commands of one periodic snapshot are all on one stream, and those  *)
(* of the previous one have completed before the first is issued: the      *)
(* host has waited for the event that covers them.                         *)
(***************************************************************************)
SnapOps == {"snapshot", "d2h"}

IsSnap(s, p) == issued[s][p].op \in SnapOps

SnapshotsInTurn ==
    \A s \in Stream : \A p \in Unretired(s) :
        IsSnap(s, p) =>
            /\ pc \notin {"print", "snapshot"}
            /\ pc = "d2h" => s = si
            /\ pc \notin {"print", "snapshot", "d2h"} \cup SyncedPc =>
                 pending # Null /\ Covers(snap_done[pending], s, p)

\* Steps that issue nothing for a snapshot and do not await one.
LEMMA InTurnAfterOther ==
    ASSUME TypeInv, SnapshotsInTurn,
           \/ Acquire \/ Fill \/ FeedEnds \/ WaitForBarrier \/ WaitBeforeReset \/ Reset
           \/ CopyIn \/ Decode \/ Aggregate \/ WaitBeforeSnapshot \/ PrintDrained \/ NextBatch
    PROVE  SnapshotsInTurn'
<1>1. PICK ops \in {{}, {"wait"}, {"h2d", "decode"}, {"aggregate"}, {"reset"}} : IssuesOnly(ops)
  BY HostIssues DEF SilentStep
<1>2. NoneNew(SnapOps)
  <2>1. ops \cap SnapOps = {}
    BY <1>1 DEF SnapOps
  <2> QED
    BY <1>1, <2>1, IssuingOnly
<1>3. /\ UNCHANGED <<pending, snap_done>>
      /\ pc \notin {"d2h"} \cup SyncedPc
      /\ pc' \notin {"d2h", "print"}
      /\ pc' = "snapshot" => pc = "print"
  BY DEF Acquire, Fill, FeedEnds, WaitForBarrier, WaitBeforeReset, Reset, CopyIn, Decode,
         Aggregate, WaitBeforeSnapshot, PrintDrained, NextBatch, SyncedPc, FinalPc
<1> SUFFICES ASSUME NEW s \in Stream, NEW p \in Unretired(s)', IsSnap(s, p)'
             PROVE  pc' # "snapshot" /\ pending' # Null /\ Covers(snap_done[pending], s, p)'
  BY <1>3 DEF SnapshotsInTurn
<1>4. p \in Unretired(s) /\ IsSnap(s, p)
  BY <1>2 DEF NoneNew, IsSnap
<1>5. pc \notin {"print", "snapshot"} /\ pending # Null /\ Covers(snap_done[pending], s, p)
  BY <1>3, <1>4 DEF SnapshotsInTurn
<1> QED
  BY <1>3, <1>5 DEF Covers

\* The wait for the previous snapshot: none of its commands is left.
LEMMA DrainEmpties ==
    ASSUME TypeInv, SnapshotsInTurn, Drain
    PROVE  SnapshotsInTurn'
<1> SUFFICES ASSUME NEW s \in Stream, NEW p \in Unretired(s), IsSnap(s, p) PROVE FALSE
  <2>1. UNCHANGED <<issued, retired>>
    BY DEF Drain
  <2> QED
    BY <2>1 DEF SnapshotsInTurn, Unretired, IsSnap
<1>1. pending # Null /\ Covers(snap_done[pending], s, p)
  BY DEF Drain, SnapshotsInTurn, SyncedPc, FinalPc
<1>2. Completed(snap_done[pending]) /\ snap_done[pending] \in Event
  BY <1>1 DEF Drain, Drained, TypeInv, TypeOK
<1>3. retired[s] >= snap_done[pending].pos /\ p <= snap_done[pending].pos
  BY <1>1, <1>2 DEF Covers, Completed
<1>4. retired[s] \in Nat /\ p > retired[s] /\ p \in Int
  BY DEF TypeInv, TypeOK, Unretired
<1>5. snap_done[pending].pos \in Nat
  BY <1>2 DEF Event
<1> QED
  BY <1>3, <1>4, <1>5

\* The launch of the kernel, on a stream of its choice, and the copy behind it.
LEMMA InTurnAfterSnapshot ==
    ASSUME TypeInv, SnapshotsInTurn, TakeSnapshot
    PROVE  SnapshotsInTurn'
<1>1. PICK c \in Command : Issue(si, c)
  BY CommandTypes DEF TakeSnapshot
<1>2. UNCHANGED <<retired, si>> /\ si \in Stream /\ pc = "snapshot" /\ pc' = "d2h"
  BY DEF TakeSnapshot, TypeInv, TypeOK
<1> SUFFICES ASSUME NEW s \in Stream, NEW p \in Unretired(s)', IsSnap(s, p)' PROVE s = si
  BY <1>2 DEF SnapshotsInTurn
<1>3. (p \in Unretired(s) /\ issued'[s][p] = issued[s][p]) \/ s = si
  BY <1>1, <1>2, InFlightAfterIssue
<1> QED
  BY <1>2, <1>3 DEF SnapshotsInTurn, IsSnap

LEMMA InTurnAfterCopyOut ==
    ASSUME TypeInv, SnapshotsInTurn, CopyOut
    PROVE  SnapshotsInTurn'
<1>1. Issue(si, CopyTo(bi)) /\ CopyTo(bi) \in Command /\ bi \in {0, 1} /\ bi # Null
  BY CommandTypes DEF CopyOut, TypeInv, TypeOK, Null
<1>2. /\ UNCHANGED retired /\ si \in Stream /\ pc = "d2h" /\ pc' = "next_batch"
      /\ pending' = bi /\ snap_done' = [snap_done EXCEPT ![bi] = RecordAfterIssue(si)]
  BY DEF CopyOut, TypeInv, TypeOK
<1>3. snap_done'[pending'] = RecordAfterIssue(si)
  BY <1>1, <1>2 DEF TypeInv, TypeOK
<1> SUFFICES ASSUME NEW s \in Stream, NEW p \in Unretired(s)', IsSnap(s, p)'
             PROVE  pending' # Null /\ Covers(snap_done'[pending'], s, p)
  BY <1>2 DEF SnapshotsInTurn, Covers
<1>4. \/ p \in Unretired(s) /\ issued'[s][p] = issued[s][p]
      \/ s = si /\ p = Len(issued[si]) + 1
  BY <1>1, <1>2, InFlightAfterIssue
<1>5. s = si
  BY <1>2, <1>4 DEF SnapshotsInTurn, IsSnap
<1>6. p <= Len(issued[si]) + 1
  <2>1. Len(issued[si]) \in Nat /\ retired[si] \in Nat
    BY <1>2 DEF TypeInv, TypeOK
  <2> QED
    BY <1>4, <1>5, <2>1 DEF Unretired
<1> QED
  BY <1>1, <1>2, <1>3, <1>5, <1>6 DEF Covers, RecordAfterIssue

LEMMA HostKeepsTurn ==
    ASSUME TypeInv, SnapshotsInTurn, Host
    PROVE  SnapshotsInTurn'
<1>1. CASE \/ Acquire \/ Fill \/ FeedEnds \/ WaitForBarrier \/ WaitBeforeReset \/ Reset
           \/ CopyIn \/ Decode \/ Aggregate \/ WaitBeforeSnapshot \/ PrintDrained \/ NextBatch
  BY <1>1, InTurnAfterOther
<1>2. CASE Drain \/ TakeSnapshot \/ CopyOut
  BY <1>2, DrainEmpties, InTurnAfterSnapshot, InTurnAfterCopyOut
<1>3. CASE \/ SyncStreams \/ PrintPending \/ FinalSnapshot \/ FinalCopyOut \/ FinalSync
           \/ FinalPrint
  <2>1. pc' \in SyncedPc /\ pc' \notin {"print", "snapshot", "d2h"}
    BY <1>3 DEF SyncStreams, PrintPending, FinalSnapshot, FinalCopyOut, FinalSync, FinalPrint,
                SyncedPc, FinalPc
  <2> QED
    BY <2>1 DEF SnapshotsInTurn
<1> QED
  BY <1>1, <1>2, <1>3 DEF Host

LEMMA TurnInvariance == Spec => [](TypeInv /\ OrderInv /\ SnapshotsInTurn)
<1>1. Init => SnapshotsInTurn
  BY DEF Init, SnapshotsInTurn, Unretired
<1>2. TypeInv /\ SnapshotsInTurn /\ [Next]_vars => SnapshotsInTurn'
  <2>1. ASSUME TypeInv, SnapshotsInTurn, NEW x \in Stream, Device(x) PROVE SnapshotsInTurn'
    <3>1. /\ UNCHANGED <<pc, hostVars, eventVars, issued>>
          /\ \A t \in Stream : Unretired(t)' \subseteq Unretired(t)
      BY <2>1, DeviceInFlight DEF hostSide
    <3> QED
      BY <2>1, <3>1 DEF SnapshotsInTurn, IsSnap, Covers
  <2>2. TypeInv /\ SnapshotsInTurn /\ UNCHANGED vars => SnapshotsInTurn'
    BY DEF vars, SnapshotsInTurn, IsSnap, Covers, Unretired
  <2> QED
    BY <2>1, <2>2, HostKeepsTurn DEF Next, Terminated
<1> QED
  BY OrderInvariance, InitType, NextType, <1>1, <1>2, PTL DEF Spec

\* The snapshot buffers change hands without overlap: no kernel writes d_snap while a
\* copy out of it is waiting, and no row is printed from a buffer still to be written.
THEOREM BuffersAreHandedOver == Spec => []HandoffExclusive
<1>1. TypeInv /\ OrderInv /\ SnapshotsInTurn => HandoffExclusive
  <2> SUFFICES ASSUME TypeInv, OrderInv, SnapshotsInTurn PROVE HandoffExclusive
    OBVIOUS
  <2>1. \A s \in Stream : Idle(s) => Unretired(s) = {}
    BY DEF Idle, Unretired, TypeInv, TypeOK
  <2>2. IdleAtEnd
    BY DEF OrderInv
  <2>3. ASSUME NEW s \in Stream, NEW p \in Unretired(s), issued[s][p].op = "d2h",
               At(1 - s, "snapshot")
        PROVE  FALSE
    <3> DEFINE q == retired[1 - s] + 1
    <3>1. 1 - s \in Stream /\ 1 - s # s /\ (s = 1 \/ 1 - s = 1)
      BY DEF Stream
    <3>2. q \in Unretired(1 - s) /\ IsSnap(1 - s, q)
      BY <2>3, <3>1 DEF At, Busy, HeadOf, Unretired, IsSnap, SnapOps, TypeInv, TypeOK
    <3>3. IsSnap(s, p)
      BY <2>3 DEF IsSnap, SnapOps
    <3>4. pc \notin SyncedPc
      BY <2>1, <2>2, <2>3, <3>1, <3>2 DEF IdleAtEnd
    <3> HIDE DEF q
    <3> QED
      BY <3>1, <3>2, <3>3, <3>4 DEF SnapshotsInTurn, Covers
  <2>4. ASSUME NEW s \in Stream, NEW p \in Unretired(s), issued[s][p].op = "d2h",
               pc \in {"print", "print_pending"}
        PROVE  FALSE
    <3>1. CASE pc = "print"
      BY <2>4, <3>1 DEF SnapshotsInTurn, IsSnap, SnapOps
    <3>2. CASE pc = "print_pending"
      BY <2>1, <2>2, <2>4, <3>2 DEF IdleAtEnd, SyncedPc, FinalPc, Stream
    <3> QED
      BY <2>4, <3>1, <3>2
  <2>5. pc = "final_print" => \A s \in Stream : Idle(s)
    BY <2>2 DEF IdleAtEnd, SyncedPc, FinalPc, Stream
  <2> QED
    BY <2>3, <2>4, <2>5 DEF HandoffExclusive
<1> QED
  BY TurnInvariance, <1>1, PTL

-----------------------------------------------------------------------------
(***************************************************************************)
(* No deadlock.                                                            *)
(*                                                                         *)
(* An event is waited for only after it was recorded, so it lies at or     *)
(* before the end its stream has when the wait is issued.  Two waits at    *)
(* the heads of the streams that hold each other back would both have to   *)
(* be the later one.                                                       *)
(***************************************************************************)
EventIssued(ev) == ev.pos <= Len(issued[ev.stream])

EventsIssued ==
    /\ \A k \in Slot : EventIssued(done[k])
    /\ EventIssued(barrier_ev)
    /\ \A i \in {0, 1} : EventIssued(snap_done[i])

WaitsIssued ==
    \A s \in Stream : \A w \in Unretired(s) :
        issued[s][w].op = "wait" =>
            /\ EventIssued(issued[s][w].ev)
            /\ issued[s][w].ev.stream = s => issued[s][w].ev.pos < w

NoCycle ==
    \A s \in Stream : \A w \in Unretired(s), u \in Unretired(1 - s) :
        ~(HoldsBack(s, w, 1 - s, u) /\ HoldsBack(1 - s, u, s, w))

\* A kernel retires with its last step, so the one at the head has steps left.
KernelsUnfinished ==
    \A s \in Stream :
        /\ did[s] # {} => Busy(s) /\ HeadOf(s).op \in AccumOps
        /\ Busy(s) /\ HeadOf(s).op \in AccumOps =>
              did[s] \subseteq Steps(HeadOf(s).op) /\ did[s] # Steps(HeadOf(s).op)

ProgressInv == EventsIssued /\ WaitsIssued /\ NoCycle /\ KernelsUnfinished

\* A step of a stream is a kernel's, or retires something else.
LEMMA DeviceKinds ==
    ASSUME TypeInv, NEW x \in Stream, Device(x)
    PROVE  \/ \E op \in AccumOps : \E step \in Steps(op) :
                /\ KernelStep(x, op, step)
                /\ \A c \in Cells : step = <<"consume", c>> => <<"read", c>> \in did[x]
           \/ Busy(x) /\ HeadOf(x).op \notin AccumOps /\ Retire(x)
<1>1. CASE AggregateKernel(x)
  <2>1. PICK c \in Cells : KernelStep(x, "aggregate", <<"write", c>>)
    BY <1>1 DEF AggregateKernel
  <2> QED
    BY <2>1 DEF KernelStep, AccumOps
<1>2. CASE ResetKernel(x)
  <2>1. PICK c \in Cells : KernelStep(x, "reset", <<"write", c>>)
    BY <1>2 DEF ResetKernel
  <2> QED
    BY <2>1 DEF KernelStep, AccumOps, WholeArray
<1>3. CASE SnapshotRead(x)
  <2>1. PICK c \in Cells : KernelStep(x, "snapshot", <<"read", c>>)
    BY <1>3 DEF SnapshotRead
  <2> QED
    BY <2>1 DEF KernelStep, AccumOps, WholeArray
<1>4. CASE SnapshotConsume(x)
  <2>1. PICK c \in WindowCells :
          <<"read", c>> \in did[x] /\ KernelStep(x, "snapshot", <<"consume", c>>)
    BY <1>4 DEF SnapshotConsume
  <2> QED
    BY <2>1 DEF KernelStep, AccumOps, WholeArray
<1>5. CASE StreamWait(x) \/ CopyHostToDevice(x) \/ DecodeKernel(x) \/ CopyDeviceToHost(x)
  BY <1>5 DEF StreamWait, CopyHostToDevice, DecodeKernel, CopyDeviceToHost, At, AccumOps,
              WholeArray
<1> QED
  BY <1>1, <1>2, <1>3, <1>4, <1>5 DEF Device

\* Issuing a command makes a stream longer, so events stay issued.
LEMMA EventStaysIssued ==
    ASSUME TypeInv, NEW s \in Stream, NEW c \in Command, Issue(s, c),
           NEW ev \in Event, EventIssued(ev)
    PROVE  EventIssued(ev)'
<1>1. issued \in [Stream -> Seq(Command)]
  BY DEF TypeInv, TypeOK
<1>2. issued'[1 - s] = issued[1 - s] /\ Len(issued'[s]) = Len(issued[s]) + 1
  BY <1>1, Issuing
<1>3. ev.stream \in Stream /\ ev.pos \in Nat /\ (ev.stream = s \/ ev.stream = 1 - s)
  BY DEF Event, Stream
<1>4. Len(issued[s]) \in Nat
  BY <1>1
<1> QED
  BY <1>2, <1>3, <1>4 DEF EventIssued

\* An event recorded after the issue of a command is issued with it.
LEMMA RecordedIsIssued ==
    ASSUME TypeInv, NEW s \in Stream, NEW c \in Command, Issue(s, c),
           NEW ev, ev = RecordAfterIssue(s)
    PROVE  EventIssued(ev)'
<1>1. issued \in [Stream -> Seq(Command)]
  BY DEF TypeInv, TypeOK
<1>2. Len(issued'[s]) = Len(issued[s]) + 1 /\ Len(issued[s]) \in Nat
  BY <1>1, Issuing
<1>3. ev.stream = s /\ ev.pos = Len(issued[s]) + 1
  BY DEF RecordAfterIssue
<1> QED
  BY <1>2, <1>3 DEF EventIssued

\* A host step issues at most one command, and waits for nothing not recorded yet.
Lengthens ==
    \/ UNCHANGED issued
    \/ \E s \in Stream, c \in Command :
         Issue(s, c) /\ (c.op = "wait" => EventIssued(c.ev))

LEMMA HostLengthens ==
    ASSUME TypeInv, EventsIssued, Host
    PROVE  Lengthens /\ UNCHANGED <<retired, did>>
<1>1. UNCHANGED <<retired, did>>
  BY DEF Host, Acquire, Fill, FeedEnds, WaitForBarrier, WaitBeforeReset, Reset, CopyIn,
         Decode, Aggregate, WaitBeforeSnapshot, Drain, PrintDrained, TakeSnapshot, CopyOut,
         NextBatch, SyncStreams, PrintPending, FinalSnapshot, FinalCopyOut, FinalSync,
         FinalPrint
<1>2. si \in Stream /\ 1 - si \in Stream
  BY DEF TypeInv, TypeOK, Stream
<1>3. CASE WaitForBarrier
  <2>1. Wait(barrier_ev) \in Command /\ Wait(barrier_ev).ev = barrier_ev
    BY CommandTypes DEF TypeInv, TypeOK, Wait
  <2>2. EventIssued(Wait(barrier_ev).ev)
    BY <2>1 DEF EventsIssued
  <2> QED
    BY <1>1, <1>2, <1>3, <2>1, <2>2 DEF WaitForBarrier, Lengthens
<1>4. CASE WaitBeforeReset \/ WaitBeforeSnapshot
  <2>1. CASE last_agg[1 - si] = Null
    BY <1>1, <1>4, <2>1 DEF WaitBeforeReset, WaitBeforeSnapshot, WaitForOtherStream, Lengthens
  <2>2. CASE last_agg[1 - si] # Null
    <3>1. PICK k \in Slot : k = last_agg[1 - si]
      BY <1>2, <2>2 DEF TypeInv, TypeOK
    <3>2. PICK ev \in Event : ev = done[k] /\ EventIssued(ev)
      BY <3>1 DEF TypeInv, TypeOK, EventsIssued
    <3>3. Wait(ev) \in Command /\ EventIssued(Wait(ev).ev)
      BY <3>2, CommandTypes DEF Wait
    <3>4. Issue(si, Wait(ev))
      BY <1>4, <2>2, <3>1, <3>2 DEF WaitBeforeReset, WaitBeforeSnapshot, WaitForOtherStream
    <3> QED
      BY <1>1, <1>2, <3>3, <3>4 DEF Lengthens
  <2> QED
    BY <2>1, <2>2
<1>5. CASE ~(WaitForBarrier \/ WaitBeforeReset \/ WaitBeforeSnapshot)
  <2>1. \E ops \in SUBSET {"h2d", "decode", "aggregate", "reset", "snapshot", "d2h"} :
          IssuesOnly(ops)
    BY <1>5, HostIssues DEF Host, SilentStep
  <2> QED
    BY <1>1, <2>1 DEF IssuesOnly, Lengthens
<1> QED
  BY <1>3, <1>4, <1>5

\* The events recorded so far stay issued, and those a step records are.
LEMMA HostKeepsEvents ==
    ASSUME TypeInv, EventsIssued, Host
    PROVE  EventsIssued'
<1>1. /\ \A k \in Slot : done[k] \in Event /\ EventIssued(done[k])
      /\ barrier_ev \in Event /\ EventIssued(barrier_ev)
      /\ \A i \in {0, 1} : snap_done[i] \in Event /\ EventIssued(snap_done[i])
  BY DEF EventsIssued, TypeInv, TypeOK
<1>2. ASSUME NEW ev \in Event, EventIssued(ev) PROVE EventIssued(ev)'
  BY <1>2, HostLengthens, EventStaysIssued DEF Lengthens, EventIssued
<1>3. PICK recorded : recorded = RecordAfterIssue(si)
  OBVIOUS
<1>4. Aggregate \/ Reset \/ TakeSnapshot \/ CopyOut => EventIssued(recorded)'
  <2>1. si \in Stream /\ bi \in {0, 1}
    BY DEF TypeInv, TypeOK
  <2>2. Aggregate \/ Reset \/ TakeSnapshot \/ CopyOut =>
          \E c \in Command : Issue(si, c)
    BY <2>1, CommandTypes DEF Aggregate, Reset, TakeSnapshot, CopyOut
  <2> QED
    BY <1>3, <2>1, <2>2, RecordedIsIssued
<1>5. /\ \A k \in Slot : done'[k] = done[k] \/ (Aggregate /\ done'[k] = recorded)
      /\ barrier_ev' = barrier_ev \/ ((Reset \/ TakeSnapshot) /\ barrier_ev' = recorded)
      /\ \A i \in {0, 1} :
           snap_done'[i] = snap_done[i] \/ (CopyOut /\ snap_done'[i] = recorded)
  BY <1>3 DEF TypeInv, TypeOK, RecordBarrier,
              Host, Acquire, Fill, FeedEnds, WaitForBarrier, WaitBeforeReset, Reset, CopyIn,
              Decode, Aggregate, WaitBeforeSnapshot, Drain, PrintDrained, TakeSnapshot,
              CopyOut, NextBatch, SyncStreams, PrintPending, FinalSnapshot, FinalCopyOut,
              FinalSync, FinalPrint
<1>6. /\ \A k \in Slot : EventIssued(done[k])'
      /\ EventIssued(barrier_ev)'
      /\ \A i \in {0, 1} : EventIssued(snap_done[i])'
  BY <1>1, <1>2, <1>4, <1>5 DEF EventIssued
<1> QED
  BY <1>6 DEF EventsIssued

\* A new wait is the last command of its stream: it waits for nothing behind it, and
\* no wait in flight waits for it.
LEMMA IssueKeepsWaits ==
    ASSUME TypeInv, WaitsIssued, NoCycle, NEW s \in Stream, NEW c \in Command, Issue(s, c),
           UNCHANGED retired, c.op = "wait" => EventIssued(c.ev)
    PROVE  WaitsIssued' /\ NoCycle'
<1>1. PICK n \in Nat : n = Len(issued[s])
  BY DEF TypeInv, TypeOK
<1>2. ASSUME NEW t \in Stream, NEW p \in Unretired(t)'
      PROVE  \/ p \in Unretired(t) /\ issued'[t][p] = issued[t][p]
             \/ t = s /\ p = n + 1 /\ issued'[t][p] = c
  BY <1>1, <1>2, InFlightAfterIssue
<1>3. ASSUME NEW t \in Stream, NEW p \in Unretired(t)
      PROVE  p \in Nat /\ (t = s => p <= n) /\ issued[t][p] \in Command
  BY <1>1, <1>3 DEF Unretired, TypeInv, TypeOK
<1>4. ASSUME NEW t \in Stream, NEW p \in Unretired(t), issued[t][p].op = "wait"
      PROVE  \E ev \in Event :
                /\ ev = issued[t][p].ev /\ EventIssued(ev) /\ EventIssued(ev)'
                /\ ev.stream = t => ev.pos < p
  <2>1. PICK ev \in Event : ev = issued[t][p].ev
    BY <1>3, <1>4 DEF Command
  <2>2. EventIssued(ev) /\ (ev.stream = t => ev.pos < p)
    BY <1>4, <2>1 DEF WaitsIssued
  <2>3. EventIssued(ev)'
    BY <2>2, EventStaysIssued
  <2> QED
    BY <2>1, <2>2, <2>3
<1>5. c.op = "wait" =>
        /\ c.ev \in Event /\ EventIssued(c.ev)'
        /\ c.ev.stream = s => c.ev.pos < n + 1
  <2> SUFFICES ASSUME c.op = "wait" PROVE c.ev \in Event /\ EventIssued(c.ev)'
                                          /\ (c.ev.stream = s => c.ev.pos < n + 1)
    OBVIOUS
  <2>1. PICK ev \in Event : ev = c.ev /\ EventIssued(ev)
    BY DEF Command
  <2>2. EventIssued(ev)'
    BY <2>1, EventStaysIssued
  <2>3. ev.stream = s => ev.pos < n + 1
    BY <1>1, <2>1 DEF EventIssued, Event
  <2> QED
    BY <2>1, <2>2, <2>3 DEF EventIssued
<1>6. WaitsIssued'
  <2> SUFFICES ASSUME NEW t \in Stream, NEW p \in Unretired(t)', issued'[t][p].op = "wait"
               PROVE  /\ EventIssued(issued[t][p].ev)'
                      /\ issued'[t][p].ev.stream = t => issued'[t][p].ev.pos < p
    BY DEF WaitsIssued
  <2>1. CASE p \in Unretired(t) /\ issued'[t][p] = issued[t][p]
    <3>1. PICK ev \in Event :
            /\ ev = issued[t][p].ev /\ EventIssued(ev)'
            /\ ev.stream = t => ev.pos < p
      BY <1>4, <2>1
    <3>2. issued'[t][p].ev = ev
      BY <2>1, <3>1
    <3> QED
      BY <3>1, <3>2 DEF EventIssued
  <2>2. CASE t = s /\ p = n + 1 /\ issued'[t][p] = c
    BY <1>5, <2>2 DEF EventIssued
  <2> QED
    BY <1>2, <2>1, <2>2
<1>7. NoCycle'
  <2> SUFFICES ASSUME NEW t \in Stream, NEW w \in Unretired(t)', NEW u \in Unretired(1 - t)',
                      issued'[t][w].op = "wait", issued'[1 - t][u].op = "wait",
                      Covers(issued'[t][w].ev, 1 - t, u), Covers(issued'[1 - t][u].ev, t, w)
               PROVE  FALSE
    BY DEF NoCycle, HoldsBack, Covers
  <2>1. 1 - t \in Stream /\ 1 - t # t
    BY DEF Stream
  <2>2. CASE /\ w \in Unretired(t) /\ issued'[t][w] = issued[t][w]
             /\ u \in Unretired(1 - t) /\ issued'[1 - t][u] = issued[1 - t][u]
    BY <2>1, <2>2 DEF NoCycle, HoldsBack, Covers
  <2>3. CASE /\ t = s /\ w = n + 1
             /\ u \in Unretired(1 - t) /\ issued'[1 - t][u] = issued[1 - t][u]
    <3>1. PICK ev \in Event : ev = issued[1 - t][u].ev /\ EventIssued(ev)
      BY <1>4, <2>1, <2>3
    <3>2. ev.stream = s /\ n + 1 <= ev.pos
      BY <2>3, <3>1 DEF Covers
    <3> QED
      BY <1>1, <3>1, <3>2 DEF EventIssued, Event
  <2>4. CASE /\ 1 - t = s /\ u = n + 1
             /\ w \in Unretired(t) /\ issued'[t][w] = issued[t][w]
    <3>1. PICK ev \in Event : ev = issued[t][w].ev /\ EventIssued(ev)
      BY <1>4, <2>4
    <3>2. ev.stream = s /\ n + 1 <= ev.pos
      BY <2>4, <3>1 DEF Covers
    <3> QED
      BY <1>1, <3>1, <3>2 DEF EventIssued, Event
  <2> QED
    BY <1>2, <2>1, <2>2, <2>3, <2>4
<1> QED
  BY <1>6, <1>7

\* A kernel issued to an idle stream has all its steps left.
LEMMA SomeStep == \A op \in AccumOps : Steps(op) # {}
<1>1. PICK c \in SumCells : TRUE
  BY SumCellsAssumption
<1>2. c \in Cells
  BY DEF Cells
<1>3. <<"read", c>> \in {"read"} \X Cells /\ <<"write", c>> \in {"write"} \X Cells
  BY <1>2
<1> QED
  BY <1>3 DEF Steps

LEMMA IssueKeepsKernels ==
    ASSUME TypeInv, KernelsUnfinished, NEW s \in Stream, NEW c \in Command, Issue(s, c),
           UNCHANGED <<retired, did>>
    PROVE  KernelsUnfinished'
<1> SUFFICES ASSUME NEW t \in Stream
             PROVE  /\ did[t] # {} => Busy(t)' /\ HeadOf(t)'.op \in AccumOps
                    /\ Busy(t)' /\ HeadOf(t)'.op \in AccumOps =>
                         did[t] \subseteq Steps(HeadOf(t)'.op) /\ did[t] # Steps(HeadOf(t)'.op)
  BY DEF KernelsUnfinished, HeadOf
<1>1. retired[t] \in Nat /\ Len(issued[t]) \in Nat /\ retired[t] <= Len(issued[t])
  BY DEF TypeInv, TypeOK
<1>2. CASE Busy(t)
  <2>1. retired[t] + 1 \in Unretired(t)
    BY <1>1, <1>2 DEF Busy, Unretired
  <2>2. /\ retired[t] + 1 \in retired'[t] + 1 .. Len(issued'[t])
        /\ issued'[t][retired[t] + 1] = issued[t][retired[t] + 1]
    BY <2>1, IssueKeepsInFlight DEF Unretired
  <2>3. Len(issued'[t]) \in Nat
    BY IssueKeepsTypes
  <2>4. Busy(t)' /\ HeadOf(t)' = HeadOf(t)
    BY <1>1, <2>2, <2>3 DEF Busy, HeadOf
  <2> QED
    BY <1>2, <2>4 DEF KernelsUnfinished
<1>3. CASE ~Busy(t)
  <2>1. did[t] = {}
    BY <1>3 DEF KernelsUnfinished
  <2> QED
    BY <2>1, SomeStep
<1> QED
  BY <1>2, <1>3

LEMMA HostKeepsProgress ==
    ASSUME TypeInv, ProgressInv, Host
    PROVE  ProgressInv'
<1>1. Lengthens /\ UNCHANGED <<retired, did>> /\ EventsIssued'
  BY HostLengthens, HostKeepsEvents DEF ProgressInv
<1>2. CASE UNCHANGED issued
  BY <1>1, <1>2 DEF ProgressInv, WaitsIssued, NoCycle, KernelsUnfinished, EventIssued,
                    Unretired, HoldsBack, Covers, Busy, HeadOf
<1>3. CASE \E s \in Stream, c \in Command :
             Issue(s, c) /\ (c.op = "wait" => EventIssued(c.ev))
  BY <1>1, <1>3, IssueKeepsWaits, IssueKeepsKernels DEF ProgressInv
<1> QED
  BY <1>1, <1>2, <1>3 DEF Lengthens

\* A kernel that does not retire has a step left; what comes next has all of them.
LEMMA DeviceKeepsKernels ==
    ASSUME TypeInv, KernelsUnfinished, NEW x \in Stream, Device(x)
    PROVE  KernelsUnfinished'
<1>1. UNCHANGED issued
  BY DeviceInFlight DEF hostSide
<1>2. /\ did \in [Stream -> SUBSET ({"read", "write", "consume"} \X Cells)]
      /\ retired \in [Stream -> Nat]
  BY DEF TypeInv, TypeOK
<1>3. ASSUME NEW s \in Stream, s # x
      PROVE  did'[s] = did[s] /\ Busy(s)' = Busy(s) /\ HeadOf(s)' = HeadOf(s)
  <2>1. did'[s] = did[s] /\ retired'[s] = retired[s]
    BY <1>2, <1>3, DeviceKinds DEF KernelStep, Retire
  <2> QED
    BY <1>1, <2>1 DEF Busy, HeadOf
<1>4. CASE Retire(x)
  <2>1. did'[x] = {}
    BY <1>2, <1>4 DEF Retire
  <2> QED
    BY <1>3, <2>1, SomeStep DEF KernelsUnfinished
<1>5. CASE ~Retire(x)
  <2>1. PICK op \in AccumOps : \E step \in Steps(op) : KernelStep(x, op, step)
    BY <1>5, DeviceKinds
  <2>2. PICK step \in Steps(op) : KernelStep(x, op, step)
    BY <2>1
  <2>3. /\ Busy(x) /\ HeadOf(x).op = op /\ Steps(op) # did[x] \cup {step}
        /\ did'[x] = did[x] \cup {step} /\ UNCHANGED retired
    BY <1>2, <1>5, <2>2 DEF KernelStep, At
  <2>4. Busy(x)' /\ HeadOf(x)' = HeadOf(x)
    BY <1>1, <2>3 DEF Busy, HeadOf
  <2>5. did'[x] \subseteq Steps(op) /\ did'[x] # Steps(op)
    BY <2>2, <2>3 DEF KernelsUnfinished
  <2> QED
    BY <1>3, <2>3, <2>4, <2>5 DEF KernelsUnfinished
<1> QED
  BY <1>4, <1>5

LEMMA ProgressInvariance == Spec => [](TypeInv /\ ProgressInv)
<1>1. Init => ProgressInv
  <2> SUFFICES ASSUME Init PROVE ProgressInv
    OBVIOUS
  <2>1. \A s \in Stream : issued[s] = <<>> /\ retired[s] = 0 /\ did[s] = {}
    BY DEF Init
  <2>2. \A s \in Stream : Unretired(s) = {} /\ ~Busy(s)
    BY <2>1 DEF Unretired, Busy
  <2>3. EventIssued(NeverRecorded)
    BY <2>1 DEF EventIssued, NeverRecorded, Stream
  <2>4. EventsIssued
    BY <2>3 DEF EventsIssued, Init
  <2> QED
    BY <2>1, <2>2, <2>4 DEF ProgressInv, WaitsIssued, NoCycle, KernelsUnfinished
<1>2. ASSUME TypeInv, ProgressInv, NEW x \in Stream, Device(x) PROVE ProgressInv'
  <2>1. /\ UNCHANGED <<eventVars, issued>>
        /\ \A t \in Stream : Unretired(t)' \subseteq Unretired(t)
    BY <1>2, DeviceInFlight DEF hostSide
  <2>2. KernelsUnfinished'
    BY <1>2, DeviceKeepsKernels DEF ProgressInv
  <2>3. \A t \in Stream : 1 - t \in Stream
    BY DEF Stream
  <2> QED
    BY <1>2, <2>1, <2>2, <2>3 DEF ProgressInv, EventsIssued, WaitsIssued, NoCycle,
                                  EventIssued, HoldsBack, Covers
<1>3. TypeInv /\ ProgressInv /\ UNCHANGED vars => ProgressInv'
  BY DEF vars, ProgressInv, EventsIssued, WaitsIssued, NoCycle, KernelsUnfinished,
         EventIssued, HoldsBack, Covers, Unretired, Busy, HeadOf
<1>4. TypeInv /\ ProgressInv /\ [Next]_vars => ProgressInv'
  BY <1>2, <1>3, HostKeepsProgress DEF Next, Terminated
<1> QED
  BY InitType, NextType, <1>1, <1>4, PTL DEF Spec

\* An event that is not complete has commands of its stream to wait for.
LEMMA PendingIsBusy ==
    ASSUME TypeInv, NEW ev \in Event, EventIssued(ev), ~Completed(ev)
    PROVE  ev.stream \in Stream /\ Busy(ev.stream)
<1>1. PICK s \in Stream, n \in Nat : s = ev.stream /\ n = ev.pos
  BY DEF Event
<1>2. retired[s] \in Nat /\ Len(issued[s]) \in Nat
  BY DEF TypeInv, TypeOK
<1> QED
  BY <1>1, <1>2 DEF EventIssued, Completed, Busy

\* Of two waits at the heads of the streams, the older one is for an event that is complete.
LEMMA BusyCanExecute ==
    ASSUME TypeInv, ProgressInv, NEW s \in Stream, Busy(s)
    PROVE  \E t \in Stream : CanExecute(t)
<1>1. ASSUME NEW t \in Stream, Busy(t), ~CanExecute(t)
      PROVE  /\ HeadOf(t).op = "wait" /\ ~Completed(HeadOf(t).ev)
             /\ HeadOf(t).ev \in Event /\ HeadOf(t).ev.stream = 1 - t /\ Busy(1 - t)
             /\ \E w \in Unretired(t) : w = retired[t] + 1 /\ issued[t][w] = HeadOf(t)
  <2>1. HeadOf(t).op = "wait" /\ ~Completed(HeadOf(t).ev)
    BY <1>1 DEF CanExecute, ProgressInv, KernelsUnfinished
  <2>0. retired[t] \in Nat /\ Len(issued[t]) \in Nat
    BY DEF TypeInv, TypeOK
  <2>2. PICK w \in Unretired(t) : w = retired[t] + 1 /\ issued[t][w] = HeadOf(t)
    <3>1. retired[t] + 1 \in Unretired(t)
      BY <1>1, <2>0 DEF Busy, Unretired
    <3> QED
      BY <3>1 DEF HeadOf
  <2>3. HeadOf(t).ev \in Event
    BY <1>1, <2>1, HeadTypes DEF TypeInv
  <2>4. /\ EventIssued(HeadOf(t).ev)
        /\ HeadOf(t).ev.stream = t => HeadOf(t).ev.pos < retired[t] + 1
    BY <2>1, <2>2 DEF ProgressInv, WaitsIssued
  <2>5. HeadOf(t).ev.stream # t
    <3>1. HeadOf(t).ev.pos \in Nat
      BY <2>3 DEF Event
    <3> QED
      BY <2>0, <2>1, <2>4, <3>1 DEF Completed
  <2>6. HeadOf(t).ev.stream = 1 - t
    BY <2>3, <2>5 DEF Event, Stream
  <2> QED
    BY <2>1, <2>2, <2>3, <2>4, <2>6, PendingIsBusy
<1> SUFFICES ASSUME ~CanExecute(s), ~CanExecute(1 - s) PROVE FALSE
  BY DEF Stream
<1>2. 1 - s \in Stream /\ 1 - (1 - s) = s
  BY DEF Stream
<1>3. Busy(1 - s)
  BY <1>1
<1>4. PICK w \in Unretired(s) :
        /\ issued[s][w].op = "wait" /\ issued[s][w].ev \in Event
        /\ issued[s][w].ev.stream = 1 - s
        /\ w = retired[s] + 1 /\ ~Completed(issued[s][w].ev)
  BY <1>1
<1>5. PICK u \in Unretired(1 - s) :
        /\ issued[1 - s][u].op = "wait" /\ issued[1 - s][u].ev \in Event
        /\ issued[1 - s][u].ev.stream = s
        /\ u = retired[1 - s] + 1 /\ ~Completed(issued[1 - s][u].ev)
  BY <1>1, <1>2, <1>3
<1>6. retired[s] \in Nat /\ retired[1 - s] \in Nat
  BY <1>2 DEF TypeInv, TypeOK
<1>7. HoldsBack(s, w, 1 - s, u) /\ HoldsBack(1 - s, u, s, w)
  BY <1>4, <1>5, <1>6 DEF HoldsBack, Covers, Completed, Event
<1> QED
  BY <1>7 DEF ProgressInv, NoCycle

\* Whenever the host is blocked or a stream has something to do, the device can go on:
\* no cycle of waits, and no wait for an event that is never recorded, can hang run_gpu.
THEOREM DeadlockFree == Spec => []NoDeadlock
<1>1. TypeInv /\ ProgressInv => NoDeadlock
  <2> SUFFICES ASSUME TypeInv, ProgressInv, HostBlocked
               PROVE  \E s \in Stream : Busy(s)
    BY BusyCanExecute DEF NoDeadlock
  <2>1. \A s \in Stream : Idle(s) \/ Busy(s)
    BY DEF Idle, Busy, TypeInv, TypeOK
  <2>2. CASE pc = "acquire" /\ ~Completed(done[next_])
    BY <2>2, PendingIsBusy DEF ProgressInv, EventsIssued, TypeInv, TypeOK
  <2>3. CASE pc = "drain" /\ ~Drained
    <3>1. pending \in {0, 1} /\ ~Completed(snap_done[pending])
      BY <2>3 DEF Drained, TypeInv, TypeOK
    <3> QED
      BY <3>1, PendingIsBusy DEF ProgressInv, EventsIssued, TypeInv, TypeOK
  <2>4. CASE (pc = "sync" /\ \E s \in Stream : ~Idle(s)) \/ (pc = "final_sync" /\ ~Idle(0))
    BY <2>1, <2>4 DEF Stream
  <2> QED
    BY <2>2, <2>3, <2>4 DEF HostBlocked
<1> QED
  BY ProgressInvariance, <1>1, PTL

=============================================================================
