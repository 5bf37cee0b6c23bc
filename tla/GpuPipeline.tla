----------------------------- MODULE GpuPipeline -----------------------------
(***************************************************************************)
(* run_gpu (src/src/main.cpp), with the SlotRing it takes its buffers from *)
(* (src/src/pipeline/ring_buffer.hpp) and the kernels it launches          *)
(* (src/src/cuda).                                                         *)
(*                                                                         *)
(* Three actors run concurrently: the host thread and two CUDA streams.    *)
(* The host issues commands to a stream, which executes its own commands   *)
(* in order and nothing else about their timing is fixed: all ordering     *)
(* between the streams, and between a stream and the host, is what the     *)
(* host obtains with events.  The host takes one action per CUDA call.  A  *)
(* kernel takes one step per accumulator cell, so two kernels at the head  *)
(* of the two streams really interleave.                                   *)
(*                                                                         *)
(* issued[s] is everything the host ever issued to stream s and retired[s] *)
(* how much of it has completed; both are needed to say what an event, as  *)
(* a position in issued[s], means.                                         *)
(***************************************************************************)
EXTENDS Accumulators, Integers, Sequences

CONSTANT NSlots        \* SlotRing(4)
ASSUME NSlotsAssumption == NSlots \in Nat \ {0, 1}

Slot   == 0..NSlots-1
Stream == {0, 1}
Null   == -1           \* last_agg[t] == nullptr, pending == -1

VARIABLES
    \* The host thread
    pc,           \* the next call of run_gpu
    next_,        \* SlotRing::next_
    slot,         \* the acquired slot
    reset_vwap,   \* meta.reset_vwap
    si,           \* the stream of the current batch
    batches,      \* rs.batches
    last_ts,      \* the number of the last batch stands for its last_ts
    bi, pending, pending_ts,
    barrier_set,
    last_agg,     \* per stream: the slot whose done event it points to, or Null
    \* Events, as last recorded
    done,         \* per slot
    barrier_ev,
    snap_done,    \* per h_snap buffer
    \* The streams
    issued, retired,
    did,          \* per stream: the steps its running kernel has taken
    \* Memory: each buffer holds the number of the batch copied into it
    h_raw, d_raw, soa,
    acc, d_snap, h_snap,
    \* What the run was given and what it produced
    opens,        \* per batch: whether fill flagged a market-open reset
    printed       \* the rows of print_snapshot_csv

hostVars   == <<next_, slot, reset_vwap, si, batches, last_ts,
                bi, pending, pending_ts, barrier_set, last_agg>>
eventVars  == <<done, barrier_ev, snap_done>>
deviceVars == <<retired, did, d_raw, soa, acc, d_snap, h_snap>>
ioVars     == <<h_raw, opens, printed>>
vars == <<pc, hostVars, eventVars, issued, deviceVars, ioVars>>

-----------------------------------------------------------------------------
(***************************************************************************)
(* Events and commands.  An event captures a position in a stream: it is   *)
(* complete once everything issued there up to that position has retired.  *)
(* A never-recorded event reports complete (ring_buffer.hpp:28).           *)
(***************************************************************************)
Event == [stream : Stream, pos : Nat]
NeverRecorded == [stream |-> 0, pos |-> 0]
\* (Mutation: an event never recorded counts as not complete.)
CompletedIfRecorded(ev) == ev.pos > 0 /\ retired[ev.stream] >= ev.pos
Completed(ev) == retired[ev.stream] >= ev.pos

\* Every command carries the number of the batch it was issued for.  No step
\* reads it: the buffers say what data a command works on.
Command ==
    [op : {"wait"}, batch : Nat, ev : Event]
    \cup [op : {"h2d", "decode", "aggregate"}, batch : Nat, slot : Slot]
    \cup [op : {"reset", "snapshot"}, batch : Nat]
    \cup [op : {"d2h"}, batch : Nat, dst : {0, 1}]

CurrentBatch == Len(opens)

Wait(ev)   == [op |-> "wait", batch |-> CurrentBatch, ev |-> ev]
Kernel(op) == [op |-> op, batch |-> CurrentBatch]
OnSlot(op) == [op |-> op, batch |-> CurrentBatch, slot |-> slot]
CopyTo(i)  == [op |-> "d2h", batch |-> CurrentBatch, dst |-> i]

Issue(s, c) == issued' = [issued EXCEPT ![s] = Append(@, c)]

\* The event recorded on stream s after the call that issues a command to it.
\* (Mutation: recorded before the launch instead of after it.)
RecordBeforeIssue(s) == [stream |-> s, pos |-> Len(issued[s])]
RecordAfterIssue(s) == [stream |-> s, pos |-> Len(issued[s]) + 1]

Init ==
    /\ pc = "acquire"
    /\ next_ = 0 /\ slot = 0 /\ reset_vwap = FALSE /\ si = 0
    /\ batches = 0 /\ last_ts = 0
    /\ bi = 0 /\ pending = Null /\ pending_ts = 0
    /\ barrier_set = FALSE
    /\ last_agg = [s \in Stream |-> Null]
    /\ done = [k \in Slot |-> NeverRecorded]
    /\ barrier_ev = NeverRecorded
    /\ snap_done = [i \in {0, 1} |-> NeverRecorded]
    /\ issued = [s \in Stream |-> <<>>]
    /\ retired = [s \in Stream |-> 0]
    /\ did = [s \in Stream |-> {}]
    /\ h_raw = [k \in Slot |-> NoBatch]
    /\ d_raw = [k \in Slot |-> NoBatch]
    /\ soa = [k \in Slot |-> NoBatch]
    /\ acc = EmptyAccum      \* launch_reset, then a stream synchronize
    /\ d_snap = EmptyAccum
    /\ h_snap = [i \in {0, 1} |-> EmptyAccum]
    /\ opens = <<>>
    /\ printed = <<>>

-----------------------------------------------------------------------------
(***************************************************************************)
(* The host thread, in the order of the code.                              *)
(***************************************************************************)

\* SlotRing::acquire: the host blocks until the slot's previous use is done.
Acquire ==
    /\ pc = "acquire"
    /\ Completed(done[next_])
    /\ slot' = next_
    /\ next_' = (next_ + 1) % NSlots
    /\ pc' = "fill"
    /\ UNCHANGED <<reset_vwap, si, batches, last_ts, bi, pending, pending_ts,
                   barrier_set, last_agg, eventVars, issued, deviceVars, ioVars>>

\* assembler.fill(slot.h_raw) returns a batch, or none: the feed has ended.
Fill ==
    /\ pc = "fill"
    /\ batches < MaxBatches
    /\ \E open \in BOOLEAN : reset_vwap' = open /\ opens' = Append(opens, open)
    /\ h_raw' = [h_raw EXCEPT ![slot] = batches + 1]
    /\ si' = batches % 2
    /\ pc' = "barrier"
    /\ UNCHANGED <<next_, slot, batches, last_ts, bi, pending, pending_ts,
                   barrier_set, last_agg, eventVars, issued, deviceVars, printed>>

\* fill returns an empty batch: the loop is left.
\* (Mutation: the empty batch is skipped, not taken for the end.)
FeedSkipped ==
    /\ pc = "fill"
    /\ pc' = "acquire"
    /\ UNCHANGED <<hostVars, eventVars, issued, deviceVars, ioVars>>
FeedEnds ==
    /\ pc = "fill"
    /\ pc' = "sync"
    /\ UNCHANGED <<hostVars, eventVars, issued, deviceVars, ioVars>>

WaitForBarrier ==
    /\ pc = "barrier"
    /\ IF barrier_set THEN Issue(si, Wait(barrier_ev)) ELSE UNCHANGED issued
    /\ pc' = IF reset_vwap THEN "reset_wait" ELSE "h2d"
    /\ UNCHANGED <<hostVars, eventVars, deviceVars, ioVars>>

\* The other stream's last aggregate, before the reset and before the snapshot.
\* (Mutation: the wait is left out.)
NoWaitForOtherStream == UNCHANGED issued
WaitForOtherStream ==
    IF last_agg[1 - si] # Null
    THEN Issue(si, Wait(done[last_agg[1 - si]]))
    ELSE UNCHANGED issued

WaitBeforeReset ==
    /\ pc = "reset_wait"
    /\ WaitForOtherStream
    /\ pc' = "reset"
    /\ UNCHANGED <<hostVars, eventVars, deviceVars, ioVars>>

\* Re-recorded after each reset and snapshot launch.
\* (Mutation: recorded only after the first of them.)
RecordBarrierOnce ==
    /\ barrier_ev' = IF barrier_set THEN barrier_ev ELSE RecordAfterIssue(si)
    /\ barrier_set' = TRUE
RecordBarrier ==
    /\ barrier_ev' = RecordAfterIssue(si)
    /\ barrier_set' = TRUE

Reset ==
    /\ pc = "reset"
    /\ Issue(si, Kernel("reset"))
    /\ RecordBarrier
    /\ pc' = "h2d"
    /\ UNCHANGED <<next_, slot, reset_vwap, si, batches, last_ts, bi, pending,
                   pending_ts, last_agg, done, snap_done, deviceVars, ioVars>>

CopyIn ==
    /\ pc = "h2d"
    /\ Issue(si, OnSlot("h2d"))
    /\ pc' = "decode"
    /\ UNCHANGED <<hostVars, eventVars, deviceVars, ioVars>>

Decode ==
    /\ pc = "decode"
    /\ Issue(si, OnSlot("decode"))
    /\ pc' = "aggregate"
    /\ UNCHANGED <<hostVars, eventVars, deviceVars, ioVars>>

Aggregate ==
    /\ pc = "aggregate"
    /\ Issue(si, OnSlot("aggregate"))
    /\ done' = [done EXCEPT ![slot] = RecordAfterIssue(si)]
    /\ last_agg' = [last_agg EXCEPT ![si] = slot]
    /\ last_ts' = batches + 1
    /\ batches' = batches + 1
    /\ pc' = IF batches' % Interval = 0 THEN "snap_wait" ELSE "next_batch"
    /\ UNCHANGED <<next_, slot, reset_vwap, si, bi, pending, pending_ts,
                   barrier_set, barrier_ev, snap_done, deviceVars, ioVars>>

WaitBeforeSnapshot ==
    /\ pc = "snap_wait"
    /\ WaitForOtherStream
    /\ pc' = "drain"
    /\ UNCHANGED <<hostVars, eventVars, deviceVars, ioVars>>

\* (Mutation: the buffers are numbered on and never wrap around.)
NextBuffer  == pending + 1
OtherBuffer == IF pending = 0 THEN 1 ELSE 0

\* (Mutation: cudaEventSynchronize is left out.)
NotDrained == TRUE
Drained    == pending # Null => Completed(snap_done[pending])

\* The previous snapshot is awaited and printed before the next one is taken.
Drain ==
    /\ pc = "drain"
    /\ bi' = OtherBuffer
    /\ Drained
    /\ pc' = IF pending # Null THEN "print" ELSE "snapshot"
    /\ UNCHANGED <<next_, slot, reset_vwap, si, batches, last_ts, pending,
                   pending_ts, barrier_set, last_agg, eventVars, issued,
                   deviceVars, ioVars>>

PrintRow(ts, i) == printed' = Append(printed, [ts |-> ts, cells |-> h_snap[i]])

PrintDrained ==
    /\ pc = "print"
    /\ PrintRow(pending_ts, pending)
    /\ pc' = "snapshot"
    /\ UNCHANGED <<hostVars, eventVars, issued, deviceVars, h_raw, opens>>

TakeSnapshot ==
    /\ pc = "snapshot"
    /\ Issue(si, Kernel("snapshot"))
    /\ RecordBarrier
    /\ pc' = "d2h"
    /\ UNCHANGED <<next_, slot, reset_vwap, si, batches, last_ts, bi, pending,
                   pending_ts, last_agg, done, snap_done, deviceVars, ioVars>>

CopyOut ==
    /\ pc = "d2h"
    /\ Issue(si, CopyTo(bi))
    /\ snap_done' = [snap_done EXCEPT ![bi] = RecordAfterIssue(si)]
    /\ pending' = bi
    /\ pending_ts' = last_ts
    /\ pc' = "next_batch"
    /\ UNCHANGED <<next_, slot, reset_vwap, si, batches, last_ts, bi,
                   barrier_set, last_agg, done, barrier_ev, deviceVars, ioVars>>

\* The end of the loop body: --max-msgs may have been reached.
NextBatch ==
    /\ pc = "next_batch"
    /\ pc' \in {"acquire", "sync"}
    /\ UNCHANGED <<hostVars, eventVars, issued, deviceVars, ioVars>>

Idle(s) == retired[s] = Len(issued[s])

\* (Mutation: the snapshot still pending after the loop is forgotten.)
SyncAndForgetPending ==
    /\ pc = "sync"
    /\ \A s \in Stream : Idle(s)
    /\ pc' = "final_snapshot"
    /\ UNCHANGED <<hostVars, eventVars, issued, deviceVars, ioVars>>

SyncStreams ==
    /\ pc = "sync"
    /\ \A s \in Stream : Idle(s)
    /\ pc' = IF pending # Null THEN "print_pending" ELSE "final_snapshot"
    /\ UNCHANGED <<hostVars, eventVars, issued, deviceVars, ioVars>>

PrintPending ==
    /\ pc = "print_pending"
    /\ PrintRow(pending_ts, pending)
    /\ pc' = "final_snapshot"
    /\ UNCHANGED <<hostVars, eventVars, issued, deviceVars, h_raw, opens>>

FinalSnapshot ==
    /\ pc = "final_snapshot"
    /\ Issue(0, Kernel("snapshot"))
    /\ pc' = "final_d2h"
    /\ UNCHANGED <<hostVars, eventVars, deviceVars, ioVars>>

FinalCopyOut ==
    /\ pc = "final_d2h"
    /\ Issue(0, CopyTo(0))
    /\ pc' = "final_sync"
    /\ UNCHANGED <<hostVars, eventVars, deviceVars, ioVars>>

FinalSync ==
    /\ pc = "final_sync"
    /\ Idle(0)
    /\ pc' = "final_print"
    /\ UNCHANGED <<hostVars, eventVars, issued, deviceVars, ioVars>>

FinalPrint ==
    /\ pc = "final_print"
    /\ PrintRow(last_ts, 0)
    /\ pc' = "done"
    /\ UNCHANGED <<hostVars, eventVars, issued, deviceVars, h_raw, opens>>

Host ==
    \/ Acquire \/ Fill \/ FeedEnds
    \/ WaitForBarrier \/ WaitBeforeReset \/ Reset
    \/ CopyIn \/ Decode \/ Aggregate
    \/ WaitBeforeSnapshot \/ Drain \/ PrintDrained \/ TakeSnapshot \/ CopyOut
    \/ NextBatch
    \/ SyncStreams \/ PrintPending
    \/ FinalSnapshot \/ FinalCopyOut \/ FinalSync \/ FinalPrint

-----------------------------------------------------------------------------
(***************************************************************************)
(* The streams.  The head of a stream is the command it executes.          *)
(***************************************************************************)
Busy(s) == retired[s] < Len(issued[s])
HeadOf(s) == issued[s][retired[s] + 1]
At(s, op) == Busy(s) /\ HeadOf(s).op = op

hostSide == <<pc, hostVars, eventVars, issued, ioVars>>

Retire(s) ==
    /\ retired' = [retired EXCEPT ![s] = @ + 1]
    /\ did' = [did EXCEPT ![s] = {}]

\* The steps of a kernel: one thread per message or per symbol, here one step
\* per cell it touches, in any order.
Steps(op) ==
    IF op = "snapshot"
    THEN ({"read"} \X Cells) \cup ({"consume"} \X WindowCells)
    ELSE {"write"} \X Cells

KernelStep(s, op, step) ==
    /\ At(s, op)
    /\ step \in Steps(op) \ did[s]
    /\ IF Steps(op) = did[s] \cup {step}
       THEN Retire(s)
       ELSE /\ did' = [did EXCEPT ![s] = @ \cup {step}]
            /\ UNCHANGED retired

StreamWait(s) ==
    /\ At(s, "wait")
    /\ Completed(HeadOf(s).ev)
    /\ Retire(s)
    /\ UNCHANGED <<hostSide, d_raw, soa, acc, d_snap, h_snap>>

\* The copy reads h_raw when it executes, not when it is issued.
CopyHostToDevice(s) ==
    /\ At(s, "h2d")
    /\ d_raw' = [d_raw EXCEPT ![HeadOf(s).slot] = h_raw[HeadOf(s).slot]]
    /\ Retire(s)
    /\ UNCHANGED <<hostSide, soa, acc, d_snap, h_snap>>

DecodeKernel(s) ==
    /\ At(s, "decode")
    /\ soa' = [soa EXCEPT ![HeadOf(s).slot] = d_raw[HeadOf(s).slot]]
    /\ Retire(s)
    /\ UNCHANGED <<hostSide, d_raw, acc, d_snap, h_snap>>

AggregateKernel(s) ==
    /\ \E c \in Cells :
         /\ KernelStep(s, "aggregate", <<"write", c>>)
         /\ acc' = [acc EXCEPT ![c] = Aggregated(@, soa[HeadOf(s).slot])]
    /\ UNCHANGED <<hostSide, d_raw, soa, d_snap, h_snap>>

ResetKernel(s) ==
    /\ \E c \in Cells :
         /\ KernelStep(s, "reset", <<"write", c>>)
         /\ acc' = [acc EXCEPT ![c] = EmptyCell]
    /\ UNCHANGED <<hostSide, d_raw, soa, d_snap, h_snap>>

SnapshotRead(s) ==
    /\ \E c \in Cells :
         /\ KernelStep(s, "snapshot", <<"read", c>>)
         /\ d_snap' = [d_snap EXCEPT ![c] = acc[c]]
    /\ UNCHANGED <<hostSide, d_raw, soa, acc, h_snap>>

SnapshotConsume(s) ==
    /\ \E c \in WindowCells :
         /\ <<"read", c>> \in did[s]
         /\ KernelStep(s, "snapshot", <<"consume", c>>)
         /\ acc' = [acc EXCEPT ![c] = EmptyCell]
    /\ UNCHANGED <<hostSide, d_raw, soa, d_snap, h_snap>>

CopyDeviceToHost(s) ==
    /\ At(s, "d2h")
    /\ h_snap' = [h_snap EXCEPT ![HeadOf(s).dst] = d_snap]
    /\ Retire(s)
    /\ UNCHANGED <<hostSide, d_raw, soa, acc, d_snap>>

Device(s) ==
    \/ StreamWait(s) \/ CopyHostToDevice(s) \/ DecodeKernel(s)
    \/ AggregateKernel(s) \/ ResetKernel(s)
    \/ SnapshotRead(s) \/ SnapshotConsume(s) \/ CopyDeviceToHost(s)

\* run_gpu has returned.
Terminated == pc = "done" /\ UNCHANGED vars

Next == Host \/ (\E s \in Stream : Device(s)) \/ Terminated

(***************************************************************************)
(* Fairness: the host thread runs whenever it can, and the device executes *)
(* the head of each stream once nothing holds it back.                     *)
(***************************************************************************)
Fairness == WF_vars(Host) /\ \A s \in Stream : WF_vars(Device(s))

Spec == Init /\ [][Next]_vars /\ Fairness

-----------------------------------------------------------------------------
HostPc ==
    {"acquire", "fill", "barrier", "reset_wait", "reset", "h2d", "decode",
     "aggregate", "snap_wait", "drain", "print", "snapshot", "d2h",
     "next_batch", "sync", "print_pending", "final_snapshot", "final_d2h",
     "final_sync", "final_print", "done"}

AccumValue == [Cells -> CellValue]
PrintedRow == [ts : 0..MaxBatches, cells : AccumValue]

\* Every variable has its type: in particular pending and bi name one of the
\* two h_snap buffers, and no stream has retired more than was issued to it.
TypeOK ==
    /\ pc \in HostPc
    /\ next_ \in Slot /\ slot \in Slot
    /\ reset_vwap \in BOOLEAN /\ barrier_set \in BOOLEAN
    /\ si \in Stream
    /\ batches \in 0..MaxBatches /\ last_ts \in 0..MaxBatches
    /\ bi \in {0, 1} /\ pending \in {0, 1, Null}
    /\ pending_ts \in 0..MaxBatches
    /\ last_agg \in [Stream -> Slot \cup {Null}]
    /\ done \in [Slot -> Event]
    /\ barrier_ev \in Event
    /\ snap_done \in [{0, 1} -> Event]
    /\ issued \in [Stream -> Seq(Command)]
    /\ retired \in [Stream -> Nat]
    /\ \A s \in Stream : retired[s] <= Len(issued[s])
    /\ did \in [Stream -> SUBSET ({"read", "write", "consume"} \X Cells)]
    /\ h_raw \in [Slot -> Batch \cup {NoBatch}]
    /\ d_raw \in [Slot -> Batch \cup {NoBatch}]
    /\ soa \in [Slot -> Batch \cup {NoBatch}]
    /\ acc \in AccumValue /\ d_snap \in AccumValue
    /\ h_snap \in [{0, 1} -> AccumValue]
    /\ opens \in Seq(BOOLEAN) /\ Len(opens) <= MaxBatches
    /\ printed \in Seq(PrintedRow)

(***************************************************************************)
(* While the host parses into a slot's pinned buffer, nothing in flight    *)
(* uses that slot: the copy engine, which reads h_raw only when it gets to *)
(* the command, cannot see a half-overwritten batch (ring_buffer.hpp).     *)
(***************************************************************************)
Unretired(s) == retired[s]+1 .. Len(issued[s])
SlotOps == {"h2d", "decode", "aggregate"}

SlotExclusive ==
    pc = "fill" =>
        \A s \in Stream : \A p \in Unretired(s) :
            issued[s][p].op \in SlotOps => issued[s][p].slot # slot

(***************************************************************************)
(* Two kernels on the accumulators run at the same time only if both are   *)
(* aggregates, whose atomics commute: reset and snapshot, which read and   *)
(* write whole accumulator arrays, have them to themselves.                *)
(***************************************************************************)
WholeArray == {"reset", "snapshot"}
AccumOps == WholeArray \cup {"aggregate"}

KernelExclusion ==
    \A op \in WholeArray, other \in AccumOps, s \in Stream :
        ~(At(s, op) /\ At(1 - s, other))

(***************************************************************************)
(* The snapshot buffers change hands without overlap: no kernel writes     *)
(* d_snap while a copy out of it is waiting, and the host never formats a  *)
(* row from an h_snap buffer a copy is still going to write.               *)
(***************************************************************************)
HandoffExclusive ==
    /\ \A s \in Stream : \A p \in Unretired(s) :
         /\ issued[s][p].op = "d2h" => ~At(1 - s, "snapshot")
         /\ pc \in {"print", "print_pending"} /\ issued[s][p].op = "d2h"
            => issued[s][p].dst # pending
    /\ pc = "final_print" => \A s \in Stream : Idle(s)

(***************************************************************************)
(* The host blocks on events of streams that block on events of each other *)
(* and no timeout breaks a wait.  Still, whenever the host is blocked or a *)
(* stream has commands to execute, the device can execute one: no cycle of *)
(* waits ever forms, and none is for an event that will not come.          *)
(***************************************************************************)
HostBlocked ==
    \/ pc = "acquire" /\ ~Completed(done[next_])
    \/ pc = "drain" /\ ~Drained
    \/ pc = "sync" /\ \E s \in Stream : ~Idle(s)
    \/ pc = "final_sync" /\ ~Idle(0)

CanExecute(s) ==
    /\ Busy(s)
    /\ HeadOf(s).op = "wait" => Completed(HeadOf(s).ev)
    /\ HeadOf(s).op \in AccumOps => ~(Steps(HeadOf(s).op) \subseteq did[s])

NoDeadlock ==
    HostBlocked \/ (\E s \in Stream : Busy(s)) => \E s \in Stream : CanExecute(s)

\* The host has left the loop: no further batch will be accepted.
LoopLeft ==
    pc \in {"sync", "print_pending", "final_snapshot", "final_d2h",
           "final_sync", "final_print", "done"}

Report == INSTANCE SnapshotReport
            WITH feed <- opens, closed <- LoopLeft, rows <- printed

\* run_gpu prints exactly the rows promised: in order, each once, with its own
\* timestamp, and with every batch counted once in the right window, although
\* it prints late and never waits for more than it must.
ReportsAsPromised == Report!Spec

\* run_gpu returns: no wait of the host or of a stream, on any event, is part
\* of a cycle of waits or waits for what never happens.
Returns == <>(pc = "done")

\* Every snapshot that falls due is printed, the one still pending when the
\* loop ends and the final one included.
SnapshotsPrinted == Report!EverySnapshotPrinted
=============================================================================
