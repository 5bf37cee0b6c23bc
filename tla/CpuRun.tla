------------------------------- MODULE CpuRun -------------------------------
(***************************************************************************)
(* run_cpu (src/src/main.cpp), with cpu_aggregate, cpu_snapshot and        *)
(* HostAccum (src/src/pipeline/cpu_reference).  One thread, one batch      *)
(* buffer, one snapshot buffer; it prints each row as soon as it is taken. *)
(***************************************************************************)
EXTENDS Accumulators, Sequences

VARIABLES
    pc,           \* the next call of run_cpu
    reset_vwap,   \* meta.reset_vwap
    batch,        \* the number of the batch in the buffer
    batches,      \* rs.batches
    last_ts,
    acc, snap,
    opens,        \* per batch: whether fill flagged a market-open reset
    printed       \* the rows of print_snapshot_csv

vars == <<pc, reset_vwap, batch, batches, last_ts, acc, snap, opens, printed>>

Init ==
    /\ pc = "fill"
    /\ reset_vwap = FALSE
    /\ batch = NoBatch
    /\ batches = 0
    /\ last_ts = 0
    /\ acc = EmptyAccum
    /\ snap = EmptyAccum
    /\ opens = <<>>
    /\ printed = <<>>

\* assembler.fill(batch.data()) returns a batch, or none: the feed has ended.
Fill ==
    /\ pc = "fill"
    /\ batches < MaxBatches
    /\ \E open \in BOOLEAN : reset_vwap' = open /\ opens' = Append(opens, open)
    /\ batch' = batches + 1
    /\ pc' = "aggregate"
    /\ UNCHANGED <<batches, last_ts, acc, snap, printed>>

FeedEnds ==
    /\ pc = "fill"
    /\ pc' = "final_snapshot"
    /\ UNCHANGED <<reset_vwap, batch, batches, last_ts, acc, snap, opens, printed>>

\* acc.reset() when the batch is flagged.
\* (Mutation: the flag is ignored.)
KeepAccum  == acc
StartAccum == IF reset_vwap THEN EmptyAccum ELSE acc

Aggregate ==
    /\ pc = "aggregate"
    /\ acc' = [c \in Cells |-> Aggregated(StartAccum[c], batch)]
    /\ last_ts' = batch
    /\ batches' = batches + 1
    /\ pc' = IF batches' % Interval = 0 THEN "snapshot" ELSE "next_batch"
    /\ UNCHANGED <<reset_vwap, batch, snap, opens, printed>>

\* The window cells are consumed.
\* (Mutation: they are not.)
NotConsumed == acc
Consumed    == [c \in Cells |-> IF c \in WindowCells THEN EmptyCell ELSE acc[c]]

Snapshot ==
    /\ pc \in {"snapshot", "final_snapshot"}
    /\ snap' = acc
    /\ acc' = Consumed
    /\ pc' = IF pc = "snapshot" THEN "print" ELSE "final_print"
    /\ UNCHANGED <<reset_vwap, batch, batches, last_ts, opens, printed>>

PrintRow ==
    /\ pc \in {"print", "final_print"}
    /\ printed' = Append(printed, [ts |-> last_ts, cells |-> snap])
    /\ pc' = IF pc = "print" THEN "next_batch" ELSE "done"
    /\ UNCHANGED <<reset_vwap, batch, batches, last_ts, acc, snap, opens>>

\* The end of the loop body: --max-msgs may have been reached.
NextBatch ==
    /\ pc = "next_batch"
    /\ pc' \in {"fill", "final_snapshot"}
    /\ UNCHANGED <<reset_vwap, batch, batches, last_ts, acc, snap, opens, printed>>

\* run_cpu has returned.
Terminated == pc = "done" /\ UNCHANGED vars

Next ==
    \/ Fill \/ FeedEnds \/ Aggregate \/ Snapshot \/ PrintRow \/ NextBatch
    \/ Terminated

Spec == Init /\ [][Next]_vars

-----------------------------------------------------------------------------
AccumValue == [Cells -> CellValue]
PrintedRow == [ts : 0..MaxBatches, cells : AccumValue]

\* Every variable has its type.
TypeOK ==
    /\ pc \in {"fill", "aggregate", "snapshot", "print", "next_batch",
               "final_snapshot", "final_print", "done"}
    /\ reset_vwap \in BOOLEAN
    /\ batches \in 0..MaxBatches
    /\ batch \in 0..MaxBatches
    /\ last_ts \in 0..MaxBatches
    /\ acc \in AccumValue
    /\ snap \in AccumValue
    /\ opens \in Seq(BOOLEAN)
    /\ printed \in Seq(PrintedRow)

\* The loop has been left: no further batch will be accepted.
LoopLeft == pc \in {"final_snapshot", "final_print", "done"}

Report == INSTANCE SnapshotReport
            WITH feed <- opens, closed <- LoopLeft, rows <- printed

\* run_cpu prints exactly the rows promised, the same as run_gpu does.
ReportsAsPromised == Report!Spec
=============================================================================
