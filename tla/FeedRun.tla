------------------------------- MODULE FeedRun -------------------------------
(***************************************************************************)
(* The drivers run_cpu and run_gpu (src/src/main.cpp) composed with        *)
(* BatchAssembler: a whole run, from the messages of the feed to the rows  *)
(* printed.  GpuPipeline and CpuRun take any batches from fill and look at *)
(* how they are aggregated; here the batches are those of the feed, an     *)
(* aggregation is one action, and what counts is which messages are in     *)
(* which row.                                                              *)
(***************************************************************************)
EXTENDS BatchAssembler

CONSTANTS
    Interval,    \* --snapshot-interval
    MaxMsgs      \* --max-msgs; 0 is no limit

ASSUME OptionsAssumption == Interval \in Nat \ {0} /\ MaxMsgs \in Nat

VARIABLES
    gpu,         \* which of the two drivers runs
    pc,          \* the next call of the driver
    sums, window,  \* how often each message is in a cumulative and a window cell
    last_ts, batches, shipped_msgs, snapshots,
    pending,     \* run_gpu: the snapshot taken and not printed yet, if any
    rows         \* the rows printed

driverVars == <<gpu, pc, sums, window, last_ts, batches, shipped_msgs, snapshots,
                pending, rows>>
vars == <<assemblerVars, driverVars>>

-----------------------------------------------------------------------------
Number    == 1..MaxParsed
EmptyCell == [i \in Number |-> 0]

\* A cell once the messages of the batch have been aggregated into it.
Aggregated(cell) ==
    [i \in Number |-> cell[i] + Cardinality({k \in DOMAIN slots : slots[k].at = i})]

Init ==
    /\ AssemblerInit
    /\ gpu \in BOOLEAN
    /\ pc = "fill"
    /\ sums = EmptyCell /\ window = EmptyCell
    /\ last_ts = 0 /\ batches = 0 /\ shipped_msgs = 0 /\ snapshots = 0
    /\ pending = <<>>
    /\ rows = <<>>

Fill ==
    /\ pc = "fill"
    /\ Call
    /\ pc' = "filling"
    /\ UNCHANGED <<gpu, sums, window, last_ts, batches, shipped_msgs, snapshots, pending, rows>>

Filling ==
    /\ pc = "filling"
    /\ InFill
    /\ pc' = IF filling' THEN "filling" ELSE "filled"
    /\ UNCHANGED <<gpu, sums, window, last_ts, batches, shipped_msgs, snapshots, pending, rows>>

\* The reset of a flagged batch comes before its aggregation.
FlagFirst(cell) == Aggregated(IF reset_vwap THEN EmptyCell ELSE cell)

\* (Mutation: messages are counted by their room, not by their number.)
CountRoom == shipped_msgs + BATCH_MSGS
CountMsgs == shipped_msgs + Len(slots)

Aggregate ==
    /\ pc = "filled" /\ slots # <<>>
    /\ sums' = FlagFirst(sums)
    /\ window' = FlagFirst(window)
    /\ last_ts' = slots[Len(slots)].at
    /\ shipped_msgs' = CountMsgs
    /\ batches' = batches + 1
    /\ pc' = IF batches' % Interval = 0 THEN "snapshot" ELSE "next_batch"
    /\ UNCHANGED <<assemblerVars, gpu, snapshots, pending, rows>>

\* n_msgs == 0: the loop is left.
NothingFilled ==
    /\ pc = "filled" /\ slots = <<>>
    /\ pc' = "final"
    /\ UNCHANGED <<assemblerVars, gpu, sums, window, last_ts, batches, shipped_msgs,
                   snapshots, pending, rows>>

\* A snapshot, and a row printed of one with the symbol table as it is then.
Taken == [ts |-> last_ts, sums |-> sums, window |-> window]
Printed(snap) ==
    [ts |-> snap.ts, sums |-> snap.sums, window |-> snap.window, name |-> symbols]

PrintPending == [i \in DOMAIN pending |-> Printed(pending[i])]

TakeSnapshot ==
    /\ window' = EmptyCell
    /\ snapshots' = snapshots + 1
    /\ UNCHANGED <<assemblerVars, gpu, sums, last_ts, batches, shipped_msgs>>

\* run_cpu prints at once; run_gpu prints the previous snapshot before it takes
\* the next one.
Snapshot ==
    /\ pc = "snapshot"
    /\ TakeSnapshot
    /\ IF gpu
       THEN rows' = rows \o PrintPending /\ pending' = <<Taken>>
       ELSE rows' = Append(rows, Printed(Taken)) /\ UNCHANGED pending
    /\ pc' = "next_batch"

\* --max-msgs, at the end of the loop body.
NextBatch ==
    /\ pc = "next_batch"
    /\ pc' = IF MaxMsgs > 0 /\ parsed >= MaxMsgs THEN "final" ELSE "fill"
    /\ UNCHANGED <<assemblerVars, gpu, sums, window, last_ts, batches, shipped_msgs,
                   snapshots, pending, rows>>

FinalSnapshot ==
    /\ pc = "final"
    /\ TakeSnapshot
    /\ rows' = (rows \o PrintPending) \o <<Printed(Taken)>>
    /\ pending' = <<>>
    /\ pc' = "done"

Terminated == pc = "done" /\ UNCHANGED vars

RunNext ==
    \/ Fill \/ Filling \/ Aggregate \/ NothingFilled \/ Snapshot \/ NextBatch
    \/ FinalSnapshot \/ Terminated

RunSpec == Init /\ [][RunNext]_vars

-----------------------------------------------------------------------------
(***************************************************************************)
(* "VWAP/volume/imbalance are cumulative since market open (System Event   *)
(* O); bid/ask are the best quotes added during the snapshot window"       *)
(* (README.md), in terms of the feed: a row of timestamp ts counts, each   *)
(* once, the messages up to ts that no market open before ts follows, and  *)
(* its window those of them since the previous row.  Where batches end     *)
(* makes no difference, and neither does which driver runs.                *)
(***************************************************************************)
Since(from, ts) ==
    [i \in Number |->
        IF /\ i \in shippable /\ from < i /\ i <= ts
           /\ \A o \in opens : ~(i < o /\ o < ts)
        THEN 1 ELSE 0]

RowsExact ==
    \A k \in DOMAIN rows :
        /\ rows[k].sums = Since(0, rows[k].ts)
        /\ rows[k].window = Since(IF k = 1 THEN 0 ELSE rows[k-1].ts, rows[k].ts)

(***************************************************************************)
(* run_cpu prints a row when its snapshot is taken, run_gpu one snapshot   *)
(* later (main.cpp), so that the two may print different names.  The name  *)
(* of a row is never older than the one its symbol had at the row's        *)
(* timestamp, and never newer than the last message it is printed after:   *)
(* every message for the GPU after the snapshot it waits for comes later.  *)
(***************************************************************************)
PrintedAt(k) ==
    IF ~gpu THEN rows[k].ts
    ELSE IF k < Len(rows) THEN rows[k+1].ts
    ELSE IF pending # <<>> THEN pending[1].ts
    ELSE rows[k].ts

NamesCurrent ==
    \A k \in DOMAIN rows :
        /\ \A i \in listings : i <= rows[k].ts => i <= rows[k].name
        /\ \A j \in shippable : PrintedAt(k) < j => rows[k].name < j

\* "n_msgs == 0 means stream exhausted" (batch_assembler.hpp): a run without a
\* limit reads its feed to the end, wherever the market opens in it are.
ReadsToTheEnd ==
    pc \in {"final", "done"} => ended \/ (MaxMsgs > 0 /\ parsed >= MaxMsgs)

\* The statistics of a run: every message for the GPU that was parsed was
\* shipped, and every snapshot taken was printed, one per interval and a last.
StatsExact ==
    pc = "done" =>
        /\ shipped_msgs = Cardinality(shippable)
        /\ snapshots = batches \div Interval + 1
        /\ Len(rows) = snapshots
=============================================================================
