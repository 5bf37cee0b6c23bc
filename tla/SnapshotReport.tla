--------------------------- MODULE SnapshotReport ---------------------------
(***************************************************************************)
(* What a run of itch_pipeline promises about its CSV output, whichever of *)
(* the two pipelines (run_gpu, run_cpu in src/src/main.cpp) produces it.   *)
(*                                                                         *)
(* The feed is the sequence of batches BatchAssembler::fill has returned;  *)
(* all that matters of batch b is whether it starts with a market-open     *)
(* reset (BatchMeta::reset_vwap).  A row is one print_snapshot_csv call: a *)
(* timestamp and, per accumulator cell, which batches the cell accounts    *)
(* for and how often.  "How often" is a count, so that a batch lost,       *)
(* counted twice or counted in the wrong window gives a different row.     *)
(***************************************************************************)
EXTENDS Accumulators, Sequences

VARIABLES
    feed,     \* one BOOLEAN per batch accepted: does it start with a reset?
    closed,   \* no further batch will be accepted
    rows      \* the rows printed

vars == <<feed, closed, rows>>

-----------------------------------------------------------------------------
\* A cell that accounts, each once, for the batches from lo to n that no
\* market open after them has reset.
Account(lo, n) ==
    [b \in Batch |->
        IF b \in lo..n /\ \A k \in b+1..n : ~feed[k] THEN 1 ELSE 0]

(***************************************************************************)
(* The row of a snapshot taken after batch n when the previous snapshot    *)
(* was taken after batch prev.                                             *)
(***************************************************************************)
Row(n, prev) ==
    [ts    |-> n,
     cells |-> [c \in Cells |-> Account(IF c \in SumCells THEN 1 ELSE prev + 1, n)]]

Init == feed = <<>> /\ closed = FALSE /\ rows = <<>>

Accept ==
    /\ ~closed
    /\ Len(feed) < MaxBatches
    /\ \E open \in BOOLEAN : feed' = Append(feed, open)
    /\ UNCHANGED <<closed, rows>>

Close ==
    /\ ~closed
    /\ closed' = TRUE
    /\ UNCHANGED <<feed, rows>>

\* The k-th periodic snapshot follows batch k * Interval.
ReportPeriodic ==
    LET n == Interval * (Len(rows) + 1) IN
    /\ n <= Len(feed)
    /\ rows' = Append(rows, Row(n, n - Interval))
    /\ UNCHANGED <<feed, closed>>

\* The final snapshot reports "whatever accumulated since the last interval".
ReportFinal ==
    /\ closed
    /\ Interval * Len(rows) <= Len(feed)          \* every periodic row is out
    /\ Len(feed) < Interval * (Len(rows) + 1)     \* and the final one is not
    /\ rows' = Append(rows, Row(Len(feed), Interval * Len(rows)))
    /\ UNCHANGED <<feed, closed>>

Next == Accept \/ Close \/ ReportPeriodic \/ ReportFinal

Spec == Init /\ [][Next]_vars

-----------------------------------------------------------------------------
\* Every snapshot that is due is eventually printed, the final one included.
EverySnapshotPrinted ==
    /\ \A k \in 1..MaxBatches : (Len(feed) >= k * Interval) ~> (Len(rows) >= k)
    /\ closed ~> (Len(rows) = Len(feed) \div Interval + 1)
=============================================================================
