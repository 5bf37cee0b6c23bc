---------------------------- MODULE CpuRunProofs ----------------------------
(***************************************************************************)
(* run_cpu implements SnapshotReport, for every snapshot interval, every   *)
(* number of batches and every set of cells.                               *)
(*                                                                         *)
(* The invariant ties the accumulators to the feed: whenever no batch is   *)
(* half way, they are the cells of the row a snapshot taken now would      *)
(* print, given that the previous one was taken after batch Prev.          *)
(***************************************************************************)
EXTENDS CpuRun, TLAPS

\* The batch after which the previous snapshot was taken.
Prev == Interval * Len(printed)

CellsAt(n, prev) == Report!Row(n, prev).cells

FeedInv ==
    /\ Len(opens) = IF pc = "aggregate" THEN batches + 1 ELSE batches
    /\ pc = "aggregate" =>
         /\ batch = batches + 1
         /\ reset_vwap = opens[batch]
    /\ last_ts = batches

IntervalInv ==
    /\ pc \in {"fill", "aggregate", "next_batch", "final_snapshot", "final_print"} =>
         Prev <= batches /\ batches < Prev + Interval
    /\ pc \in {"snapshot", "print"} => batches = Prev + Interval

AccumInv ==
    /\ pc \in {"fill", "aggregate", "snapshot", "next_batch", "final_snapshot"} =>
         acc = CellsAt(batches, Prev)
    /\ pc = "print" => acc = CellsAt(batches, batches)
    /\ pc \in {"print", "final_print"} => snap = CellsAt(batches, Prev)

Inv == TypeOK /\ FeedInv /\ IntervalInv /\ AccumInv

USE IntervalAssumption, MaxBatchesAssumption, CellsAssumption

-----------------------------------------------------------------------------
(***************************************************************************)
(* What a cell accounts for, and how it changes.                           *)
(***************************************************************************)
LEMMA CellTypes ==
    /\ EmptyCell \in CellValue
    /\ EmptyAccum \in AccumValue
    /\ \A cell \in CellValue, b \in Nat : Aggregated(cell, b) \in CellValue
<1>1. EmptyCell \in CellValue
  BY DEF EmptyCell, CellValue
<1>2. ASSUME NEW cell \in CellValue, NEW b \in Nat
      PROVE  Aggregated(cell, b) \in CellValue
  <2>1. CASE b \in Batch
    <3>1. cell[b] + 1 \in Nat
      BY <2>1 DEF CellValue
    <3> QED
      BY <3>1 DEF CellValue, Aggregated
  <2>2. CASE b \notin Batch
    BY <2>2 DEF CellValue, Aggregated
  <2> QED
    BY <2>1, <2>2
<1> QED
  BY <1>1, <1>2 DEF EmptyAccum, AccumValue

\* An account is the value of a cell.
LEMMA AccountType ==
    ASSUME NEW lo \in Nat, NEW n \in Nat
    PROVE  Report!Account(lo, n) \in CellValue
BY DEF Report!Account, CellValue, Batch, Report!Batch

\* A window that starts after the last batch accounts for nothing.
LEMMA AccountEmpty ==
    ASSUME NEW n \in Nat
    PROVE  Report!Account(n + 1, n) = EmptyCell
BY DEF Report!Account, EmptyCell, Batch, Report!Batch

\* The feed grows: what is known of its first n batches stays.
LEMMA AccountStable ==
    ASSUME opens \in Seq(BOOLEAN), NEW x \in BOOLEAN, opens' = Append(opens, x),
           NEW lo \in Nat, NEW n \in Nat, n <= Len(opens)
    PROVE  Report!Account(lo, n)' = Report!Account(lo, n)
<1>1. \A b \in Report!Batch : \A k \in b+1..n : opens'[k] = opens[k]
  BY DEF Report!Batch
<1> QED
  BY <1>1 DEF Report!Account

\* Aggregating the next batch, with the reset it may ask for.
LEMMA AccountNext ==
    ASSUME opens \in Seq(BOOLEAN), NEW n \in Nat, NEW m \in Nat, m = n + 1,
           m <= Len(opens), NEW lo \in Nat, lo <= m
    PROVE  Report!Account(lo, m) =
             Aggregated(IF opens[m] THEN EmptyCell ELSE Report!Account(lo, n), m)
<1> DEFINE before == IF opens[m] THEN EmptyCell ELSE Report!Account(lo, n)
           left   == Report!Account(lo, m)
           right  == Aggregated(before, m)
<1>1. before \in [Batch -> Nat]
  <2>1. EmptyCell \in [Batch -> Nat] /\ Report!Account(lo, n) \in [Batch -> Nat]
    BY CellTypes, AccountType DEF CellValue
  <2> QED
    BY <2>1
<1>2. left \in [Batch -> Nat] /\ right \in [Batch -> Nat]
  <2>1. left \in [Batch -> Nat]
    BY AccountType DEF CellValue
  <2> HIDE DEF before
  <2>2. right \in [Batch -> Nat]
    BY <1>1, CellTypes DEF CellValue
  <2> QED
    BY <2>1, <2>2
<1>3. ASSUME NEW b \in Batch PROVE left[b] = right[b]
  <2>0. b \in Nat /\ b >= 1
    BY DEF Batch
  <2>1. left[b] = IF b \in lo..m /\ \A k \in b+1..m : ~opens[k] THEN 1 ELSE 0
    BY DEF Report!Account, Batch, Report!Batch
  <2>2. right[b] = IF b = m THEN before[b] + 1 ELSE before[b]
    BY <1>1 DEF Aggregated
  <2>3. before[b] = IF opens[m] THEN 0
                    ELSE IF b \in lo..n /\ \A k \in b+1..n : ~opens[k] THEN 1 ELSE 0
    BY DEF EmptyCell, Report!Account, Batch, Report!Batch
  <2>4. CASE b = m
    BY <2>0, <2>1, <2>2, <2>3, <2>4
  <2>5. CASE b > m
    BY <2>0, <2>1, <2>2, <2>3, <2>5
  <2>6. CASE b < m
    <3>1. m \in b+1..m
      BY <2>0, <2>6
    <3>2. (\A k \in b+1..m : ~opens[k]) <=>
            ~opens[m] /\ \A k \in b+1..n : ~opens[k]
      <4>1. \A k \in b+1..m : k = m \/ k \in b+1..n
        BY <2>0
      <4> QED
        BY <3>1, <4>1, <2>0
    <3> QED
      BY <2>0, <2>1, <2>2, <2>3, <2>6, <3>2
  <2> QED
    BY <2>0, <2>4, <2>5, <2>6
<1> QED
  BY <1>2, <1>3

-----------------------------------------------------------------------------
(***************************************************************************)
(* The cells of a row.                                                     *)
(***************************************************************************)
LEMMA CellsAtType ==
    ASSUME NEW n \in Nat, NEW prev \in Nat
    PROVE  CellsAt(n, prev) \in AccumValue
BY AccountType DEF CellsAt, Report!Row, Cells, Report!Cells, AccumValue

\* A later batch does not change what the cells had to hold before it.
LEMMA CellsStable ==
    ASSUME opens \in Seq(BOOLEAN), NEW x \in BOOLEAN, opens' = Append(opens, x),
           NEW prev \in Nat, NEW n \in Nat, n <= Len(opens)
    PROVE  CellsAt(n, prev)' = CellsAt(n, prev)
<1>1. /\ Report!Account(1, n)' = Report!Account(1, n)
      /\ Report!Account(prev + 1, n)' = Report!Account(prev + 1, n)
  BY AccountStable
<1> QED
  BY <1>1 DEF CellsAt, Report!Row

\* What the cells have to hold after one more batch: cpu_aggregate's step.
LEMMA CellsNext ==
    ASSUME opens \in Seq(BOOLEAN), NEW n \in Nat, NEW m \in Nat, m = n + 1,
           m <= Len(opens), NEW prev \in Nat, prev <= n
    PROVE  CellsAt(m, prev) =
             [c \in Cells |->
                Aggregated((IF opens[m] THEN EmptyAccum ELSE CellsAt(n, prev))[c], m)]
<1>1. \A lo \in Nat : lo <= m =>
        Report!Account(lo, m) =
          Aggregated(IF opens[m] THEN EmptyCell ELSE Report!Account(lo, n), m)
  BY AccountNext
<1>2. opens[m] \in BOOLEAN /\ 1 <= m /\ prev + 1 <= m /\ prev + 1 \in Nat
  OBVIOUS
<1>3. \A k \in Nat : CellsAt(k, prev) =
        [c \in Cells |-> Report!Account(IF c \in SumCells THEN 1 ELSE prev + 1, k)]
  BY DEF CellsAt, Report!Row, Cells, Report!Cells
<1>4. CASE opens[m]
  BY <1>1, <1>2, <1>3, <1>4 DEF EmptyAccum
<1>5. CASE ~opens[m]
  BY <1>1, <1>2, <1>3, <1>5
<1> QED
  BY <1>2, <1>4, <1>5

\* A snapshot consumes the window cells: as if the previous one were now.
LEMMA CellsConsumed ==
    ASSUME NEW n \in Nat, NEW prev \in Nat
    PROVE  CellsAt(n, n) =
             [c \in Cells |-> IF c \in WindowCells THEN EmptyCell ELSE CellsAt(n, prev)[c]]
BY AccountEmpty DEF CellsAt, Report!Row, Cells, Report!Cells

-----------------------------------------------------------------------------
(***************************************************************************)
(* The invariant.                                                          *)
(***************************************************************************)
LEMMA InitInv == Init => Inv
<1> SUFFICES ASSUME Init PROVE Inv
  OBVIOUS
<1>1. TypeOK
  <2>1. opens \in Seq(BOOLEAN)
    BY DEF Init
  <2>2. printed \in Seq(PrintedRow)
    BY DEF Init
  <2>3. acc \in AccumValue /\ snap \in AccumValue
    BY CellTypes DEF Init
  <2>4. /\ pc = "fill" /\ reset_vwap \in BOOLEAN
        /\ batch = 0 /\ batches = 0 /\ last_ts = 0
    BY DEF Init, NoBatch
  <2> QED
    BY <2>1, <2>2, <2>3, <2>4 DEF TypeOK
<1>2. FeedInv /\ IntervalInv
  BY DEF Init, FeedInv, IntervalInv, Prev
<1>3. CellsAt(0, 0) = EmptyAccum
  <2>1. \A lo \in {1, 0 + 1} : Report!Account(lo, 0) = EmptyCell
    BY AccountEmpty
  <2> QED
    BY <2>1 DEF CellsAt, Report!Row, EmptyAccum, Cells, Report!Cells
<1>4. AccumInv
  BY <1>3 DEF Init, AccumInv, Prev
<1> QED
  BY <1>1, <1>2, <1>4 DEF Inv

\* The batch of the previous snapshot is a batch number.
LEMMA PrevNat == TypeOK => Prev \in Nat
BY DEF TypeOK, Prev

\* fill appends to the feed and leaves the accumulators alone.
LEMMA FillInv == Inv /\ Fill => Inv'
<1> SUFFICES ASSUME Inv, Fill PROVE Inv'
  OBVIOUS
<1>1. PICK open \in BOOLEAN : reset_vwap' = open /\ opens' = Append(opens, open)
  BY DEF Fill
<1>2. TypeOK'
  BY <1>1 DEF Fill, Inv, TypeOK
<1>3. FeedInv'
  BY <1>1 DEF Fill, Inv, TypeOK, FeedInv
<1>4. Prev' = Prev /\ Prev \in Nat
  BY PrevNat DEF Fill, Prev, Inv
<1>5. IntervalInv'
  BY <1>4 DEF Fill, Inv, IntervalInv
<1>6. CellsAt(batches, Prev)' = CellsAt(batches, Prev)
  <2>1. PICK n \in Nat, prev \in Nat :
          n = batches /\ prev = Prev /\ n' = n /\ prev' = prev
    BY <1>4 DEF Inv, TypeOK
  <2>2. CellsAt(n, prev)' = CellsAt(n, prev)
    BY <1>1, <2>1, CellsStable DEF Fill, Inv, TypeOK, FeedInv
  <2> QED
    BY <1>4, <2>1, <2>2 DEF Fill, CellsAt
<1>7. AccumInv'
  BY <1>6 DEF Fill, Inv, AccumInv
<1> QED
  BY <1>2, <1>3, <1>5, <1>7 DEF Inv

\* The end of the feed leaves the accumulators alone.
LEMMA FeedEndsInv == Inv /\ FeedEnds => Inv'
<1> SUFFICES ASSUME Inv, FeedEnds PROVE Inv'
  OBVIOUS
<1>1. TypeOK'
  BY DEF FeedEnds, Inv, TypeOK
<1>2. Prev' = Prev /\ CellsAt(batches, Prev)' = CellsAt(batches, Prev)
  BY DEF FeedEnds, Prev, CellsAt, Report!Row, Report!Account
<1> QED
  BY <1>1, <1>2 DEF FeedEnds, Inv, FeedInv, IntervalInv, AccumInv

\* When a batch completes an interval.
LEMMA IntervalStep ==
    ASSUME NEW q \in Nat, NEW b \in Nat, Interval * q <= b, b < Interval * q + Interval
    PROVE  (b + 1) % Interval = 0 <=> b + 1 = Interval * q + Interval
<1> DEFINE r == b - Interval * q
<1>1. r \in 0..Interval-1 /\ b = Interval * q + r
  OBVIOUS
<1>2. (Interval * q + r + 1) % Interval = 0 <=> r = Interval - 1
  <2> HIDE DEF r
  <2> QED BY <1>1
<1> QED
  BY <1>1, <1>2

\* acc.reset and cpu_aggregate bring the accumulators to the current batch.
LEMMA AggregateInv == Inv /\ Aggregate => Inv'
<1> SUFFICES ASSUME Inv, Aggregate PROVE Inv'
  OBVIOUS
<1>1. /\ batches \in Nat /\ batch = batches + 1 /\ batches' = batch /\ last_ts' = batch
      /\ Len(opens) = batch /\ opens \in Seq(BOOLEAN)
      /\ reset_vwap = opens[batch] /\ batch \in 1..MaxBatches
  BY DEF Aggregate, Inv, FeedInv, TypeOK
<1>2. Prev' = Prev /\ Prev \in Nat /\ Prev <= batches /\ batches < Prev + Interval
  BY PrevNat DEF Aggregate, Prev, Inv, IntervalInv
<1>3. acc' = CellsAt(batch, Prev)
  <2>1. acc = CellsAt(batches, Prev)
    BY DEF Aggregate, Inv, AccumInv
  <2> QED
    BY <1>1, <1>2, <2>1, CellsNext DEF Aggregate, StartAccum
<1>4. TypeOK'
  <2>1. acc' \in AccumValue
    BY <1>1, <1>2, <1>3, CellsAtType
  <2> QED
    BY <1>1, <2>1 DEF Aggregate, Inv, TypeOK
<1>5. FeedInv'
  BY <1>1 DEF Aggregate, FeedInv
<1>6. IntervalInv'
  <2>1. Len(printed) \in Nat
    BY DEF Inv, TypeOK
  <2>2. batches' % Interval = 0 <=> batches' = Prev + Interval
    BY <1>1, <1>2, <2>1, IntervalStep DEF Prev
  <2> QED
    BY <1>1, <1>2, <2>2 DEF Aggregate, IntervalInv
<1>7. AccumInv'
  <2>1. CellsAt(batches, Prev)' = CellsAt(batch, Prev)
    BY <1>1, <1>2 DEF Aggregate, CellsAt, Report!Row, Report!Account
  <2> QED
    BY <1>3, <2>1 DEF Aggregate, AccumInv
<1> QED
  BY <1>4, <1>5, <1>6, <1>7 DEF Inv

\* cpu_snapshot takes the row that is due and consumes the windows.
LEMMA SnapshotInv == Inv /\ Snapshot => Inv'
<1> SUFFICES ASSUME Inv, Snapshot PROVE Inv'
  OBVIOUS
<1>1. batches \in Nat /\ Prev \in Nat /\ Prev' = Prev
  BY PrevNat DEF Snapshot, Prev, Inv, TypeOK
<1>2. acc = CellsAt(batches, Prev)
  BY DEF Snapshot, Inv, AccumInv
<1>3. acc' = CellsAt(batches, batches)
  <2>1. CellsAt(batches, Prev) \in AccumValue
    BY <1>1, CellsAtType
  <2> QED
    BY <1>1, <1>2, CellsConsumed DEF Snapshot, Consumed
<1>4. TypeOK'
  <2>1. acc' \in AccumValue /\ snap' \in AccumValue
    BY <1>1, <1>3, CellsAtType DEF Snapshot, Inv, TypeOK
  <2> QED
    BY <2>1 DEF Snapshot, Inv, TypeOK
<1>5. FeedInv' /\ IntervalInv'
  BY <1>1 DEF Snapshot, Inv, FeedInv, IntervalInv
<1>6. AccumInv'
  <2>1. /\ CellsAt(batches, Prev)' = CellsAt(batches, Prev)
        /\ CellsAt(batches, batches)' = CellsAt(batches, batches)
    BY <1>1 DEF Snapshot, CellsAt, Report!Row, Report!Account
  <2> QED
    BY <1>2, <1>3, <2>1 DEF Snapshot, AccumInv
<1> QED
  BY <1>4, <1>5, <1>6 DEF Inv

\* Printing adds the row taken to the report.
LEMMA PrintInv == Inv /\ PrintRow => Inv'
<1> SUFFICES ASSUME Inv, PrintRow PROVE Inv'
  OBVIOUS
<1>1. [ts |-> last_ts, cells |-> snap] \in PrintedRow /\ printed \in Seq(PrintedRow)
  BY DEF Inv, TypeOK, PrintedRow
<1>2. printed' \in Seq(PrintedRow) /\ Len(printed') = Len(printed) + 1
  BY <1>1 DEF PrintRow
<1>3. TypeOK'
  BY <1>2 DEF PrintRow, Inv, TypeOK
<1>4. pc = "print" => Prev' = batches
  <2>1. Prev' = Prev + Interval
    BY <1>1, <1>2 DEF Prev
  <2> QED
    BY <2>1 DEF Inv, IntervalInv
<1>5. FeedInv'
  BY DEF PrintRow, Inv, FeedInv
<1>6. IntervalInv'
  BY <1>4 DEF PrintRow, Inv, TypeOK, IntervalInv
<1>7. AccumInv'
  <2>1. CASE pc = "print"
    <3>1. CellsAt(batches, Prev)' = CellsAt(batches, batches)
      BY <1>4, <2>1 DEF PrintRow, CellsAt, Report!Row, Report!Account
    <3> QED
      BY <2>1, <3>1 DEF PrintRow, Inv, AccumInv
  <2>2. CASE pc = "final_print"
    BY <2>2 DEF PrintRow, AccumInv
  <2> QED
    BY <2>1, <2>2 DEF PrintRow
<1> QED
  BY <1>3, <1>5, <1>6, <1>7 DEF Inv

\* Going round the loop, or leaving it, changes no data.
LEMMA NextBatchInv == Inv /\ NextBatch => Inv'
<1> SUFFICES ASSUME Inv, NextBatch PROVE Inv'
  OBVIOUS
<1>1. TypeOK'
  BY DEF NextBatch, Inv, TypeOK
<1>2. Prev' = Prev /\ CellsAt(batches, Prev)' = CellsAt(batches, Prev)
  BY DEF NextBatch, Prev, CellsAt, Report!Row, Report!Account
<1> QED
  BY <1>1, <1>2 DEF NextBatch, Inv, FeedInv, IntervalInv, AccumInv

\* The invariant holds in every reachable state of run_cpu.
THEOREM Invariance == Spec => []Inv
<1>1. Inv /\ [Next]_vars => Inv'
  <2> SUFFICES ASSUME Inv, [Next]_vars PROVE Inv'
    OBVIOUS
  <2>1. CASE UNCHANGED vars
    <3>1. /\ Prev' = Prev
          /\ CellsAt(batches, Prev)' = CellsAt(batches, Prev)
          /\ CellsAt(batches, batches)' = CellsAt(batches, batches)
      BY <2>1 DEF vars, Prev, CellsAt, Report!Row, Report!Account
    <3> QED
      BY <2>1, <3>1 DEF vars, Inv, TypeOK, FeedInv, IntervalInv, AccumInv
  <2> QED
    BY <2>1, FillInv, FeedEndsInv, AggregateInv, SnapshotInv, PrintInv, NextBatchInv
       DEF Next, Terminated
<1> QED
  BY <1>1, InitInv, PTL DEF Spec

\* The variables of run_cpu keep their types.
THEOREM TypeCorrect == Spec => []TypeOK
BY Invariance, PTL DEF Inv

-----------------------------------------------------------------------------
(***************************************************************************)
(* Each step of run_cpu is a step of SnapshotReport or leaves it alone.    *)
(***************************************************************************)
LEMMA FillAccepts == Inv /\ Fill => Report!Accept
<1> SUFFICES ASSUME Inv, Fill PROVE Report!Accept
  OBVIOUS
<1>1. Len(opens) < MaxBatches
  BY DEF Fill, Inv, FeedInv
<1> QED
  BY <1>1 DEF Fill, Report!Accept, LoopLeft

\* Printing is the one step that adds a row, and adds the one promised.
LEMMA PrintReports == Inv /\ PrintRow => Report!ReportPeriodic \/ Report!ReportFinal
<1> SUFFICES ASSUME Inv, PrintRow PROVE Report!ReportPeriodic \/ Report!ReportFinal
  OBVIOUS
<1>1. /\ Len(opens) = batches /\ last_ts = batches /\ batches \in Nat
      /\ Len(printed) \in Nat
  BY DEF PrintRow, Inv, FeedInv, TypeOK
<1>2. [ts |-> last_ts, cells |-> snap] = Report!Row(batches, Prev)
  BY <1>1 DEF PrintRow, Inv, AccumInv, CellsAt, Report!Row
<1>3. CASE pc = "print"
  <2>1. /\ Interval * (Len(printed) + 1) = batches
        /\ batches - Interval = Prev
    BY <1>1, <1>3 DEF Inv, IntervalInv, Prev
  <2> QED
    BY <1>1, <1>2, <1>3, <2>1 DEF PrintRow, Report!ReportPeriodic, LoopLeft
<1>4. CASE pc = "final_print"
  <2>1. /\ Interval * Len(printed) <= batches
        /\ batches < Interval * (Len(printed) + 1)
    BY <1>1, <1>4 DEF Inv, IntervalInv, Prev
  <2> QED
    BY <1>1, <1>2, <1>4, <2>1 DEF PrintRow, Report!ReportFinal, LoopLeft, Prev
<1> QED
  BY <1>3, <1>4 DEF PrintRow

\* Except for fill, no other step is visible in the report but leaving the loop.
LEMMA OthersCloseOrStutter ==
    FeedEnds \/ Aggregate \/ Snapshot \/ NextBatch
        => Report!Close \/ UNCHANGED Report!vars
BY DEF FeedEnds, Aggregate, Snapshot, NextBatch, Report!Close, Report!vars, LoopLeft

\* run_cpu prints exactly the rows that were promised: each periodic row and
\* the final one, over the right batches, with resets at the market open.
THEOREM ImplementsReport == Spec => ReportsAsPromised
<1>1. Init => Report!Init
  BY DEF Init, Report!Init, LoopLeft
<1>2. Inv /\ [Next]_vars => [Report!Next]_(Report!vars)
  <2> SUFFICES ASSUME Inv, [Next]_vars PROVE [Report!Next]_(Report!vars)
    OBVIOUS
  <2>1. CASE UNCHANGED vars
    BY <2>1 DEF vars, Report!vars, LoopLeft
  <2> QED
    BY <2>1, FillAccepts, PrintReports, OthersCloseOrStutter
       DEF Next, Terminated, Report!Next
<1> QED
  BY <1>1, <1>2, Invariance, PTL DEF Spec, ReportsAsPromised, Report!Spec
=============================================================================
