---------------------------- MODULE Accumulators ----------------------------
(***************************************************************************)
(* The per-symbol accumulators both pipelines aggregate into: DeviceAccum  *)
(* (src/src/cuda/kernels.cuh) and HostAccum (src/src/pipeline/             *)
(* cpu_reference.hpp), for one symbol.                                     *)
(*                                                                         *)
(* A cell stands for one accumulator array entry.  Its value is not a      *)
(* number but an account of it: how many times each batch was added since  *)
(* the cell was last reset or consumed.  Sums, counts, maxima and minima   *)
(* of the messages of those batches are functions of that account, and the *)
(* account tells apart histories that equal sums could hide.               *)
(***************************************************************************)
EXTENDS Naturals

CONSTANTS
    Interval,     \* --snapshot-interval: batches per periodic snapshot
    MaxBatches,   \* bound on the number of batches of a run
    SumCells,     \* cells cumulative since the market open (VWAP, volumes, ...)
    WindowCells   \* cells consumed by each snapshot (win_bid, win_ask)

ASSUME IntervalAssumption == Interval \in Nat \ {0}
ASSUME MaxBatchesAssumption == MaxBatches \in Nat
ASSUME CellsAssumption == SumCells \cap WindowCells = {}
ASSUME SumCellsAssumption == SumCells # {}

Cells == SumCells \cup WindowCells

\* Batches are numbered from 1; NoBatch is the content of a buffer that has
\* never been written.
Batch   == 1..MaxBatches
NoBatch == 0

CellValue == [Batch -> Nat]

\* 0 of a sum, BID_EMPTY or ASK_EMPTY of a window.
EmptyCell == [b \in Batch |-> 0]
EmptyAccum == [c \in Cells |-> EmptyCell]

\* The cell once the messages of batch b have been aggregated into it.
Aggregated(cell, b) == [cell EXCEPT ![b] = @ + 1]
=============================================================================
