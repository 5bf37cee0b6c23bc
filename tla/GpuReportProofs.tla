--------------------------- MODULE GpuReportProofs ---------------------------
(***************************************************************************)
(* run_gpu implements SnapshotReport, for every ring of at least two       *)
(* slots, every snapshot interval, every number of batches and every set   *)
(* of cells.                                                               *)
(*                                                                         *)
(* The program orders its commands: by batch, and within a batch as the    *)
(* loop body issues them.  The invariant says that the streams keep that   *)
(* order wherever it matters, what each buffer holds in terms of it, and   *)
(* that each accumulator cell is what the kernels that have come to it so  *)
(* far leave there.                                                        *)
(***************************************************************************)
EXTENDS GpuPipelineProofs

USE NSlotsAssumption, IntervalAssumption, MaxBatchesAssumption
    DEF hostVars, eventVars, deviceVars, ioVars

-----------------------------------------------------------------------------
(***************************************************************************)
(* The order of the program.                                               *)
(***************************************************************************)
\* The place of a command among those of its batch.
Phase(op) ==
    IF op = "reset" THEN 0 ELSE IF op = "h2d" THEN 1 ELSE IF op = "decode" THEN 2
    ELSE IF op = "aggregate" THEN 3 ELSE IF op = "snapshot" THEN 4 ELSE 5

\* The place of the next command the host issues.
HostPhase ==
    IF pc \in {"barrier", "reset_wait", "reset"} THEN 0
    ELSE IF pc = "h2d" THEN 1 ELSE IF pc = "decode" THEN 2 ELSE IF pc = "aggregate" THEN 3
    ELSE IF pc \in {"snap_wait", "drain", "print", "snapshot", "final_snapshot"} THEN 4
    ELSE IF pc \in {"d2h", "final_d2h"} THEN 5 ELSE 6

Key(op, k) == 6 * k + Phase(op)
HostKey == 6 * Len(opens) + HostPhase

OpAt(s, p) == issued[s][p].op
BatchAt(s, p) == issued[s][p].batch
KeyAt(s, p) == Key(OpAt(s, p), BatchAt(s, p))

InLoop ==
    {"barrier", "reset_wait", "reset", "h2d", "decode", "aggregate", "snap_wait", "drain",
     "print", "snapshot", "d2h"}

\* What is in flight was issued before what comes next, in each stream in the order of
\* the program, and on the stream of its batch.
KeysBelowHost ==
    \A s \in Stream : \A p \in Unretired(s) : OpAt(s, p) # "wait" => KeyAt(s, p) < HostKey

KeysIncrease ==
    \A s \in Stream : \A p, q \in Unretired(s) :
        OpAt(s, p) # "wait" /\ OpAt(s, q) # "wait" /\ p < q => KeyAt(s, p) < KeyAt(s, q)

StreamOfBatch ==
    /\ pc \notin FinalPc =>
         \A s \in Stream : \A p \in Unretired(s) :
            OpAt(s, p) # "wait" => s = (BatchAt(s, p) + 1) % 2 /\ BatchAt(s, p) >= 1
    /\ pc \in InLoop => si = (Len(opens) + 1) % 2 /\ Len(opens) >= 1

\* At the end only the final snapshot is.
FinalOnly ==
    pc \in FinalPc =>
        \A s \in Stream : \A p \in Unretired(s) :
            OpAt(s, p) \in SnapOps /\ BatchAt(s, p) = Len(opens) /\ s = 0

\* A reset is issued for the batches flagged, and for no other.
FlagsKnown ==
    /\ InBatch => reset_vwap = opens[Len(opens)]
    /\ pc \in {"reset_wait", "reset"} => reset_vwap
    /\ \A s \in Stream : \A p \in Unretired(s) :
         OpAt(s, p) = "reset" => opens[BatchAt(s, p)] /\ BatchAt(s, p) >= 1

ProgramOrder == KeysBelowHost /\ KeysIncrease /\ StreamOfBatch /\ FinalOnly /\ FlagsKnown

Conflict(op, other) ==
    op \in AccumOps /\ other \in AccumOps /\ (op \in WholeArray \/ other \in WholeArray)

\* A kernel is held back from the earlier kernels of the other stream it conflicts with.
EarlierAwaited ==
    \A s \in Stream : \A p \in Unretired(s), q \in Unretired(1 - s) :
        Conflict(OpAt(s, p), OpAt(1 - s, q)) /\ KeyAt(1 - s, q) < KeyAt(s, p) =>
            \E w \in Unretired(s) : w < p /\ HoldsBack(s, w, 1 - s, q)

LEMMA InFlightTypes ==
    ASSUME TypeInv, NEW s \in Stream, NEW p \in Unretired(s)
    PROVE  /\ p \in Nat /\ p > retired[s] /\ p <= Len(issued[s])
           /\ issued[s][p] \in Command
           /\ BatchAt(s, p) \in Nat /\ KeyAt(s, p) \in Nat
           /\ OpAt(s, p) \in {"wait", "reset", "h2d", "decode", "aggregate", "snapshot", "d2h"}
<1>1. retired[s] \in Nat /\ issued[s] \in Seq(Command)
  BY DEF TypeInv, TypeOK
<1>2. p \in Nat /\ p > retired[s] /\ p <= Len(issued[s]) /\ p \in 1..Len(issued[s])
  BY <1>1 DEF Unretired
<1>3. issued[s][p] \in Command
  BY <1>1, <1>2
<1>4. /\ BatchAt(s, p) \in Nat
      /\ OpAt(s, p) \in {"wait", "reset", "h2d", "decode", "aggregate", "snapshot", "d2h"}
  BY <1>3 DEF Command, BatchAt, OpAt
<1>5. KeyAt(s, p) \in Nat
  BY <1>4 DEF KeyAt, Key, Phase
<1> QED
  BY <1>2, <1>3, <1>4, <1>5

LEMMA HostKeyType ==
    /\ TypeInv => HostKey \in Nat /\ Len(opens) \in Nat
    /\ TypeInv' => HostKey' \in Nat /\ Len(opens') \in Nat
<1>1. (TypeInv => Len(opens) \in Nat) /\ (TypeInv' => Len(opens') \in Nat)
  BY DEF TypeInv, TypeOK
<1>2. HostPhase \in Nat /\ HostPhase' \in Nat
  BY DEF HostPhase
<1> QED
  BY <1>1, <1>2 DEF HostKey

(***************************************************************************)
(* The host steps that issue a command other than a wait: which, on which  *)
(* stream, and that it is the next of the program.                         *)
(***************************************************************************)
WorkStep ==
    \/ Reset \/ CopyIn \/ Decode \/ Aggregate \/ TakeSnapshot \/ CopyOut
    \/ FinalSnapshot \/ FinalCopyOut

WaitStep == WaitForBarrier \/ WaitBeforeReset \/ WaitBeforeSnapshot

LEMMA HostKinds == Host <=> SilentStep \/ WaitStep \/ WorkStep
BY DEF Host, SilentStep, WaitStep, WorkStep

IssueStream == IF pc \in FinalPc THEN 0 ELSE si

LEMMA WorkIssues ==
    ASSUME TypeInv, WorkStep
    PROVE  \E c \in Command :
             /\ Issue(IssueStream, c) /\ IssueStream \in Stream
             /\ c.op # "wait" /\ c.batch = Len(opens) /\ Key(c.op, c.batch) = HostKey
             /\ Reset => c.op = "reset"
             /\ CopyIn => c.op = "h2d" /\ c.slot = slot
             /\ Decode => c.op = "decode" /\ c.slot = slot
             /\ Aggregate => c.op = "aggregate" /\ c.slot = slot
             /\ TakeSnapshot \/ FinalSnapshot => c.op = "snapshot"
             /\ CopyOut \/ FinalCopyOut => c.op = "d2h"
             /\ CopyOut => c.dst = bi
             /\ FinalCopyOut => c.dst = 0
<1>1. si \in Stream /\ 0 \in Stream /\ bi \in {0, 1}
  BY DEF TypeInv, TypeOK, Stream
<1>2. ASSUME NEW op \in {"h2d", "decode", "aggregate"}
      PROVE  /\ OnSlot(op) \in Command /\ OnSlot(op).op = op /\ OnSlot(op).slot = slot
             /\ OnSlot(op).batch = Len(opens)
  BY CommandTypes DEF OnSlot, CurrentBatch
<1>3. ASSUME NEW op \in {"reset", "snapshot"}
      PROVE  Kernel(op) \in Command /\ Kernel(op).op = op /\ Kernel(op).batch = Len(opens)
  BY CommandTypes DEF Kernel, CurrentBatch
<1>4. ASSUME NEW i \in {0, 1}
      PROVE  /\ CopyTo(i) \in Command /\ CopyTo(i).op = "d2h" /\ CopyTo(i).dst = i
             /\ CopyTo(i).batch = Len(opens)
  BY CommandTypes DEF CopyTo, CurrentBatch
<1> DEFINE Goal(s, c) ==
             /\ Issue(s, c) /\ IssueStream = s /\ s \in Stream /\ c \in Command
             /\ c.op # "wait" /\ c.batch = Len(opens) /\ Key(c.op, c.batch) = HostKey
<1>5. CopyIn => Goal(si, OnSlot("h2d"))
  BY <1>1, <1>2 DEF CopyIn, IssueStream, FinalPc, Key, HostKey, Phase, HostPhase
<1>6. Decode => Goal(si, OnSlot("decode"))
  BY <1>1, <1>2 DEF Decode, IssueStream, FinalPc, Key, HostKey, Phase, HostPhase
<1>7. Aggregate => Goal(si, OnSlot("aggregate"))
  BY <1>1, <1>2 DEF Aggregate, IssueStream, FinalPc, Key, HostKey, Phase, HostPhase
<1>8. Reset => Goal(si, Kernel("reset"))
  BY <1>1, <1>3 DEF Reset, IssueStream, FinalPc, Key, HostKey, Phase, HostPhase
<1>9. TakeSnapshot => Goal(si, Kernel("snapshot"))
  BY <1>1, <1>3 DEF TakeSnapshot, IssueStream, FinalPc, Key, HostKey, Phase, HostPhase
<1>10. FinalSnapshot => Goal(0, Kernel("snapshot"))
  BY <1>1, <1>3 DEF FinalSnapshot, IssueStream, FinalPc, Key, HostKey, Phase, HostPhase
<1>11. CopyOut => Goal(si, CopyTo(bi))
  BY <1>1, <1>4 DEF CopyOut, IssueStream, FinalPc, Key, HostKey, Phase, HostPhase
<1>12. FinalCopyOut => Goal(0, CopyTo(0))
  BY <1>1, <1>4 DEF FinalCopyOut, IssueStream, FinalPc, Key, HostKey, Phase, HostPhase
<1> HIDE DEF Goal
<1>13. \A s, c : Goal(s, c) =>
         /\ Issue(IssueStream, c) /\ IssueStream \in Stream /\ c \in Command
         /\ c.op # "wait" /\ c.batch = Len(opens) /\ Key(c.op, c.batch) = HostKey
  BY DEF Goal
<1>14. /\ Reset => pc = "reset"
       /\ CopyIn => pc = "h2d"
       /\ Decode => pc = "decode"
       /\ Aggregate => pc = "aggregate"
       /\ TakeSnapshot => pc = "snapshot"
       /\ FinalSnapshot => pc = "final_snapshot"
       /\ CopyOut => pc = "d2h"
       /\ FinalCopyOut => pc = "final_d2h"
  BY DEF Reset, CopyIn, Decode, Aggregate, TakeSnapshot, FinalSnapshot, CopyOut, FinalCopyOut
<1>15. CASE Reset
  BY <1>1, <1>3, <1>8, <1>13, <1>14, <1>15
<1>16. CASE CopyIn
  BY <1>1, <1>2, <1>5, <1>13, <1>14, <1>16
<1>17. CASE Decode
  BY <1>1, <1>2, <1>6, <1>13, <1>14, <1>17
<1>18. CASE Aggregate
  BY <1>1, <1>2, <1>7, <1>13, <1>14, <1>18
<1>19. CASE TakeSnapshot
  BY <1>1, <1>3, <1>9, <1>13, <1>14, <1>19
<1>20. CASE FinalSnapshot
  BY <1>1, <1>3, <1>10, <1>13, <1>14, <1>20
<1>21. CASE CopyOut
  BY <1>1, <1>4, <1>11, <1>13, <1>14, <1>21
<1>22. CASE FinalCopyOut
  BY <1>1, <1>4, <1>12, <1>13, <1>14, <1>22
<1> QED
  BY <1>15, <1>16, <1>17, <1>18, <1>19, <1>20, <1>21, <1>22 DEF WorkStep

-----------------------------------------------------------------------------
(***************************************************************************)
(* What is in flight after a host step.                                    *)
(***************************************************************************)
WorkOps == {"reset", "h2d", "decode", "aggregate", "snapshot", "d2h"}

\* The host steps that issue nothing but waits.
QuietStep == SilentStep \/ WaitStep

\* Command c is in flight at position n of stream s, behind what was in flight.
Appended(s, n, c) ==
    /\ InFlightKept
    /\ n \in Unretired(s)' /\ issued'[s][n] = c
    /\ \A p \in Unretired(s) : p < n
    /\ \A t \in Stream : \A p \in Unretired(t)' :
         (p \in Unretired(t) /\ issued'[t][p] = issued[t][p]) \/ (t = s /\ p = n)

LEMMA HostFrame ==
    ASSUME Host
    PROVE  UNCHANGED <<retired, did, d_raw, soa, acc, d_snap, h_snap>>
BY DEF Host, Acquire, Fill, FeedEnds, WaitForBarrier, WaitBeforeReset, Reset, CopyIn,
       Decode, Aggregate, WaitBeforeSnapshot, Drain, PrintDrained, TakeSnapshot, CopyOut,
       NextBatch, SyncStreams, PrintPending, FinalSnapshot, FinalCopyOut, FinalSync, FinalPrint

LEMMA QuietIssues ==
    ASSUME TypeInv, QuietStep
    PROVE  InFlightKept /\ NoneNew(WorkOps)
<1>1. PICK ops \in {{}, {"wait"}} : IssuesOnly(ops)
  BY HostIssues DEF QuietStep, WaitStep
<1>2. ops \cap WorkOps = {}
  BY <1>1 DEF WorkOps
<1> QED
  BY <1>1, <1>2, IssuingOnly

LEMMA WorkAppends ==
    ASSUME TypeInv, WorkStep
    PROVE  \E s \in Stream, c \in Command, n \in Nat :
             /\ s = IssueStream /\ Appended(s, n, c)
             /\ c.op \in WorkOps /\ c.batch = Len(opens) /\ Key(c.op, c.batch) = HostKey
             /\ Reset => c.op = "reset"
             /\ CopyIn => c.op = "h2d" /\ c.slot = slot
             /\ Decode => c.op = "decode" /\ c.slot = slot
             /\ Aggregate => c.op = "aggregate" /\ c.slot = slot
             /\ TakeSnapshot \/ FinalSnapshot => c.op = "snapshot"
             /\ CopyOut \/ FinalCopyOut => c.op = "d2h"
             /\ CopyOut => c.dst = bi
             /\ FinalCopyOut => c.dst = 0
<1>1. PICK c \in Command :
             /\ Issue(IssueStream, c) /\ IssueStream \in Stream
             /\ c.op # "wait" /\ c.batch = Len(opens) /\ Key(c.op, c.batch) = HostKey
             /\ Reset => c.op = "reset"
             /\ CopyIn => c.op = "h2d" /\ c.slot = slot
             /\ Decode => c.op = "decode" /\ c.slot = slot
             /\ Aggregate => c.op = "aggregate" /\ c.slot = slot
             /\ TakeSnapshot \/ FinalSnapshot => c.op = "snapshot"
             /\ CopyOut \/ FinalCopyOut => c.op = "d2h"
             /\ CopyOut => c.dst = bi
             /\ FinalCopyOut => c.dst = 0
  BY WorkIssues
<1>2. PICK s \in Stream : s = IssueStream
  BY <1>1
<1>3. PICK n \in Nat : n = Len(issued[s]) + 1
  BY DEF TypeInv, TypeOK
<1>4. UNCHANGED retired
  BY HostFrame, HostKinds
<1>5. Issue(s, c)
  BY <1>1, <1>2
<1>6. Appended(s, n, c)
  <2>1. /\ InFlightKept
        /\ n \in Unretired(s)' /\ issued'[s][n] = c
        /\ \A p \in Unretired(s) : p < n
    BY <1>3, <1>4, <1>5, IssueKeepsInFlight DEF InFlightKept
  <2>2. \A t \in Stream : \A p \in Unretired(t)' :
          (p \in Unretired(t) /\ issued'[t][p] = issued[t][p]) \/ (t = s /\ p = n)
    BY <1>3, <1>4, <1>5, InFlightAfterIssue
  <2> QED
    BY <2>1, <2>2 DEF Appended
<1>7. c.op \in WorkOps
  BY <1>1 DEF Command, WorkOps
<1> QED
  BY <1>1, <1>2, <1>6, <1>7

\* The place of the host in the program only advances, but for the last snapshot.
LEMMA QuietKeys ==
    ASSUME TypeInv, QuietStep
    PROVE  /\ SyncStreams \/ PrintPending \/ HostKey' >= HostKey
           /\ Fill \/ UNCHANGED opens
           /\ Fill => Len(opens') = Len(opens) + 1 /\ Len(opens) = batches
           /\ Fill => \A k \in 1..Len(opens) : opens'[k] = opens[k]
<1>1. Len(opens) \in Nat /\ opens \in Seq(BOOLEAN)
  BY DEF TypeInv, TypeOK
<1>2. ASSUME Fill
      PROVE  /\ Len(opens') = Len(opens) + 1 /\ Len(opens) = batches
             /\ \A k \in 1..Len(opens) : opens'[k] = opens[k]
             /\ HostKey' = HostKey
  <2>1. PICK open \in BOOLEAN : opens' = Append(opens, open)
    BY <1>2 DEF Fill
  <2>2. Len(opens') = Len(opens) + 1 /\ \A k \in 1..Len(opens) : opens'[k] = opens[k]
    BY <1>1, <2>1
  <2>3. pc = "fill" /\ pc' = "barrier"
    BY <1>2 DEF Fill
  <2>4. HostPhase = 6 /\ HostPhase' = 0
    BY <2>3 DEF HostPhase
  <2> QED
    BY <1>1, <2>2, <2>3, <2>4 DEF HostKey, TypeInv, CountInv, InBatch
<1>3. CASE SilentStep /\ ~Fill /\ ~SyncStreams /\ ~PrintPending
  <2>1. UNCHANGED opens
    BY <1>3 DEF SilentStep, Acquire, FeedEnds, Drain, PrintDrained, NextBatch, FinalSync,
                FinalPrint
  <2>2. HostPhase' >= HostPhase /\ HostPhase \in Nat /\ HostPhase' \in Nat
    <3>1. HostPhase \in Nat /\ HostPhase' \in Nat
      BY DEF HostPhase
    <3>2. CASE Drain \/ PrintDrained
      BY <3>2 DEF Drain, PrintDrained, HostPhase
    <3>3. CASE Acquire \/ FeedEnds \/ NextBatch \/ FinalSync \/ FinalPrint
      BY <3>3 DEF Acquire, FeedEnds, NextBatch, FinalSync, FinalPrint, HostPhase
    <3> QED
      BY <1>3, <3>1, <3>2, <3>3 DEF SilentStep
  <2> QED
    BY <1>1, <1>3, <2>1, <2>2 DEF HostKey
<1>4. CASE WaitStep
  <2>1. UNCHANGED opens /\ HostPhase' >= HostPhase /\ HostPhase \in Nat /\ HostPhase' \in Nat
    BY <1>4 DEF WaitStep, WaitForBarrier, WaitBeforeReset, WaitBeforeSnapshot, HostPhase
  <2> QED
    BY <1>1, <1>4, <2>1 DEF HostKey, Fill, WaitStep, WaitForBarrier, WaitBeforeReset,
                            WaitBeforeSnapshot
<1>5. CASE SyncStreams \/ PrintPending
  BY <1>5 DEF SyncStreams, PrintPending, Fill
<1>6. CASE Fill
  BY <1>2, <1>6, HostKeyType
<1> QED
  BY <1>2, <1>3, <1>4, <1>5, <1>6 DEF QuietStep

LEMMA IdleEmpty ==
    ASSUME TypeInv, NEW s \in Stream, Idle(s)
    PROVE  Unretired(s) = {}
BY DEF Idle, Unretired, TypeInv, TypeOK

LEMMA SyncEmpties ==
    ASSUME TypeInv, OrderInv, SyncStreams \/ PrintPending
    PROVE  \A s \in Stream : Unretired(s) = {} /\ Unretired(s)' = {}
<1>1. \A s \in Stream : Idle(s)
  BY DEF SyncStreams, PrintPending, OrderInv, IdleAtEnd, SyncedPc, FinalPc, Stream
<1>2. UNCHANGED <<issued, retired>>
  BY DEF SyncStreams, PrintPending
<1>3. \A s \in Stream : Unretired(s) = {}
  BY <1>1, IdleEmpty
<1> QED
  BY <1>2, <1>3 DEF Unretired

\* A quiet step leaves the working commands in flight as they are.
LEMMA QuietSame ==
    ASSUME TypeInv, QuietStep, NEW s \in Stream, NEW p \in Unretired(s)',
           issued'[s][p].op # "wait"
    PROVE  p \in Unretired(s) /\ issued'[s][p] = issued[s][p]
<1>1. TypeInv'
  BY NextType, HostKinds DEF QuietStep, Next
<1>2. issued'[s][p].op \in WorkOps
  <2>1. issued'[s] \in Seq(Command) /\ retired'[s] \in Nat
    BY <1>1 DEF TypeInv, TypeOK
  <2>2. issued'[s][p] \in Command
    BY <2>1 DEF Unretired
  <2> QED
    BY <2>2 DEF Command, WorkOps
<1> QED
  BY <1>2, QuietIssues DEF NoneNew

LEMMA QuietKeepsKeys ==
    ASSUME TypeInv, OrderInv, ProgramOrder, QuietStep
    PROVE  KeysBelowHost' /\ KeysIncrease'
<1>1. ASSUME NEW s \in Stream, NEW p \in Unretired(s)', issued'[s][p].op # "wait"
      PROVE  /\ p \in Unretired(s) /\ OpAt(s, p) # "wait" /\ KeyAt(s, p)' = KeyAt(s, p)
             /\ KeyAt(s, p)' < HostKey'
  <2>1. p \in Unretired(s) /\ issued'[s][p] = issued[s][p]
    BY <1>1, QuietSame
  <2>2. /\ OpAt(s, p) # "wait" /\ KeyAt(s, p)' = KeyAt(s, p)
        /\ KeyAt(s, p) < HostKey /\ KeyAt(s, p) \in Nat
    BY <1>1, <2>1, InFlightTypes DEF KeyAt, OpAt, BatchAt, ProgramOrder, KeysBelowHost
  <2>3. ~(SyncStreams \/ PrintPending)
    BY <2>1, SyncEmpties
  <2>4. HostKey' >= HostKey /\ HostKey \in Nat /\ HostKey' \in Nat
    <3>1. TypeInv'
      BY NextType, HostKinds DEF QuietStep, Next
    <3> QED
      BY <2>3, <3>1, QuietKeys, HostKeyType
  <2> QED
    BY <2>1, <2>2, <2>4
<1>2. KeysBelowHost'
  BY <1>1 DEF KeysBelowHost, OpAt
<1>3. KeysIncrease'
  BY <1>1 DEF ProgramOrder, KeysIncrease, OpAt
<1> QED
  BY <1>2, <1>3

LEMMA WorkAdvances ==
    ASSUME TypeInv, WorkStep
    PROVE  /\ HostKey' > HostKey /\ UNCHANGED <<opens, si, reset_vwap>>
           /\ pc \in FinalPc <=> pc' \in FinalPc
<1>1. Len(opens) \in Nat
  BY DEF TypeInv, TypeOK
<1>2. UNCHANGED <<opens, si, reset_vwap>> /\ (pc \in FinalPc <=> pc' \in FinalPc)
  BY DEF WorkStep, Reset, CopyIn, Decode, Aggregate, TakeSnapshot, CopyOut, FinalSnapshot,
         FinalCopyOut, FinalPc
<1>3. HostPhase' > HostPhase /\ HostPhase \in Nat /\ HostPhase' \in Nat
  <2>1. CASE Reset \/ CopyIn \/ Decode
    BY <2>1 DEF Reset, CopyIn, Decode, HostPhase
  <2>2. CASE Aggregate
    BY <2>2 DEF Aggregate, HostPhase
  <2>3. CASE TakeSnapshot \/ CopyOut
    BY <2>3 DEF TakeSnapshot, CopyOut, HostPhase
  <2>4. CASE FinalSnapshot \/ FinalCopyOut
    BY <2>4 DEF FinalSnapshot, FinalCopyOut, HostPhase
  <2> QED
    BY <2>1, <2>2, <2>3, <2>4 DEF WorkStep
<1> QED
  BY <1>1, <1>2, <1>3 DEF HostKey

LEMMA WorkKeepsKeys ==
    ASSUME TypeInv, ProgramOrder, WorkStep
    PROVE  KeysBelowHost' /\ KeysIncrease'
<1>1. PICK s \in Stream, c \in Command, n \in Nat :
             Appended(s, n, c) /\ Key(c.op, c.batch) = HostKey
  BY WorkAppends
<1>2. HostKey' > HostKey /\ HostKey \in Nat /\ HostKey' \in Nat
  <2>1. TypeInv'
    BY NextType, HostKinds DEF Next
  <2> QED
    BY <2>1, WorkAdvances, HostKeyType
<1>3. ASSUME NEW t \in Stream, NEW p \in Unretired(t)'
      PROVE  \/ /\ p \in Unretired(t) /\ issued'[t][p] = issued[t][p] /\ KeyAt(t, p) \in Nat
                /\ OpAt(t, p)' = OpAt(t, p) /\ KeyAt(t, p)' = KeyAt(t, p)
             \/ t = s /\ p = n /\ KeyAt(t, p)' = HostKey
  <2>1. CASE p \in Unretired(t) /\ issued'[t][p] = issued[t][p]
    BY <2>1, InFlightTypes DEF OpAt, KeyAt, BatchAt
  <2>2. CASE t = s /\ p = n
    BY <1>1, <2>2 DEF Appended, OpAt, KeyAt, BatchAt
  <2> QED
    BY <1>1, <2>1, <2>2 DEF Appended
<1>4. KeysBelowHost'
  BY <1>2, <1>3 DEF ProgramOrder, KeysBelowHost, OpAt
<1>5. KeysIncrease'
  <2> SUFFICES ASSUME NEW t \in Stream, NEW p \in Unretired(t)', NEW q \in Unretired(t)',
                      OpAt(t, p)' # "wait", OpAt(t, q)' # "wait", p < q
               PROVE  KeyAt(t, p)' < KeyAt(t, q)'
    BY DEF KeysIncrease
  <2>1. CASE p \in Unretired(t) /\ OpAt(t, p)' = OpAt(t, p) /\ KeyAt(t, p)' = KeyAt(t, p)
             /\ q \in Unretired(t) /\ OpAt(t, q)' = OpAt(t, q) /\ KeyAt(t, q)' = KeyAt(t, q)
    BY <2>1 DEF ProgramOrder, KeysIncrease
  <2>2. CASE p \in Unretired(t) /\ OpAt(t, p)' = OpAt(t, p) /\ KeyAt(t, p)' = KeyAt(t, p)
             /\ t = s /\ q = n /\ KeyAt(t, q)' = HostKey
    BY <2>2 DEF ProgramOrder, KeysBelowHost
  <2>3. ASSUME t = s, p = n PROVE FALSE
    <3>1. q \in Unretired(s) \/ q = n
      BY <1>1, <2>3 DEF Appended
    <3>2. \A r \in Unretired(s) : r < n /\ r \in Nat
      BY <1>1, InFlightTypes DEF Appended
    <3> QED
      BY <2>3, <3>1, <3>2
  <2> QED
    BY <1>3, <2>1, <2>2, <2>3
<1> QED
  BY <1>4, <1>5

\* A working command in flight is of a batch the feed has given.
LEMMA BatchBound ==
    ASSUME TypeInv, ProgramOrder, NEW s \in Stream, NEW p \in Unretired(s), OpAt(s, p) # "wait"
    PROVE  BatchAt(s, p) <= Len(opens)
<1>1. KeyAt(s, p) < HostKey /\ BatchAt(s, p) \in Nat /\ Len(opens) \in Nat
  BY InFlightTypes, HostKeyType DEF ProgramOrder, KeysBelowHost
<1>2. HostPhase \in 0..6 /\ Phase(OpAt(s, p)) \in 0..5
  BY DEF HostPhase, Phase
<1> QED
  BY <1>1, <1>2 DEF KeyAt, Key, HostKey

LEMMA QuietKeepsPlaces ==
    ASSUME TypeInv, OrderInv, ProgramOrder, QuietStep
    PROVE  StreamOfBatch' /\ FinalOnly' /\ FlagsKnown'
<1>1. ASSUME NEW s \in Stream, NEW p \in Unretired(s)', OpAt(s, p)' # "wait"
      PROVE  /\ p \in Unretired(s) /\ OpAt(s, p) # "wait"
             /\ OpAt(s, p)' = OpAt(s, p) /\ BatchAt(s, p)' = BatchAt(s, p)
             /\ BatchAt(s, p) <= Len(opens) /\ BatchAt(s, p) \in Nat
             /\ ~(SyncStreams \/ PrintPending)
  <2>1. p \in Unretired(s) /\ issued'[s][p] = issued[s][p]
    BY <1>1, QuietSame DEF OpAt
  <2>2. OpAt(s, p) # "wait" /\ OpAt(s, p)' = OpAt(s, p) /\ BatchAt(s, p)' = BatchAt(s, p)
    BY <1>1, <2>1 DEF OpAt, BatchAt
  <2> QED
    BY <2>1, <2>2, BatchBound, InFlightTypes, SyncEmpties
<1>2. /\ opens \in Seq(BOOLEAN) /\ Len(opens) \in Nat /\ batches \in Nat
      /\ Len(opens) = IF InBatch THEN batches + 1 ELSE batches
  BY DEF TypeInv, TypeOK, CountInv
<1>3. /\ Fill \/ UNCHANGED opens
      /\ Fill => /\ Len(opens') = Len(opens) + 1 /\ Len(opens) = batches
                 /\ \A k \in 1..Len(opens) : opens'[k] = opens[k]
  BY QuietKeys
<1>4. /\ pc' \in FinalPc <=> pc \in FinalPc \/ (SyncStreams /\ pending = Null) \/ PrintPending
      /\ pc' \in InLoop => Fill \/ (pc \in InLoop /\ UNCHANGED si)
      /\ pc' \in {"barrier", "reset_wait", "reset", "h2d", "decode", "aggregate"} =>
           Fill \/ (InBatch /\ UNCHANGED <<reset_vwap, opens>>)
      /\ pc' \in {"reset_wait", "reset"} => reset_vwap'
      /\ Fill => si' = batches % 2 /\ reset_vwap' = opens'[Len(opens')] /\ pc' = "barrier"
  <2>1. CASE WaitStep
    BY <2>1 DEF WaitStep, WaitForBarrier, WaitBeforeReset, WaitBeforeSnapshot, FinalPc, InLoop,
                InBatch, ProgramOrder, FlagsKnown, SyncStreams, PrintPending, Fill
  <2>2. CASE Fill
    <3>1. PICK open \in BOOLEAN : reset_vwap' = open /\ opens' = Append(opens, open)
      BY <2>2 DEF Fill
    <3>2. reset_vwap' = opens'[Len(opens')]
      BY <1>2, <3>1
    <3> QED
      BY <2>2, <3>2 DEF Fill, FinalPc, InLoop, SyncStreams, PrintPending
  <2>3. CASE SyncStreams \/ PrintPending
    BY <2>3 DEF SyncStreams, PrintPending, FinalPc, InLoop, InBatch, Fill
  <2>4. CASE Drain \/ PrintDrained
    BY <2>4 DEF Drain, PrintDrained, FinalPc, InLoop, InBatch, SyncStreams, PrintPending, Fill
  <2>5. CASE Acquire \/ FeedEnds \/ NextBatch
    BY <2>5 DEF Acquire, FeedEnds, NextBatch, FinalPc, InLoop, InBatch, SyncStreams,
                PrintPending, Fill
  <2>6. CASE FinalSync \/ FinalPrint
    BY <2>6 DEF FinalSync, FinalPrint, FinalPc, InLoop, InBatch, SyncStreams, PrintPending, Fill
  <2> QED
    BY <2>1, <2>2, <2>3, <2>4, <2>5, <2>6 DEF QuietStep, SilentStep
<1>5. StreamOfBatch'
  <2>1. pc' \in InLoop => si' = (Len(opens') + 1) % 2 /\ Len(opens') >= 1
    <3>1. CASE Fill
      <4>1. (batches + 2) % 2 = batches % 2
        BY <1>2
      <4> QED
        BY <1>2, <1>3, <1>4, <3>1, <4>1
    <3>2. CASE ~Fill
      BY <1>3, <1>4, <3>2 DEF ProgramOrder, StreamOfBatch
    <3> QED
      BY <3>1, <3>2
  <2>2. pc' \notin FinalPc =>
          \A s \in Stream : \A p \in Unretired(s)' :
            OpAt(s, p)' # "wait" => s = (BatchAt(s, p)' + 1) % 2 /\ BatchAt(s, p)' >= 1
    <3> SUFFICES ASSUME pc' \notin FinalPc, NEW s \in Stream, NEW p \in Unretired(s)',
                        OpAt(s, p)' # "wait"
                 PROVE  s = (BatchAt(s, p)' + 1) % 2 /\ BatchAt(s, p)' >= 1
      OBVIOUS
    <3>1. pc \notin FinalPc
      BY <1>4
    <3>2. p \in Unretired(s) /\ OpAt(s, p) # "wait" /\ BatchAt(s, p)' = BatchAt(s, p)
      BY <1>1
    <3>3. s = (BatchAt(s, p) + 1) % 2 /\ BatchAt(s, p) >= 1
      BY <3>1, <3>2 DEF ProgramOrder, StreamOfBatch
    <3> QED
      BY <3>2, <3>3
  <2> QED
    BY <2>1, <2>2 DEF StreamOfBatch
<1>6. FinalOnly'
  <2> SUFFICES ASSUME pc' \in FinalPc, NEW s \in Stream, NEW p \in Unretired(s)'
               PROVE  OpAt(s, p)' \in SnapOps /\ BatchAt(s, p)' = Len(opens') /\ s = 0
    BY DEF FinalOnly
  <2>1. CASE SyncStreams \/ PrintPending
    BY <2>1, SyncEmpties
  <2>2. CASE pc \in FinalPc
    <3>1. UNCHANGED issued /\ ~Fill
      BY <2>2 DEF QuietStep, SilentStep, WaitStep, Acquire, Fill, FeedEnds, Drain, PrintDrained,
         NextBatch, SyncStreams, PrintPending, FinalSync, FinalPrint, WaitForBarrier,
         WaitBeforeReset, WaitBeforeSnapshot, FinalPc
    <3>2. UNCHANGED retired
      BY HostFrame, HostKinds DEF QuietStep
    <3>3. p \in Unretired(s) /\ issued'[s][p] = issued[s][p]
      BY <3>1, <3>2 DEF Unretired
    <3> QED
      BY <1>3, <2>2, <3>1, <3>3 DEF ProgramOrder, FinalOnly, OpAt, BatchAt
  <2> QED
    BY <1>4, <2>1, <2>2
<1>7. FlagsKnown'
  <2>1. InBatch' => reset_vwap' = opens'[Len(opens')]
    BY <1>3, <1>4 DEF ProgramOrder, FlagsKnown, InBatch
  <2>2. ASSUME NEW s \in Stream, NEW p \in Unretired(s)', OpAt(s, p)' = "reset"
        PROVE  opens'[BatchAt(s, p)'] /\ BatchAt(s, p)' >= 1
    <3>1. /\ p \in Unretired(s) /\ OpAt(s, p) = "reset" /\ BatchAt(s, p)' = BatchAt(s, p)
          /\ BatchAt(s, p) <= Len(opens) /\ BatchAt(s, p) \in Nat
      BY <1>1, <2>2
    <3>2. opens[BatchAt(s, p)] /\ BatchAt(s, p) >= 1
      BY <3>1 DEF ProgramOrder, FlagsKnown
    <3> QED
      BY <1>3, <3>1, <3>2
  <2> QED
    BY <1>4, <2>1, <2>2 DEF FlagsKnown
<1> QED
  BY <1>5, <1>6, <1>7

LEMMA WorkKeepsPlaces ==
    ASSUME TypeInv, OrderInv, ProgramOrder, WorkStep
    PROVE  StreamOfBatch' /\ FinalOnly' /\ FlagsKnown'
<1>1. PICK s \in Stream, c \in Command, n \in Nat :
             /\ s = IssueStream /\ Appended(s, n, c)
             /\ c.op \in WorkOps /\ c.batch = Len(opens)
             /\ Reset => c.op = "reset"
             /\ CopyIn => c.op = "h2d"
             /\ Decode => c.op = "decode"
             /\ Aggregate => c.op = "aggregate"
             /\ TakeSnapshot \/ FinalSnapshot => c.op = "snapshot"
             /\ CopyOut \/ FinalCopyOut => c.op = "d2h"
  BY WorkAppends
<1>2. ASSUME NEW t \in Stream, NEW p \in Unretired(t)'
      PROVE  \/ /\ p \in Unretired(t)
                /\ OpAt(t, p)' = OpAt(t, p) /\ BatchAt(t, p)' = BatchAt(t, p)
             \/ t = s /\ p = n /\ OpAt(t, p)' = c.op /\ BatchAt(t, p)' = c.batch
  <2>1. CASE p \in Unretired(t) /\ issued'[t][p] = issued[t][p]
    BY <2>1 DEF OpAt, BatchAt
  <2>2. CASE t = s /\ p = n
    BY <1>1, <2>2 DEF Appended, OpAt, BatchAt
  <2> QED
    BY <1>1, <2>1, <2>2 DEF Appended
<1>3. UNCHANGED <<opens, si, reset_vwap>> /\ (pc \in FinalPc <=> pc' \in FinalPc)
  BY WorkAdvances
<1>4. /\ FinalSnapshot \/ FinalCopyOut => pc \in FinalPc
      /\ ~(FinalSnapshot \/ FinalCopyOut) => pc \in InLoop /\ pc \notin FinalPc
      /\ pc' \in InLoop => pc \in InLoop
      /\ InBatch' => InBatch
      /\ pc' \notin {"reset_wait", "reset"}
  <2>1. CASE Reset \/ CopyIn \/ Decode \/ Aggregate
    BY <2>1 DEF Reset, CopyIn, Decode, Aggregate, FinalPc, InLoop, InBatch, FinalSnapshot,
                FinalCopyOut
  <2>2. CASE TakeSnapshot \/ CopyOut \/ FinalSnapshot \/ FinalCopyOut
    BY <2>2 DEF TakeSnapshot, CopyOut, FinalPc, InLoop, InBatch, FinalSnapshot, FinalCopyOut
  <2> QED
    BY <2>1, <2>2 DEF WorkStep
<1>5. StreamOfBatch'
  BY <1>1, <1>2, <1>3, <1>4 DEF ProgramOrder, StreamOfBatch, IssueStream
<1>6. FinalOnly'
  BY <1>1, <1>2, <1>3, <1>4 DEF ProgramOrder, FinalOnly, IssueStream, SnapOps
<1>7. FlagsKnown'
  <2>1. Reset => reset_vwap /\ reset_vwap = opens[Len(opens)] /\ Len(opens) >= 1
    BY DEF Reset, ProgramOrder, FlagsKnown, StreamOfBatch, InBatch, InLoop
  <2>2. c.op = "reset" => Reset
    BY <1>1 DEF WorkStep
  <2> QED
    BY <1>1, <1>2, <1>3, <1>4, <2>1, <2>2 DEF ProgramOrder, FlagsKnown
<1> QED
  BY <1>5, <1>6, <1>7

\* The streams leave the places of the commands in flight as they are.
LEMMA DeviceKeepsProgram ==
    ASSUME TypeInv, ProgramOrder, NEW x \in Stream, Device(x)
    PROVE  ProgramOrder'
<1>1. UNCHANGED <<pc, si, reset_vwap, issued, opens>>
  BY DeviceInFlight DEF hostSide
<1>2. \A t \in Stream : Unretired(t)' \subseteq Unretired(t)
  BY DeviceInFlight
<1>3. \A t, p : OpAt(t, p)' = OpAt(t, p) /\ BatchAt(t, p)' = BatchAt(t, p) /\ KeyAt(t, p)' = KeyAt(t, p)
  BY <1>1 DEF OpAt, BatchAt, KeyAt, Key, Phase
<1>4. HostKey' = HostKey
  BY <1>1 DEF HostKey, HostPhase
<1>5. KeysBelowHost' /\ KeysIncrease'
  BY <1>2, <1>3, <1>4 DEF ProgramOrder, KeysBelowHost, KeysIncrease
<1>6. StreamOfBatch' /\ FinalOnly'
  BY <1>1, <1>2, <1>3 DEF ProgramOrder, StreamOfBatch, FinalOnly
<1>7. FlagsKnown'
  BY <1>1, <1>2, <1>3 DEF ProgramOrder, FlagsKnown, InBatch
<1> QED
  BY <1>5, <1>6, <1>7 DEF ProgramOrder

LEMMA HostKeepsProgram ==
    ASSUME TypeInv, OrderInv, ProgramOrder, Host
    PROVE  ProgramOrder'
<1>1. CASE QuietStep
  BY <1>1, QuietKeepsKeys, QuietKeepsPlaces DEF ProgramOrder
<1>2. CASE WorkStep
  BY <1>2, WorkKeepsKeys, WorkKeepsPlaces DEF ProgramOrder
<1> QED
  BY <1>1, <1>2, HostKinds DEF QuietStep

-----------------------------------------------------------------------------
(***************************************************************************)
(* The order of the kernels across the streams.                            *)
(***************************************************************************)
\* No command of a batch is in flight twice.
LEMMA UniquePlace ==
    ASSUME TypeInv, ProgramOrder, NEW s \in Stream, NEW p \in Unretired(s),
           NEW t \in Stream, NEW q \in Unretired(t),
           OpAt(s, p) # "wait", OpAt(s, p) = OpAt(t, q), BatchAt(s, p) = BatchAt(t, q)
    PROVE  s = t /\ p = q
<1>1. s = t
  <2>1. CASE pc \in FinalPc
    BY <2>1 DEF ProgramOrder, FinalOnly
  <2>2. CASE pc \notin FinalPc
    BY <2>2 DEF ProgramOrder, StreamOfBatch
  <2> QED
    BY <2>1, <2>2
<1>2. KeyAt(s, p) = KeyAt(t, q) /\ KeyAt(s, p) \in Nat /\ p \in Nat /\ q \in Nat
  BY InFlightTypes DEF KeyAt
<1>3. ~(p < q) /\ ~(q < p)
  BY <1>1, <1>2 DEF ProgramOrder, KeysIncrease
<1> QED
  BY <1>1, <1>2, <1>3

LEMMA OtherStreams ==
    \A s \in Stream : 1 - s \in Stream /\ 1 - s # s /\ 1 - (1 - s) = s
                      /\ \A t \in Stream : t = s \/ t = 1 - s
BY DEF Stream

LEMMA QuietKeepsAwaited ==
    ASSUME TypeInv, EarlierAwaited, QuietStep
    PROVE  EarlierAwaited'
<1> SUFFICES ASSUME NEW s \in Stream, NEW p \in Unretired(s)', NEW q \in Unretired(1 - s)',
                    Conflict(OpAt(s, p), OpAt(1 - s, q))', KeyAt(1 - s, q)' < KeyAt(s, p)'
             PROVE  \E w \in Unretired(s)' : w < p /\ HoldsBack(s, w, 1 - s, q)'
  BY DEF EarlierAwaited
<1>1. InFlightKept
  BY QuietIssues
<1>2. OpAt(s, p)' # "wait" /\ OpAt(1 - s, q)' # "wait"
  BY DEF Conflict, AccumOps, WholeArray
<1>3. /\ p \in Unretired(s) /\ issued'[s][p] = issued[s][p]
      /\ q \in Unretired(1 - s) /\ issued'[1 - s][q] = issued[1 - s][q]
  BY <1>2, QuietSame, OtherStreams DEF OpAt
<1>4. Conflict(OpAt(s, p), OpAt(1 - s, q)) /\ KeyAt(1 - s, q) < KeyAt(s, p)
  BY <1>3 DEF OpAt, KeyAt, BatchAt, Conflict
<1>5. PICK w \in Unretired(s) : w < p /\ HoldsBack(s, w, 1 - s, q)
  BY <1>3, <1>4 DEF EarlierAwaited
<1> QED
  BY <1>1, <1>5, HoldsBackKept

LEMMA WorkKeepsAwaited ==
    ASSUME TypeInv, OrderInv, ProgramOrder, EarlierAwaited, WorkStep
    PROVE  EarlierAwaited'
<1>1. PICK s \in Stream, c \in Command, n \in Nat :
             /\ s = IssueStream /\ Appended(s, n, c)
             /\ c.op \in WorkOps /\ c.batch = Len(opens) /\ Key(c.op, c.batch) = HostKey
             /\ Reset => c.op = "reset"
             /\ CopyIn => c.op = "h2d"
             /\ Decode => c.op = "decode"
             /\ Aggregate => c.op = "aggregate"
             /\ TakeSnapshot \/ FinalSnapshot => c.op = "snapshot"
             /\ CopyOut \/ FinalCopyOut => c.op = "d2h"
  BY WorkAppends
<1>2. InFlightKept /\ \A w \in Unretired(s) : w < n
  BY <1>1 DEF Appended
<1> SUFFICES ASSUME NEW t \in Stream, NEW p \in Unretired(t)', NEW q \in Unretired(1 - t)',
                    Conflict(OpAt(t, p), OpAt(1 - t, q))', KeyAt(1 - t, q)' < KeyAt(t, p)'
             PROVE  \E w \in Unretired(t)' : w < p /\ HoldsBack(t, w, 1 - t, q)'
  BY DEF EarlierAwaited
<1>3. \/ p \in Unretired(t) /\ issued'[t][p] = issued[t][p]
      \/ t = s /\ p = n /\ issued'[t][p] = c
  BY <1>1 DEF Appended
<1>4. \/ q \in Unretired(1 - t) /\ issued'[1 - t][q] = issued[1 - t][q]
      \/ 1 - t = s /\ q = n /\ issued'[1 - t][q] = c
  BY <1>1, OtherStreams DEF Appended
<1>5. OpAt(t, p)' # "wait" /\ OpAt(1 - t, q)' # "wait"
  BY DEF Conflict, AccumOps, WholeArray
<1>6. CASE p \in Unretired(t) /\ issued'[t][p] = issued[t][p]
           /\ q \in Unretired(1 - t) /\ issued'[1 - t][q] = issued[1 - t][q]
  <2>1. Conflict(OpAt(t, p), OpAt(1 - t, q)) /\ KeyAt(1 - t, q) < KeyAt(t, p)
    BY <1>6 DEF OpAt, KeyAt, BatchAt, Conflict
  <2>2. PICK w \in Unretired(t) : w < p /\ HoldsBack(t, w, 1 - t, q)
    BY <1>6, <2>1 DEF EarlierAwaited
  <2> QED
    BY <1>2, <2>2, HoldsBackKept
<1>7. CASE p \in Unretired(t) /\ issued'[t][p] = issued[t][p]
           /\ 1 - t = s /\ q = n /\ issued'[1 - t][q] = c
  <2>1. OpAt(t, p) # "wait" /\ KeyAt(t, p)' = KeyAt(t, p) /\ KeyAt(1 - t, q)' = HostKey
    BY <1>1, <1>5, <1>7 DEF OpAt, KeyAt, BatchAt
  <2>2. KeyAt(t, p) < HostKey /\ KeyAt(t, p) \in Nat /\ HostKey \in Nat
    BY <1>7, <2>1, InFlightTypes, HostKeyType DEF ProgramOrder, KeysBelowHost
  <2> QED
    BY <2>1, <2>2
<1>8. CASE t = s /\ p = n /\ issued'[t][p] = c
  <2>1. q \in Unretired(1 - s) /\ issued'[1 - s][q] = issued[1 - s][q]
    BY <1>4, <1>8, OtherStreams
  <2>2. Conflict(c.op, OpAt(1 - s, q))
    BY <1>8, <2>1 DEF OpAt, Conflict
  <2>3. ~(FinalSnapshot \/ FinalCopyOut)
    <3>1. ASSUME FinalSnapshot PROVE FALSE
      <4>1. Idle(1 - s)
        BY <3>1 DEF FinalSnapshot, OrderInv, IdleAtEnd, SyncedPc, FinalPc, Stream
      <4> QED
        BY <2>1, <4>1, IdleEmpty, OtherStreams
    <3>2. ASSUME FinalCopyOut PROVE FALSE
      BY <1>1, <2>2, <3>2 DEF Conflict, AccumOps, WholeArray
    <3> QED
      BY <3>1, <3>2
  <2>4. Reset \/ Aggregate \/ TakeSnapshot
    BY <1>1, <2>2, <2>3 DEF WorkStep, Conflict, AccumOps, WholeArray
  <2>5. s = si
    BY <1>1, <2>4 DEF IssueStream, Reset, Aggregate, TakeSnapshot, FinalPc
  <2>6. HeldBack(si, 1 - si, q)
    <3>1. CASE OpAt(1 - s, q) \in WholeArray
      <4>1. pc \in AfterBarrier
        BY <2>4 DEF Reset, Aggregate, TakeSnapshot, AfterBarrier
      <4> QED
        BY <2>1, <2>5, <3>1, <4>1 DEF OrderInv, BarrierWaited, IsWhole, OpAt
    <3>2. CASE OpAt(1 - s, q) = "aggregate"
      <4>1. pc \in AfterOtherWait
        BY <1>1, <2>2, <2>4, <3>2 DEF Reset, Aggregate, TakeSnapshot, AfterOtherWait, Conflict,
                                      WholeArray
      <4> QED
        BY <2>1, <2>5, <3>2, <4>1 DEF OrderInv, OtherStreamWaited, IsAggregate, OpAt
    <3> QED
      BY <2>2, <3>1, <3>2 DEF Conflict, AccumOps
  <2>7. PICK w \in Unretired(s) : HoldsBack(s, w, 1 - s, q)
    BY <2>5, <2>6 DEF HeldBack
  <2> QED
    BY <1>2, <1>8, <2>7, HoldsBackKept
<1> QED
  BY <1>3, <1>4, <1>6, <1>7, <1>8, OtherStreams

LEMMA DeviceKeepsAwaited ==
    ASSUME TypeInv, EarlierAwaited, NEW x \in Stream, Device(x)
    PROVE  EarlierAwaited'
<1> SUFFICES ASSUME NEW s \in Stream, NEW p \in Unretired(s)', NEW q \in Unretired(1 - s)',
                    Conflict(OpAt(s, p), OpAt(1 - s, q))', KeyAt(1 - s, q)' < KeyAt(s, p)'
             PROVE  \E w \in Unretired(s)' : w < p /\ HoldsBack(s, w, 1 - s, q)'
  BY DEF EarlierAwaited
<1>1. UNCHANGED issued /\ p \in Unretired(s) /\ q \in Unretired(1 - s)
  BY DeviceInFlight, OtherStreams DEF hostSide
<1>2. Conflict(OpAt(s, p), OpAt(1 - s, q)) /\ KeyAt(1 - s, q) < KeyAt(s, p)
  BY <1>1 DEF OpAt, KeyAt, BatchAt, Conflict
<1>3. PICK w \in Unretired(s) : w < p /\ HoldsBack(s, w, 1 - s, q)
  BY <1>1, <1>2 DEF EarlierAwaited
<1> QED
  BY <1>3, WaitOutlasts, OtherStreams

LEMMA HeadInFlight ==
    ASSUME TypeInv, NEW s \in Stream, Busy(s)
    PROVE  \E h \in Unretired(s) :
             /\ h = retired[s] + 1 /\ issued[s][h] = HeadOf(s)
             /\ OpAt(s, h) = HeadOf(s).op /\ BatchAt(s, h) = HeadOf(s).batch
<1>1. retired[s] + 1 \in Unretired(s)
  BY DEF Busy, Unretired, TypeInv, TypeOK
<1> QED
  BY <1>1 DEF OpAt, BatchAt, HeadOf

\* When a kernel runs, none it conflicts with that comes before it is in flight.
LEMMA HeadFirst ==
    ASSUME TypeInv, ProgramOrder, EarlierAwaited, NEW s \in Stream, Busy(s),
           NEW t \in Stream, NEW q \in Unretired(t),
           \/ Conflict(HeadOf(s).op, OpAt(t, q))
           \/ t = s /\ HeadOf(s).op # "wait" /\ OpAt(t, q) # "wait"
    PROVE  /\ retired[s] + 1 \in Unretired(s)
           /\ OpAt(s, retired[s] + 1) = HeadOf(s).op
           /\ BatchAt(s, retired[s] + 1) = HeadOf(s).batch
           /\ Key(HeadOf(s).op, HeadOf(s).batch) <= KeyAt(t, q)
<1>1. PICK h \in Nat : h = retired[s] + 1
  BY DEF TypeInv, TypeOK
<1>2. h \in Unretired(s) /\ \A w \in Unretired(s) : w >= h /\ w \in Nat
  BY <1>1 DEF Busy, Unretired, TypeInv, TypeOK
<1>3. OpAt(s, h) = HeadOf(s).op /\ BatchAt(s, h) = HeadOf(s).batch
  BY <1>1 DEF OpAt, BatchAt, HeadOf
<1>4. KeyAt(s, h) \in Nat /\ KeyAt(t, q) \in Nat /\ q \in Nat
  BY <1>2, InFlightTypes
<1>5. KeyAt(s, h) <= KeyAt(t, q)
  <2>1. CASE t = s
    <3>1. OpAt(s, h) # "wait" /\ OpAt(s, q) # "wait"
      BY <1>3, <2>1 DEF Conflict, AccumOps, WholeArray
    <3>2. h = q \/ KeyAt(s, h) < KeyAt(s, q)
      BY <1>2, <2>1, <3>1 DEF ProgramOrder, KeysIncrease
    <3> QED
      BY <1>4, <2>1, <3>2
  <2>2. CASE t = 1 - s
    <3>1. Conflict(OpAt(s, h), OpAt(1 - s, q))
      BY <1>3, <2>2, OtherStreams
    <3>2. ~\E w \in Unretired(s) : w < h
      BY <1>2
    <3>3. ~(KeyAt(1 - s, q) < KeyAt(s, h))
      BY <1>2, <2>2, <3>1, <3>2 DEF EarlierAwaited
    <3> QED
      BY <1>4, <2>2, <3>3
  <2> QED
    BY <2>1, <2>2, OtherStreams
<1> QED
  BY <1>1, <1>2, <1>3, <1>5 DEF KeyAt

-----------------------------------------------------------------------------
(***************************************************************************)
(* What the slots hold: the batch of the commands that use them, as far as *)
(* the copy and the decode kernel have brought it.                         *)
(***************************************************************************)
InUse(op, k) ==
    \E s \in Stream : \E p \in Unretired(s) : OpAt(s, p) = op /\ issued[s][p].slot = k

CopiedIn(k) == InUse("h2d", k) \/ d_raw[k] = h_raw[k]
Decoded(k) == InUse("decode", k) \/ soa[k] = h_raw[k]

Uses(s, p, k) == OpAt(s, p) \in SlotOps /\ issued[s][p].slot = k

SlotData ==
    /\ \A s \in Stream : \A p \in Unretired(s) : \A k \in Slot : Uses(s, p, k) =>
         /\ h_raw[k] = BatchAt(s, p)
         /\ OpAt(s, p) = "decode" => CopiedIn(k)
         /\ OpAt(s, p) = "aggregate" => Decoded(k)
    /\ InBatch => h_raw[slot] = Len(opens)
    /\ pc = "decode" => CopiedIn(slot)
    /\ pc = "aggregate" => Decoded(slot)

LEMMA SlotTypes ==
    ASSUME TypeInv, NEW s \in Stream, NEW p \in Unretired(s), OpAt(s, p) \in SlotOps
    PROVE  issued[s][p].slot \in Slot
<1>1. issued[s][p] \in Command
  BY InFlightTypes
<1> QED
  BY <1>1 DEF Command, OpAt, SlotOps

LEMMA InUseKept ==
    ASSUME InFlightKept, NEW op, NEW k, InUse(op, k)
    PROVE  InUse(op, k)'
BY DEF InUse, InFlightKept, OpAt

\* The parser fills a slot that nothing in flight uses.
LEMMA FillKeepsSlotData ==
    ASSUME TypeInv, SlotInv, SlotData, Fill
    PROVE  SlotData'
<1>1. UNCHANGED <<issued, retired, slot, d_raw, soa>> /\ pc = "fill" /\ pc' = "barrier"
  BY DEF Fill
<1>2. h_raw' = [h_raw EXCEPT ![slot] = batches + 1] /\ slot \in Slot
      /\ h_raw \in [Slot -> Batch \cup {NoBatch}]
  BY DEF Fill, TypeInv, TypeOK
<1>3. Len(opens') = batches + 1
  BY QuietKeys DEF QuietStep, SilentStep
<1>4. \A s : Unretired(s)' = Unretired(s)
  BY <1>1 DEF Unretired
<1>5. \A op, k : InUse(op, k)' <=> InUse(op, k)
  BY <1>1, <1>4 DEF InUse, OpAt
<1>6. ASSUME NEW s \in Stream, NEW p \in Unretired(s), NEW k \in Slot, Uses(s, p, k)
      PROVE  h_raw'[k] = h_raw[k]
  <2>1. k # slot
    BY <1>1, <1>6, ReadySlotUnused DEF SlotExclusive, Uses, OpAt
  <2> QED
    BY <1>2, <2>1
<1>7. ASSUME NEW s \in Stream, NEW p \in Unretired(s)', NEW k \in Slot, Uses(s, p, k)'
      PROVE  /\ h_raw'[k] = BatchAt(s, p)'
             /\ OpAt(s, p)' = "decode" => CopiedIn(k)'
             /\ OpAt(s, p)' = "aggregate" => Decoded(k)'
  <2>1. /\ p \in Unretired(s) /\ OpAt(s, p)' = OpAt(s, p) /\ BatchAt(s, p)' = BatchAt(s, p)
        /\ Uses(s, p, k)
    BY <1>1, <1>4, <1>7 DEF OpAt, BatchAt, Uses
  <2> QED
    BY <1>1, <1>5, <1>6, <2>1 DEF SlotData, CopiedIn, Decoded
<1>8. h_raw'[slot'] = Len(opens')
  BY <1>1, <1>2, <1>3
<1> QED
  BY <1>1, <1>7, <1>8 DEF SlotData

LEMMA QuietKeepsSlotData ==
    ASSUME TypeInv, SlotInv, SlotData, QuietStep
    PROVE  SlotData'
<1>1. CASE Fill
  BY <1>1, FillKeepsSlotData
<1>2. CASE ~Fill
  <2>1. UNCHANGED <<d_raw, soa, h_raw, opens>> /\ InFlightKept
    <3>1. UNCHANGED <<d_raw, soa>>
      BY HostFrame, HostKinds DEF QuietStep
    <3>2. UNCHANGED h_raw
      BY <1>2 DEF QuietStep, SilentStep, WaitStep, Acquire, FeedEnds, Drain, PrintDrained, NextBatch,
           SyncStreams, PrintPending, FinalSync, FinalPrint, WaitForBarrier, WaitBeforeReset,
           WaitBeforeSnapshot
    <3> QED
      BY <1>2, <3>1, <3>2, QuietKeys, QuietIssues
  <2>2. /\ pc' \notin {"decode", "aggregate"}
        /\ InBatch' => InBatch /\ UNCHANGED slot
    <3>1. CASE WaitStep
      BY <3>1 DEF WaitStep, WaitForBarrier, WaitBeforeReset, WaitBeforeSnapshot, InBatch
    <3>2. CASE Drain \/ PrintDrained \/ SyncStreams \/ PrintPending
      BY <3>2 DEF Drain, PrintDrained, SyncStreams, PrintPending, InBatch
    <3>3. CASE Acquire \/ FeedEnds \/ NextBatch \/ FinalSync \/ FinalPrint
      BY <3>3 DEF Acquire, FeedEnds, NextBatch, FinalSync, FinalPrint, InBatch
    <3> QED
      BY <1>2, <3>1, <3>2, <3>3 DEF QuietStep, SilentStep
  <2>3. ASSUME NEW s \in Stream, NEW p \in Unretired(s)', NEW k \in Slot, Uses(s, p, k)'
        PROVE  /\ h_raw'[k] = BatchAt(s, p)'
               /\ OpAt(s, p)' = "decode" => CopiedIn(k)'
               /\ OpAt(s, p)' = "aggregate" => Decoded(k)'
    <3>1. p \in Unretired(s) /\ issued'[s][p] = issued[s][p]
      BY <2>3, QuietSame DEF Uses, OpAt, SlotOps
    <3>2. OpAt(s, p)' = OpAt(s, p) /\ BatchAt(s, p)' = BatchAt(s, p) /\ Uses(s, p, k)
      BY <2>3, <3>1 DEF OpAt, BatchAt, Uses
    <3> QED
      BY <2>1, <3>1, <3>2, InUseKept DEF SlotData, CopiedIn, Decoded
  <2> QED
    BY <2>1, <2>2, <2>3 DEF SlotData
<1> QED
  BY <1>1, <1>2

LEMMA WorkKeepsSlotData ==
    ASSUME TypeInv, ProgramOrder, SlotData, WorkStep
    PROVE  SlotData'
<1>1. PICK s \in Stream, c \in Command, n \in Nat :
             /\ Appended(s, n, c) /\ c.op \in WorkOps /\ c.batch = Len(opens)
             /\ Reset => c.op = "reset"
             /\ CopyIn => c.op = "h2d" /\ c.slot = slot
             /\ Decode => c.op = "decode" /\ c.slot = slot
             /\ Aggregate => c.op = "aggregate" /\ c.slot = slot
             /\ TakeSnapshot \/ FinalSnapshot => c.op = "snapshot"
             /\ CopyOut \/ FinalCopyOut => c.op = "d2h"
  BY WorkAppends
<1>2. /\ UNCHANGED <<d_raw, soa, h_raw, opens, slot>>
      /\ InFlightKept
  <2>1. UNCHANGED <<d_raw, soa>>
    BY HostFrame, HostKinds
  <2>2. UNCHANGED <<h_raw, slot>>
    BY DEF WorkStep, Reset, CopyIn, Decode, Aggregate, TakeSnapshot, CopyOut, FinalSnapshot,
           FinalCopyOut
  <2> QED
    BY <1>1, <2>1, <2>2, WorkAdvances DEF Appended
<1>3. \A k : (CopiedIn(k) => CopiedIn(k)') /\ (Decoded(k) => Decoded(k)')
  BY <1>2, InUseKept DEF CopiedIn, Decoded
<1>4. /\ InBatch' => InBatch
      /\ pc' = "decode" <=> CopyIn
      /\ pc' = "aggregate" <=> Decode
      /\ Decode => pc = "decode"
      /\ Aggregate => pc = "aggregate"
      /\ CopyIn \/ Decode \/ Aggregate => InBatch
  BY DEF WorkStep, Reset, CopyIn, Decode, Aggregate, TakeSnapshot, CopyOut, FinalSnapshot,
         FinalCopyOut, InBatch
<1>5. (CopyIn => InUse("h2d", slot)') /\ (Decode => InUse("decode", slot)')
  BY <1>1, <1>2 DEF Appended, InUse, OpAt
<1>6. /\ c.op = "decode" => Decode
      /\ c.op = "aggregate" => Aggregate
      /\ c.op \in SlotOps => CopyIn \/ Decode \/ Aggregate
  BY <1>1 DEF WorkStep, SlotOps
<1>7. ASSUME NEW t \in Stream, NEW p \in Unretired(t)', NEW k \in Slot, Uses(t, p, k)'
      PROVE  /\ h_raw'[k] = BatchAt(t, p)'
             /\ OpAt(t, p)' = "decode" => CopiedIn(k)'
             /\ OpAt(t, p)' = "aggregate" => Decoded(k)'
  <2>1. CASE p \in Unretired(t) /\ issued'[t][p] = issued[t][p]
    <3>1. OpAt(t, p)' = OpAt(t, p) /\ BatchAt(t, p)' = BatchAt(t, p) /\ Uses(t, p, k)
      BY <1>7, <2>1 DEF OpAt, BatchAt, Uses
    <3> QED
      BY <1>2, <1>3, <2>1, <3>1 DEF SlotData
  <2>2. CASE t = s /\ p = n
    <3>1. issued'[t][p] = c /\ OpAt(t, p)' = c.op /\ BatchAt(t, p)' = Len(opens)
      BY <1>1, <2>2 DEF Appended, OpAt, BatchAt
    <3>2. CopyIn \/ Decode \/ Aggregate
      BY <1>6, <1>7, <3>1 DEF Uses
    <3>3. k = slot /\ h_raw[slot] = Len(opens)
      BY <1>1, <1>4, <1>7, <3>1, <3>2 DEF Uses, SlotData
    <3>4. (c.op = "decode" => CopiedIn(slot)) /\ (c.op = "aggregate" => Decoded(slot))
      BY <1>4, <1>6 DEF SlotData
    <3> QED
      BY <1>2, <1>3, <3>1, <3>3, <3>4
  <2> QED
    BY <1>1, <2>1, <2>2 DEF Appended
<1>8. slot' = slot /\ slot \in Slot
  BY <1>2 DEF TypeInv, TypeOK
<1>9. /\ pc' = "decode" => CopiedIn(slot)'
      /\ pc' = "aggregate" => Decoded(slot)'
  BY <1>4, <1>5, <1>8 DEF CopiedIn, Decoded
<1> QED
  BY <1>2, <1>4, <1>7, <1>9 DEF SlotData

LEMMA RetiredHead ==
    ASSUME TypeInv, NEW x \in Stream, Busy(x), Retire(x), UNCHANGED issued
    PROVE  /\ Unretired(x)' = Unretired(x) \ {retired[x] + 1}
           /\ retired[x] + 1 \in Unretired(x)
           /\ retired'[x] = retired[x] + 1
           /\ Unretired(1 - x)' = Unretired(1 - x)
           /\ retired'[1 - x] = retired[1 - x]
<1>1. retired[x] \in Nat /\ Len(issued[x]) \in Nat /\ retired[x] < Len(issued[x])
  BY DEF TypeInv, TypeOK, Busy
<1>2. retired'[x] = retired[x] + 1 /\ retired'[1 - x] = retired[1 - x]
  BY Retiring DEF TypeInv
<1>3. Unretired(1 - x)' = Unretired(1 - x)
  BY <1>2 DEF Unretired
<1>4. Unretired(x)' = Unretired(x) \ {retired[x] + 1}
  BY <1>1, <1>2 DEF Unretired
<1>5. retired[x] + 1 \in Unretired(x)
  BY <1>1 DEF Unretired
<1> QED
  BY <1>2, <1>3, <1>4, <1>5

\* The command at the head of a stream finds its batch in the slot.
LEMMA HeadFindsBatch ==
    ASSUME TypeInv, ProgramOrder, EarlierAwaited, SlotData,
           NEW x \in Stream, Busy(x), NEW k \in Slot,
           HeadOf(x).op \in SlotOps, HeadOf(x).slot = k
    PROVE  /\ h_raw[k] = HeadOf(x).batch
           /\ HeadOf(x).op = "decode" => d_raw[k] = HeadOf(x).batch
           /\ HeadOf(x).op = "aggregate" => soa[k] = HeadOf(x).batch
<1>1. PICK h \in Unretired(x) :
        /\ h = retired[x] + 1 /\ issued[x][h] = HeadOf(x)
        /\ OpAt(x, h) = HeadOf(x).op /\ BatchAt(x, h) = HeadOf(x).batch
  BY HeadInFlight
<1>2. /\ h_raw[k] = HeadOf(x).batch
      /\ HeadOf(x).op = "decode" => CopiedIn(k)
      /\ HeadOf(x).op = "aggregate" => Decoded(k)
  BY <1>1 DEF SlotData, Uses
<1>3. ASSUME NEW t \in Stream, NEW q \in Unretired(t), Uses(t, q, k),
             Phase(OpAt(t, q)) < Phase(HeadOf(x).op)
      PROVE  FALSE
  <2>1. BatchAt(t, q) = HeadOf(x).batch /\ BatchAt(t, q) \in Nat
    BY <1>2, <1>3, InFlightTypes DEF SlotData
  <2>2. OpAt(t, q) # "wait" /\ OpAt(x, h) # "wait"
    BY <1>1, <1>3 DEF Uses, SlotOps
  <2>3. pc \notin FinalPc
    BY <1>1 DEF ProgramOrder, FinalOnly, SnapOps, SlotOps
  <2>4. t = x
    BY <1>1, <2>1, <2>2, <2>3 DEF ProgramOrder, StreamOfBatch
  <2>5. Key(HeadOf(x).op, HeadOf(x).batch) <= KeyAt(t, q)
    BY <1>1, <2>2, <2>4, HeadFirst
  <2>6. Phase(HeadOf(x).op) \in Nat /\ Phase(OpAt(t, q)) \in Nat
    BY DEF Phase
  <2> HIDE DEF Phase
  <2> QED
    BY <1>3, <2>1, <2>5, <2>6 DEF KeyAt, Key
<1>4. HeadOf(x).op = "decode" => ~InUse("h2d", k)
  BY <1>3 DEF InUse, Uses, SlotOps, Phase
<1>5. HeadOf(x).op = "aggregate" => ~InUse("decode", k)
  BY <1>3 DEF InUse, Uses, SlotOps, Phase
<1> QED
  BY <1>2, <1>4, <1>5 DEF CopiedIn, Decoded

LEMMA DeviceKeepsSlotData ==
    ASSUME TypeInv, ProgramOrder, EarlierAwaited, SlotData, NEW x \in Stream, Device(x)
    PROVE  SlotData'
<1>1. /\ UNCHANGED <<pc, slot, opens, h_raw, issued>>
      /\ \A t \in Stream : Unretired(t)' \subseteq Unretired(t)
      /\ Busy(x) /\ (UNCHANGED retired \/ Retire(x))
  BY DeviceInFlight, StreamSteps DEF hostSide, TypeInv
<1>2. slot \in Slot /\ d_raw \in [Slot -> Batch \cup {NoBatch}]
      /\ soa \in [Slot -> Batch \cup {NoBatch}]
  BY DEF TypeInv, TypeOK
<1> DEFINE Kept == \A k \in Slot : (CopiedIn(k) => CopiedIn(k)') /\ (Decoded(k) => Decoded(k)')
<1>3. Kept => SlotData'
  BY <1>1, <1>2 DEF SlotData, Uses, OpAt, BatchAt, InBatch
<1>4. ASSUME NEW op, NEW k, InUse(op, k), Retire(x) => HeadOf(x).op # op \/ HeadOf(x).slot # k
      PROVE  InUse(op, k)'
  <2>1. PICK t \in Stream : \E p \in Unretired(t) : OpAt(t, p) = op /\ issued[t][p].slot = k
    BY <1>4 DEF InUse
  <2>2. PICK p \in Unretired(t) : OpAt(t, p) = op /\ issued[t][p].slot = k
    BY <2>1
  <2>3. p \in Unretired(t)'
    <3>1. CASE UNCHANGED retired
      BY <1>1, <3>1 DEF Unretired
    <3>2. CASE Retire(x)
      BY <1>1, <1>4, <2>2, <3>2, RetiredHead, OtherStreams DEF HeadOf, OpAt
    <3> QED
      BY <1>1, <3>1, <3>2
  <2> QED
    BY <1>1, <2>2, <2>3 DEF InUse, OpAt
<1>5. CASE CopyHostToDevice(x)
  <2>1. PICK k \in Slot : HeadOf(x).slot = k
    BY <1>1, <1>5, HeadTypes DEF CopyHostToDevice, At, SlotOps, TypeInv
  <2>2. /\ d_raw' = [d_raw EXCEPT ![k] = h_raw[k]] /\ UNCHANGED <<soa, h_raw>>
        /\ HeadOf(x).op = "h2d"
    BY <1>1, <1>5, <2>1 DEF CopyHostToDevice, At
  <2>3. ASSUME NEW j \in Slot, CopiedIn(j) PROVE CopiedIn(j)'
    <3>1. CASE j = k
      BY <1>2, <2>2, <3>1 DEF CopiedIn
    <3>2. CASE j # k
      <4>1. InUse("h2d", j) => InUse("h2d", j)'
        BY <1>4, <2>1, <3>2
      <4> QED
        BY <1>2, <2>2, <2>3, <3>2, <4>1 DEF CopiedIn
    <3> QED
      BY <3>1, <3>2
  <2>4. ASSUME NEW j \in Slot, Decoded(j) PROVE Decoded(j)'
    <3>1. InUse("decode", j) => InUse("decode", j)'
      BY <1>4, <2>2
    <3> QED
      BY <2>2, <2>4, <3>1 DEF Decoded
  <2> QED
    BY <1>3, <2>3, <2>4
<1>6. CASE DecodeKernel(x)
  <2>1. PICK k \in Slot : HeadOf(x).slot = k
    BY <1>1, <1>6, HeadTypes DEF DecodeKernel, At, SlotOps, TypeInv
  <2>2. /\ soa' = [soa EXCEPT ![k] = d_raw[k]] /\ UNCHANGED <<d_raw, h_raw>>
        /\ HeadOf(x).op = "decode"
    BY <1>1, <1>6, <2>1 DEF DecodeKernel, At
  <2>3. d_raw[k] = h_raw[k]
    BY <1>1, <2>1, <2>2, HeadFindsBatch DEF SlotOps
  <2>4. ASSUME NEW j \in Slot, Decoded(j) PROVE Decoded(j)'
    <3>1. CASE j = k
      BY <1>2, <2>2, <2>3, <3>1 DEF Decoded
    <3>2. CASE j # k
      <4>1. InUse("decode", j) => InUse("decode", j)'
        BY <1>4, <2>1, <3>2
      <4> QED
        BY <1>2, <2>2, <2>4, <3>2, <4>1 DEF Decoded
    <3> QED
      BY <3>1, <3>2
  <2>5. ASSUME NEW j \in Slot, CopiedIn(j) PROVE CopiedIn(j)'
    <3>1. InUse("h2d", j) => InUse("h2d", j)'
      BY <1>4, <2>2
    <3> QED
      BY <2>2, <2>5, <3>1 DEF CopiedIn
  <2> QED
    BY <1>3, <2>4, <2>5
<1>7. CASE ~CopyHostToDevice(x) /\ ~DecodeKernel(x)
  <2>1. UNCHANGED <<d_raw, soa>> /\ HeadOf(x).op \notin {"h2d", "decode"}
    BY <1>7 DEF Device, StreamWait, AggregateKernel, ResetKernel, SnapshotRead, SnapshotConsume,
                CopyDeviceToHost, KernelStep, At
  <2>2. \A k \in Slot : (InUse("h2d", k) => InUse("h2d", k)')
                        /\ (InUse("decode", k) => InUse("decode", k)')
    BY <1>4, <2>1
  <2>3. Kept
    BY <1>1, <2>1, <2>2 DEF CopiedIn, Decoded
  <2> QED
    BY <1>3, <2>3
<1> QED
  BY <1>5, <1>6, <1>7

-----------------------------------------------------------------------------
(***************************************************************************)
(* The steps of the kernels that are still to come: of the kernels in      *)
(* flight, and of those the host has not issued yet.                       *)
(***************************************************************************)
\* Between two kernels no step has been taken.
DidInv ==
    \A s \in Stream :
        /\ did[s] # {} => Busy(s) /\ HeadOf(s).op \in AccumOps
        /\ \A c \in Cells : <<"consume", c>> \in did[s] => <<"read", c>> \in did[s]

Touched(s, p, step) == p = retired[s] + 1 /\ step \in did[s]

Untouched(op, k, step) ==
    \E s \in Stream : \E p \in Unretired(s) :
        OpAt(s, p) = op /\ BatchAt(s, p) = k /\ ~Touched(s, p, step)

ToCome(op, k, step) == Key(op, k) >= HostKey \/ Untouched(op, k, step)

\* A kernel the host does issue, or has issued.
Real(op, k) ==
    /\ op = "reset" => (k \in 1..Len(opens) => opens[k])
    /\ op = "snapshot" => k % Interval = 0

\* While a kernel is in flight, the later ones that conflict with it have not begun.
LaterToCome ==
    pc \notin FinalPc =>
        \A s \in Stream : \A p \in Unretired(s) :
            \A op \in AccumOps, k \in Batch :
                Conflict(OpAt(s, p), op) /\ KeyAt(s, p) < Key(op, k) /\ Real(op, k) =>
                    \A step \in Steps(op) : ToCome(op, k, step)

LEMMA HostKeepsDid ==
    ASSUME TypeInv, DidInv, Host
    PROVE  DidInv'
<1>1. UNCHANGED <<retired, did>>
  BY HostFrame
<1>2. InFlightKept
  <2>1. CASE QuietStep
    BY <2>1, QuietIssues
  <2>2. CASE WorkStep
    BY <2>2, WorkAppends DEF Appended
  <2> QED
    BY <2>1, <2>2, HostKinds DEF QuietStep
<1>3. ASSUME NEW s \in Stream, Busy(s)
      PROVE  Busy(s)' /\ HeadOf(s)' = HeadOf(s)
  <2>1. retired[s] + 1 \in Unretired(s)' /\ issued'[s][retired[s] + 1] = issued[s][retired[s] + 1]
    BY <1>2, <1>3, HeadInFlight DEF InFlightKept
  <2>2. TypeInv'
    BY NextType DEF Next
  <2>3. Busy(s)'
    <3>1. retired'[s] \in Nat /\ Len(issued'[s]) \in Nat /\ retired'[s] = retired[s]
      BY <1>1, <2>2 DEF TypeInv, TypeOK
    <3> QED
      BY <2>1, <3>1 DEF Busy, Unretired
  <2> QED
    BY <1>1, <2>1, <2>3 DEF HeadOf
<1> QED
  BY <1>1, <1>3 DEF DidInv

LEMMA UntouchedKept ==
    ASSUME TypeInv, Host, NEW op \in AccumOps, NEW k, NEW step, Untouched(op, k, step)
    PROVE  Untouched(op, k, step)'
<1>1. UNCHANGED <<retired, did>>
  BY HostFrame
<1>2. InFlightKept
  <2>1. CASE QuietStep
    BY <2>1, QuietIssues
  <2>2. CASE WorkStep
    BY <2>2, WorkAppends DEF Appended
  <2> QED
    BY <2>1, <2>2, HostKinds DEF QuietStep
<1> QED
  BY <1>1, <1>2 DEF Untouched, Touched, InFlightKept, OpAt, BatchAt

LEMMA QuietUntouched ==
    ASSUME TypeInv, QuietStep, NEW op \in AccumOps, NEW k, NEW step, Untouched(op, k, step)'
    PROVE  Untouched(op, k, step)
<1>1. UNCHANGED <<retired, did>>
  BY HostFrame, HostKinds DEF QuietStep
<1>2. op # "wait"
  BY DEF AccumOps, WholeArray
<1>3. PICK s \in Stream : \E p \in Unretired(s)' :
        OpAt(s, p)' = op /\ BatchAt(s, p)' = k /\ ~Touched(s, p, step)'
  BY DEF Untouched
<1>4. PICK p \in Unretired(s)' :
        OpAt(s, p)' = op /\ BatchAt(s, p)' = k /\ ~Touched(s, p, step)'
  BY <1>3
<1>5. p \in Unretired(s) /\ issued'[s][p] = issued[s][p]
  BY <1>2, <1>4, QuietSame DEF OpAt
<1> QED
  BY <1>1, <1>4, <1>5 DEF Untouched, Touched, OpAt, BatchAt

\* What is issued is a kernel of which no step has been taken, and nothing else is new.
LEMMA WorkUntouched ==
    ASSUME TypeInv, DidInv, WorkStep, NEW op \in AccumOps, NEW k, NEW step,
           NEW s \in Stream, NEW c \in Command, NEW n \in Nat, Appended(s, n, c)
    PROVE  /\ Untouched(op, k, step)' => Untouched(op, k, step) \/ (c.op = op /\ c.batch = k)
           /\ c.op = op /\ c.batch = k => Untouched(op, k, step)'
<1>1. UNCHANGED <<retired, did>>
  BY HostFrame, HostKinds
<1>2. Untouched(op, k, step)' => Untouched(op, k, step) \/ (c.op = op /\ c.batch = k)
  BY <1>1 DEF Appended, Untouched, Touched, OpAt, BatchAt
<1>3. n \in Unretired(s)' /\ issued'[s][n] = c
  BY DEF Appended
<1>4. ~Touched(s, n, step)'
  <2>1. ASSUME Touched(s, n, step)' PROVE FALSE
    <3>1. n = retired[s] + 1 /\ did[s] # {}
      BY <1>1, <2>1 DEF Touched
    <3>2. n \in Unretired(s)
      BY <3>1, HeadInFlight DEF DidInv
    <3> QED
      BY <3>2 DEF Appended
  <2> QED
    BY <2>1
<1> QED
  BY <1>2, <1>3, <1>4 DEF Untouched, OpAt, BatchAt

LEMMA KeyInjective ==
    ASSUME NEW op \in WorkOps, NEW other \in WorkOps, NEW k \in Nat, NEW j \in Nat,
           Key(op, k) = Key(other, j)
    PROVE  op = other /\ k = j
<1>1. Phase(op) \in 0..5 /\ Phase(other) \in 0..5
  BY DEF Phase
<1>2. k = j /\ Phase(op) = Phase(other)
  <2> HIDE DEF Phase
  <2> QED
    BY <1>1 DEF Key
<1> QED
  BY <1>2 DEF WorkOps, Phase

LEMMA KeyTypes ==
    ASSUME NEW op, NEW k \in Nat
    PROVE  Key(op, k) \in Nat /\ Phase(op) \in 0..5 /\ Key(op, k) = 6 * k + Phase(op)
BY DEF Key, Phase

\* The host passes over no kernel that is due.
LEMMA NoneSkipped ==
    ASSUME TypeInv, ProgramOrder, Host, pc' \notin FinalPc,
           NEW op \in AccumOps, NEW k \in Nat, Real(op, k)', Key(op, k) >= HostKey
    PROVE  Key(op, k) >= HostKey' \/ (Key(op, k) = HostKey /\ WorkStep)
<1>1. /\ Len(opens) \in Nat /\ batches \in Nat
      /\ Len(opens) = IF InBatch THEN batches + 1 ELSE batches
  BY DEF TypeInv, TypeOK, CountInv
<1>2. Key(op, k) = 6 * k + Phase(op) /\ Phase(op) \in {0, 3, 4}
  BY DEF Key, Phase, AccumOps, WholeArray
<1>3. /\ op = "reset" <=> Phase(op) = 0
      /\ op = "snapshot" <=> Phase(op) = 4
  BY DEF Phase, AccumOps, WholeArray
<1>4. CASE Fill
  <2>1. Len(opens') = Len(opens) + 1
    BY <1>4, QuietKeys DEF QuietStep, SilentStep
  <2>2. HostPhase = 6 /\ HostPhase' = 0
    BY <1>4 DEF Fill, HostPhase
  <2> QED
    BY <1>1, <2>1, <2>2 DEF HostKey
<1>5. CASE SilentStep /\ ~Fill
  <2>1. UNCHANGED opens
    BY <1>5 DEF SilentStep, Acquire, FeedEnds, Drain, PrintDrained, NextBatch, SyncStreams,
                PrintPending, FinalSync, FinalPrint
  <2>2. HostPhase' = HostPhase
    <3>1. CASE Acquire \/ FeedEnds \/ NextBatch
      BY <3>1 DEF Acquire, FeedEnds, NextBatch, HostPhase
    <3>2. CASE Drain \/ PrintDrained \/ SyncStreams
      BY <3>2 DEF Drain, PrintDrained, SyncStreams, HostPhase, FinalPc
    <3>3. CASE PrintPending \/ FinalSync \/ FinalPrint
      BY <3>3 DEF PrintPending, FinalSync, FinalPrint, FinalPc
    <3> QED
      BY <1>5, <3>1, <3>2, <3>3 DEF SilentStep
  <2> QED
    BY <2>1, <2>2 DEF HostKey
<1>6. CASE WaitBeforeReset \/ WaitBeforeSnapshot
  <2>1. UNCHANGED opens /\ HostPhase' = HostPhase
    BY <1>6 DEF WaitBeforeReset, WaitBeforeSnapshot, HostPhase
  <2> QED
    BY <2>1 DEF HostKey
<1>7. CASE WaitForBarrier
  <2>1. UNCHANGED opens /\ HostPhase = 0
        /\ HostPhase' = IF reset_vwap THEN 0 ELSE 1
    BY <1>7 DEF WaitForBarrier, HostPhase
  <2>2. Len(opens) >= 1 /\ reset_vwap = opens[Len(opens)]
    BY <1>7 DEF WaitForBarrier, ProgramOrder, StreamOfBatch, FlagsKnown, InLoop, InBatch
  <2>3. ASSUME Phase(op) = 0, k = Len(opens) PROVE reset_vwap
    BY <1>1, <1>3, <2>1, <2>2, <2>3 DEF Real
  <2> HIDE DEF Phase
  <2> QED
    BY <1>1, <1>2, <2>1, <2>3 DEF HostKey
<1>8. CASE Aggregate
  <2>1. UNCHANGED opens /\ HostPhase = 3 /\ Len(opens) = batches'
        /\ HostPhase' = IF batches' % Interval = 0 THEN 4 ELSE 6
    BY <1>1, <1>8 DEF Aggregate, HostPhase, InBatch
  <2>2. ASSUME Phase(op) = 4, k = Len(opens) PROVE batches' % Interval = 0
    BY <1>3, <2>1, <2>2 DEF Real
  <2> HIDE DEF Phase
  <2> QED
    BY <1>1, <1>2, <1>8, <2>1, <2>2 DEF HostKey, WorkStep
<1>9. CASE Reset \/ CopyIn \/ Decode \/ TakeSnapshot \/ CopyOut
  <2>1. UNCHANGED opens /\ HostPhase' = HostPhase + 1 /\ HostPhase \in Nat
    BY <1>9 DEF Reset, CopyIn, Decode, TakeSnapshot, CopyOut, HostPhase
  <2> HIDE DEF Phase
  <2> QED
    BY <1>1, <1>2, <1>9, <2>1 DEF HostKey, WorkStep
<1>10. CASE FinalSnapshot \/ FinalCopyOut
  BY <1>10 DEF FinalSnapshot, FinalCopyOut, FinalPc
<1> QED
  BY <1>4, <1>5, <1>6, <1>7, <1>8, <1>9, <1>10 DEF Host, SilentStep

\* The host's steps take no kernel's step.
LEMMA HostToCome ==
    ASSUME TypeInv, OrderInv, ProgramOrder, DidInv, Host, pc' \notin FinalPc,
           NEW op \in AccumOps, NEW k \in Nat, NEW step, Real(op, k)'
    PROVE  ToCome(op, k, step)' <=> ToCome(op, k, step)
<1>1. Key(op, k)' = Key(op, k) /\ Key(op, k) \in Nat /\ op \in WorkOps
  BY KeyTypes DEF Key, Phase, AccumOps, WholeArray, WorkOps
<1>2. HostKey \in Nat /\ HostKey' \in Nat
  BY NextType, HostKeyType DEF Next
<1>3. CASE QuietStep
  <2>1. HostKey' >= HostKey
    <3>1. CASE SyncStreams
      <4>1. HostPhase' = HostPhase /\ UNCHANGED opens
        BY <3>1 DEF SyncStreams, HostPhase, FinalPc
      <4> QED
        BY <1>2, <4>1 DEF HostKey
    <3>2. CASE PrintPending
      BY <3>2 DEF PrintPending, FinalPc
    <3> QED
      BY <1>3, <3>1, <3>2, QuietKeys
  <2>2. Untouched(op, k, step)' <=> Untouched(op, k, step)
    BY <1>3, QuietUntouched, UntouchedKept
  <2>3. Key(op, k) >= HostKey => Key(op, k) >= HostKey'
    <3>1. ~WorkStep \/ HostKey' = HostKey
      BY <1>3 DEF WorkStep, QuietStep, SilentStep, WaitStep, Acquire, Fill, FeedEnds, Drain,
           PrintDrained, NextBatch, SyncStreams, PrintPending, FinalSync, FinalPrint,
           WaitForBarrier, WaitBeforeReset, WaitBeforeSnapshot, Reset, CopyIn, Decode,
           Aggregate, TakeSnapshot, CopyOut, FinalSnapshot, FinalCopyOut
    <3> QED
      BY <3>1, NoneSkipped
  <2> QED
    BY <1>1, <1>2, <2>1, <2>2, <2>3 DEF ToCome
<1>4. CASE WorkStep
  <2>1. PICK s \in Stream, c \in Command, n \in Nat :
          /\ Appended(s, n, c) /\ c.op \in WorkOps
          /\ c.batch = Len(opens) /\ Key(c.op, c.batch) = HostKey
    BY <1>4, WorkAppends
  <2>2. /\ Untouched(op, k, step)' => Untouched(op, k, step) \/ (c.op = op /\ c.batch = k)
        /\ c.op = op /\ c.batch = k => Untouched(op, k, step)'
        /\ Untouched(op, k, step) => Untouched(op, k, step)'
    BY <1>4, <2>1, WorkUntouched, UntouchedKept
  <2>3. HostKey' > HostKey
    BY <1>4, WorkAdvances
  <2>4. Key(op, k) = HostKey <=> c.op = op /\ c.batch = k
    BY <1>1, <2>1, KeyInjective, HostKeyType
  <2>5. Key(op, k) >= HostKey => Key(op, k) >= HostKey' \/ Key(op, k) = HostKey
    BY NoneSkipped
  <2> QED
    BY <1>1, <1>2, <2>2, <2>3, <2>4, <2>5 DEF ToCome
<1> QED
  BY <1>3, <1>4, HostKinds DEF QuietStep

LEMMA RealKept ==
    ASSUME TypeInv, Host, NEW op, NEW k, Real(op, k)'
    PROVE  Real(op, k)
<1>1. CASE Fill
  <2>1. Len(opens') = Len(opens) + 1 /\ Len(opens) \in Nat
        /\ \A j \in 1..Len(opens) : opens'[j] = opens[j]
    BY <1>1, QuietKeys DEF QuietStep, SilentStep, TypeInv, TypeOK
  <2> QED
    BY <2>1 DEF Real
<1>2. CASE ~Fill
  <2>1. UNCHANGED opens
    BY <1>2, HostKinds, QuietKeys, WorkAdvances DEF QuietStep
  <2> QED
    BY <2>1 DEF Real
<1> QED
  BY <1>1, <1>2

LEMMA HostKeepsLater ==
    ASSUME TypeInv, OrderInv, ProgramOrder, DidInv, LaterToCome, Host
    PROVE  LaterToCome'
<1> SUFFICES ASSUME pc' \notin FinalPc, NEW s \in Stream, NEW p \in Unretired(s)',
                    NEW op \in AccumOps, NEW k \in Batch', Conflict(OpAt(s, p), op)',
                    KeyAt(s, p)' < Key(op, k)', Real(op, k)', NEW step \in Steps(op)'
             PROVE  ToCome(op, k, step)'
  BY DEF LaterToCome
<1>1. pc \notin FinalPc
  BY DEF Host, Acquire, Fill, FeedEnds, WaitForBarrier, WaitBeforeReset, Reset, CopyIn,
       Decode, Aggregate, WaitBeforeSnapshot, Drain, PrintDrained, TakeSnapshot, CopyOut,
       NextBatch, SyncStreams, PrintPending, FinalSnapshot, FinalCopyOut, FinalSync,
       FinalPrint, FinalPc
<1>2. k \in Batch /\ k \in Nat /\ Key(op, k)' = Key(op, k) /\ step \in Steps(op)
  BY DEF Batch, Key, Phase, Steps
<1>3. ToCome(op, k, step)' <=> ToCome(op, k, step)
  BY <1>2, HostToCome
<1>4. OpAt(s, p)' # "wait"
  BY DEF Conflict, AccumOps, WholeArray
<1>5. \/ /\ p \in Unretired(s) /\ OpAt(s, p)' = OpAt(s, p) /\ KeyAt(s, p)' = KeyAt(s, p)
      \/ KeyAt(s, p)' = HostKey
  <2>1. CASE QuietStep
    <3>1. p \in Unretired(s) /\ issued'[s][p] = issued[s][p]
      BY <1>4, <2>1, QuietSame DEF OpAt
    <3> QED
      BY <3>1 DEF OpAt, KeyAt, BatchAt
  <2>2. CASE WorkStep
    <3>1. PICK t \in Stream, c \in Command, n \in Nat :
            Appended(t, n, c) /\ Key(c.op, c.batch) = HostKey
      BY <2>2, WorkAppends
    <3>2. \/ p \in Unretired(s) /\ issued'[s][p] = issued[s][p]
          \/ issued'[s][p] = c
      BY <3>1 DEF Appended
    <3> QED
      BY <3>1, <3>2 DEF OpAt, KeyAt, BatchAt
  <2> QED
    BY <2>1, <2>2, HostKinds DEF QuietStep
<1>6. CASE p \in Unretired(s) /\ OpAt(s, p)' = OpAt(s, p) /\ KeyAt(s, p)' = KeyAt(s, p)
  <2>1. Conflict(OpAt(s, p), op) /\ KeyAt(s, p) < Key(op, k) /\ Real(op, k)
    BY <1>2, <1>6, RealKept DEF Conflict
  <2> QED
    BY <1>1, <1>2, <1>3, <1>6, <2>1 DEF LaterToCome
<1>7. CASE KeyAt(s, p)' = HostKey
  <2>1. Key(op, k) >= HostKey
    BY <1>2, <1>7, KeyTypes, HostKeyType
  <2> QED
    BY <1>3, <2>1 DEF ToCome
<1> QED
  BY <1>5, <1>6, <1>7

(***************************************************************************)
(* A step of a kernel is to come until it is taken.                        *)
(***************************************************************************)
LEMMA DeviceKeepsDid ==
    ASSUME TypeInv, DidInv, NEW x \in Stream, Device(x)
    PROVE  DidInv'
<1>1. UNCHANGED issued /\ Busy(x)
  BY DeviceInFlight, StreamSteps DEF hostSide, TypeInv
<1>2. did \in [Stream -> SUBSET ({"read", "write", "consume"} \X Cells)]
      /\ retired \in [Stream -> Nat]
  BY DEF TypeInv, TypeOK
<1>3. ASSUME NEW s \in Stream, s # x
      PROVE  did'[s] = did[s] /\ Busy(s)' = Busy(s) /\ HeadOf(s)' = HeadOf(s)
  <2>1. did'[s] = did[s] /\ retired'[s] = retired[s]
    BY <1>2, <1>3, DeviceKinds DEF KernelStep, Retire
  <2> QED
    BY <1>1, <2>1 DEF Busy, HeadOf
<1>4. CASE Retire(x)
  <2>1. did'[x] = {}
    BY <1>2, <1>4 DEF Retire
  <2> QED
    BY <1>3, <2>1 DEF DidInv
<1>5. CASE ~Retire(x)
  <2>1. PICK op \in AccumOps : \E step \in Steps(op) :
                /\ KernelStep(x, op, step)
                /\ \A c \in Cells : step = <<"consume", c>> => <<"read", c>> \in did[x]
    BY <1>5, DeviceKinds
  <2>2. PICK step \in Steps(op) :
                /\ KernelStep(x, op, step)
                /\ \A c \in Cells : step = <<"consume", c>> => <<"read", c>> \in did[x]
    BY <2>1
  <2>3. did'[x] = did[x] \cup {step} /\ UNCHANGED retired /\ HeadOf(x).op = op
    BY <1>2, <1>5, <2>2 DEF KernelStep, At
  <2>4. Busy(x)' /\ HeadOf(x)' = HeadOf(x)
    BY <1>1, <2>3 DEF Busy, HeadOf
  <2>5. \A c \in Cells : <<"consume", c>> \in did'[x] => <<"read", c>> \in did'[x]
    BY <2>2, <2>3 DEF DidInv
  <2> QED
    BY <1>3, <2>3, <2>4, <2>5 DEF DidInv
<1> QED
  BY <1>4, <1>5

LEMMA StepTaken ==
    ASSUME TypeInv, ProgramOrder, NEW x \in Stream, NEW op \in AccumOps, NEW step,
           KernelStep(x, op, step), UNCHANGED issued,
           NEW o \in AccumOps, NEW k, NEW st \in Steps(o)
    PROVE  Untouched(o, k, st)' <=>
             Untouched(o, k, st) /\ ~(o = op /\ k = HeadOf(x).batch /\ st = step)
<1>1. Busy(x) /\ HeadOf(x).op = op /\ (Retire(x) \/ ~Retire(x))
  BY DEF KernelStep, At
<1>2. PICK h \in Unretired(x) :
        /\ h = retired[x] + 1
        /\ OpAt(x, h) = op /\ BatchAt(x, h) = HeadOf(x).batch
  BY <1>1, HeadInFlight
<1>3. did \in [Stream -> SUBSET ({"read", "write", "consume"} \X Cells)]
      /\ retired \in [Stream -> Nat]
  BY DEF TypeInv, TypeOK
<1>4. \A s \in Stream : s # x =>
        /\ did'[s] = did[s] /\ retired'[s] = retired[s] /\ Unretired(s)' = Unretired(s)
  BY <1>3 DEF KernelStep, Retire, Unretired
<1>5. \/ /\ Steps(op) = did[x] \cup {step} /\ did'[x] = {}
         /\ Unretired(x)' = Unretired(x) \ {h}
      \/ /\ did'[x] = did[x] \cup {step} /\ UNCHANGED retired
         /\ Unretired(x)' = Unretired(x)
  <2>1. CASE Steps(op) = did[x] \cup {step}
    <3>1. Retire(x)
      BY <2>1 DEF KernelStep
    <3> QED
      BY <1>1, <1>2, <1>3, <2>1, <3>1, RetiredHead DEF Retire
  <2>2. CASE Steps(op) # did[x] \cup {step}
    BY <1>3, <2>2 DEF KernelStep, Unretired
  <2> QED
    BY <2>1, <2>2
<1>6. \A s \in Stream : \A p : OpAt(s, p)' = OpAt(s, p) /\ BatchAt(s, p)' = BatchAt(s, p)
  BY DEF OpAt, BatchAt
<1>7. o # "wait"
  BY DEF AccumOps, WholeArray
<1>8. ASSUME NEW s \in Stream, NEW p \in Unretired(s)', OpAt(s, p)' = o, BatchAt(s, p)' = k,
             ~Touched(s, p, st)'
      PROVE  /\ p \in Unretired(s) /\ ~Touched(s, p, st)
             /\ ~(o = op /\ k = HeadOf(x).batch /\ st = step)
  <2>1. p \in Unretired(s) /\ OpAt(s, p) = o /\ BatchAt(s, p) = k
    BY <1>4, <1>5, <1>6, <1>8
  <2>2. CASE s # x
    <3>1. ~Touched(s, p, st)
      BY <1>4, <1>8, <2>2 DEF Touched
    <3>2. ~(o = op /\ k = HeadOf(x).batch)
      BY <1>2, <1>7, <2>1, <2>2, UniquePlace
    <3> QED
      BY <2>1, <3>1, <3>2
  <2>3. CASE s = x /\ p = h
    <3>1. did'[x] = did[x] \cup {step} /\ UNCHANGED retired
      BY <1>5, <1>8, <2>3
    <3> QED
      BY <1>2, <1>8, <2>1, <2>3, <3>1 DEF Touched
  <2>4. CASE s = x /\ p # h
    <3>1. ~(o = op /\ k = HeadOf(x).batch)
      BY <1>2, <1>7, <2>1, <2>4, UniquePlace
    <3> QED
      BY <1>2, <2>1, <2>4, <3>1 DEF Touched
  <2> QED
    BY <2>2, <2>3, <2>4
<1>9. ASSUME NEW s \in Stream, NEW p \in Unretired(s), OpAt(s, p) = o, BatchAt(s, p) = k,
             ~Touched(s, p, st), ~(o = op /\ k = HeadOf(x).batch /\ st = step)
      PROVE  p \in Unretired(s)' /\ ~Touched(s, p, st)'
  <2>1. CASE s # x
    BY <1>4, <1>9, <2>1 DEF Touched
  <2>2. CASE s = x /\ p = h
    <3>1. st \in Steps(op) /\ st # step /\ st \notin did[x]
      BY <1>2, <1>9, <2>2 DEF Touched
    <3>2. did'[x] = did[x] \cup {step} /\ Unretired(x)' = Unretired(x)
      BY <1>5, <3>1
    <3> QED
      BY <1>9, <2>2, <3>1, <3>2 DEF Touched
  <2>3. CASE s = x /\ p # h
    BY <1>2, <1>5, <1>9, <2>3 DEF Touched
  <2> QED
    BY <2>1, <2>2, <2>3
<1> QED
  BY <1>6, <1>8, <1>9 DEF Untouched

LEMMA OtherRetired ==
    ASSUME TypeInv, DidInv, NEW x \in Stream, Busy(x), HeadOf(x).op \notin AccumOps, Retire(x),
           UNCHANGED issued, NEW o \in AccumOps, NEW k, NEW st
    PROVE  Untouched(o, k, st)' <=> Untouched(o, k, st)
<1>1. PICK h \in Unretired(x) :
        /\ h = retired[x] + 1 /\ OpAt(x, h) \notin AccumOps
  BY HeadInFlight
<1>2. /\ Unretired(x)' = Unretired(x) \ {h} /\ Unretired(1 - x)' = Unretired(1 - x)
      /\ retired'[1 - x] = retired[1 - x]
  BY <1>1, RetiredHead
<1>3. did'[x] = {} /\ did[x] = {} /\ did'[1 - x] = did[1 - x]
  BY OtherStreams DEF DidInv, Retire, TypeInv, TypeOK
<1>4. \A s \in Stream : \A p : OpAt(s, p)' = OpAt(s, p) /\ BatchAt(s, p)' = BatchAt(s, p)
  BY DEF OpAt, BatchAt
<1>5. \A s \in Stream : \A p : OpAt(s, p) = o =>
        /\ p \in Unretired(s)' <=> p \in Unretired(s)
        /\ Touched(s, p, st)' <=> Touched(s, p, st)
  <2> SUFFICES ASSUME NEW s \in Stream, NEW p, OpAt(s, p) = o
               PROVE  /\ p \in Unretired(s)' <=> p \in Unretired(s)
                      /\ Touched(s, p, st)' <=> Touched(s, p, st)
    OBVIOUS
  <2>1. CASE s = x
    BY <1>1, <1>2, <1>3, <2>1 DEF Touched
  <2>2. CASE s = 1 - x
    BY <1>2, <1>3, <2>2 DEF Touched
  <2> QED
    BY <2>1, <2>2, OtherStreams
<1> QED
  BY <1>4, <1>5 DEF Untouched

\* What a step of a stream does to what is to come.
LEMMA DeviceToCome ==
    ASSUME TypeInv, NEW x \in Stream, Device(x)
    PROVE  /\ UNCHANGED <<issued, opens, pc>> /\ HostKey' = HostKey
           /\ \A o, k, st : ToCome(o, k, st)' <=> Key(o, k) >= HostKey \/ Untouched(o, k, st)'
<1>1. UNCHANGED <<issued, opens, pc>>
  BY DeviceInFlight DEF hostSide
<1> QED
  BY <1>1 DEF ToCome, HostKey, HostPhase, Key, Phase

LEMMA DeviceKeepsLater ==
    ASSUME TypeInv, ProgramOrder, EarlierAwaited, DidInv, LaterToCome, NEW x \in Stream, Device(x)
    PROVE  LaterToCome'
<1>1. /\ UNCHANGED <<issued, opens, pc>> /\ HostKey' = HostKey
      /\ \A t \in Stream : Unretired(t)' \subseteq Unretired(t)
  BY DeviceInFlight, DeviceToCome
<1> SUFFICES ASSUME pc' \notin FinalPc, NEW s \in Stream, NEW p \in Unretired(s)',
                    NEW op \in AccumOps, NEW k \in Batch, Conflict(OpAt(s, p), op)',
                    KeyAt(s, p)' < Key(op, k)', Real(op, k)', NEW step \in Steps(op)
             PROVE  ToCome(op, k, step)'
  BY DEF LaterToCome, Batch, Steps
<1>2. /\ p \in Unretired(s) /\ Conflict(OpAt(s, p), op) /\ KeyAt(s, p) < Key(op, k)
      /\ Real(op, k) /\ pc \notin FinalPc
  BY <1>1 DEF Conflict, OpAt, KeyAt, BatchAt, Key, Phase, Real
<1>3. ToCome(op, k, step)
  BY <1>2 DEF LaterToCome
<1>4. Untouched(op, k, step) => Untouched(op, k, step)'
  <2>1. CASE Busy(x) /\ HeadOf(x).op \notin AccumOps /\ Retire(x)
    BY <1>1, <2>1, OtherRetired
  <2>2. ASSUME NEW o \in AccumOps, NEW st \in Steps(o), KernelStep(x, o, st)
        PROVE  Untouched(op, k, step) => Untouched(op, k, step)'
    <3>1. ~(op = o /\ k = HeadOf(x).batch)
      <4> SUFFICES ASSUME op = o, k = HeadOf(x).batch PROVE FALSE
        OBVIOUS
      <4>1. Busy(x) /\ HeadOf(x).op = op
        BY <2>2 DEF KernelStep, At
      <4>2. Conflict(HeadOf(x).op, OpAt(s, p))
        BY <1>2, <4>1 DEF Conflict
      <4>3. Key(op, k) <= KeyAt(s, p)
        BY <1>2, <4>1, <4>2, HeadFirst
      <4>4. Key(op, k) \in Nat /\ KeyAt(s, p) \in Nat
        BY <1>2, KeyTypes, InFlightTypes DEF Batch
      <4> QED
        BY <1>2, <4>3, <4>4
    <3> QED
      BY <1>1, <2>2, <3>1, StepTaken
  <2> QED
    BY <2>1, <2>2, DeviceKinds
<1> QED
  BY <1>1, <1>3, <1>4, DeviceToCome DEF ToCome

-----------------------------------------------------------------------------
(***************************************************************************)
(* Which snapshots have been taken.                                        *)
(***************************************************************************)
\* The number of periodic snapshots issued; all but at most one have been printed.
Taken ==
    IF pc = "snapshot" \/ (pending = Null /\ pc # "d2h") THEN Len(printed) ELSE Len(printed) + 1

\* The batch after which the last of them was taken.
Launched == Interval * Taken

Due == {"snap_wait", "drain", "print", "snapshot"}

IntervalInv ==
    /\ last_ts = batches
    /\ pc \notin FinalPc =>
         /\ pending = Null => Len(printed) = 0
         /\ pending # Null /\ pc # "d2h" => pending_ts = Launched
         /\ pc \in Due => batches = Launched + Interval
         /\ pc = "d2h" => batches = Launched
         /\ pc \notin Due => Launched <= batches /\ batches < Launched + Interval
    /\ pc \in FinalPc \ {"done"} =>
         Interval * Len(printed) <= batches /\ batches < Interval * (Len(printed) + 1)

SnapBatch ==
    pc \notin FinalPc =>
        \A s \in Stream : \A p \in Unretired(s) :
            /\ OpAt(s, p) \in SnapOps => BatchAt(s, p) = Launched
            /\ OpAt(s, p) = "d2h" => pc # "d2h" /\ issued[s][p].dst = pending

LEMMA IntervalTypes ==
    ASSUME TypeInv
    PROVE  /\ batches \in Nat /\ last_ts \in Nat /\ pending_ts \in Nat
           /\ Len(printed) \in Nat /\ Taken \in Nat
           /\ Launched \in Nat /\ Launched = Interval * Taken
           /\ Launched % Interval = 0
           /\ Interval * (Len(printed) + 1) = Interval * Len(printed) + Interval
           /\ Interval * (Taken + 1) = Launched + Interval
<1>1. batches \in Nat /\ last_ts \in Nat /\ pending_ts \in Nat /\ Len(printed) \in Nat
  BY DEF TypeInv, TypeOK
<1>2. Taken \in Nat
  BY <1>1 DEF Taken
<1>3. \A q \in Nat : /\ Interval * q \in Nat /\ (Interval * q) % Interval = 0
                     /\ Interval * (q + 1) = Interval * q + Interval
  OBVIOUS
<1> QED
  BY <1>1, <1>2, <1>3 DEF Launched

\* Only the launch of a snapshot makes it one more.
LEMMA HostLaunched ==
    ASSUME TypeInv, Host, pc' \notin FinalPc
    PROVE  /\ TakeSnapshot => Taken' = Taken + 1
           /\ ~TakeSnapshot => Taken' = Taken
           /\ pc \notin FinalPc
<1>1. pc \notin FinalPc
  BY DEF Host, Acquire, Fill, FeedEnds, WaitForBarrier, WaitBeforeReset, Reset, CopyIn,
       Decode, Aggregate, WaitBeforeSnapshot, Drain, PrintDrained, TakeSnapshot, CopyOut,
       NextBatch, SyncStreams, PrintPending, FinalSnapshot, FinalCopyOut, FinalSync,
       FinalPrint, FinalPc
<1>2. Len(printed) \in Nat
  BY IntervalTypes
<1>3. CASE TakeSnapshot
  BY <1>1, <1>2, <1>3 DEF TakeSnapshot, Taken
<1>4. CASE CopyOut
  <2>1. pending' # Null
    BY <1>4 DEF CopyOut, TypeInv, TypeOK, Null
  <2> QED
    BY <1>1, <1>2, <1>4, <2>1 DEF CopyOut, TakeSnapshot, Taken
<1>5. CASE Drain
  BY <1>1, <1>2, <1>5 DEF Drain, TakeSnapshot, Taken
<1>6. CASE PrintDrained
  <2>1. pending # Null /\ UNCHANGED pending /\ pc = "print" /\ pc' = "snapshot"
    BY <1>6 DEF PrintDrained, TypeInv, CountInv
  <2>2. Len(printed') = Len(printed) + 1
    <3>1. printed \in Seq(PrintedRow)
      BY DEF TypeInv, TypeOK
    <3> QED
      BY <1>6, <3>1 DEF PrintDrained, PrintRow
  <2> QED
    BY <1>1, <1>2, <2>1, <2>2 DEF TakeSnapshot, Taken
<1>7. CASE ~(TakeSnapshot \/ CopyOut \/ Drain \/ PrintDrained)
  <2>1. UNCHANGED <<pending, printed>>
        /\ pc \notin {"snapshot", "d2h"} /\ pc' \notin {"snapshot", "d2h"}
    BY <1>1, <1>7 DEF Host, Acquire, Fill, FeedEnds, WaitForBarrier, WaitBeforeReset, Reset, CopyIn,
       Decode, Aggregate, WaitBeforeSnapshot, NextBatch, SyncStreams, PrintPending,
       FinalSnapshot, FinalCopyOut, FinalSync, FinalPrint, FinalPc
  <2> QED
    BY <1>1, <1>7, <2>1 DEF Taken
<1> QED
  BY <1>1, <1>3, <1>4, <1>5, <1>6, <1>7

LEMMA NextDue ==
    ASSUME NEW q \in Nat, NEW b \in Nat, Interval * q <= b, b < Interval * q + Interval
    PROVE  (b + 1) % Interval = 0 <=> b + 1 = Interval * q + Interval
<1> DEFINE r == b - Interval * q
<1>1. r \in 0..Interval-1 /\ b = Interval * q + r
  OBVIOUS
<1>2. (Interval * q + r + 1) % Interval = 0 <=> r = Interval - 1
  <2> HIDE DEF r
  <2> QED BY <1>1
<1> QED
  BY <1>1, <1>2

LEMMA HostKeepsInterval ==
    ASSUME TypeInv, IntervalInv, Host
    PROVE  IntervalInv'
<1>1. /\ batches \in Nat /\ Len(printed) \in Nat /\ Taken \in Nat
      /\ Launched \in Nat /\ Launched = Interval * Taken
      /\ Interval * (Len(printed) + 1) = Interval * Len(printed) + Interval
      /\ Interval * (Taken + 1) = Launched + Interval
      /\ Launched' = Interval * Taken'
  BY IntervalTypes DEF Launched
<1>2. CASE Aggregate
  <2>1. /\ batches' = batches + 1 /\ last_ts' = batches + 1
        /\ UNCHANGED <<printed, pending, pending_ts>>
        /\ pc = "aggregate"
        /\ pc' = IF (batches + 1) % Interval = 0 THEN "snap_wait" ELSE "next_batch"
    BY <1>2 DEF Aggregate
  <2>2. Launched' = Launched
    BY <1>1, <1>2, <2>1, HostLaunched DEF FinalPc, Aggregate, TakeSnapshot
  <2>3. Launched <= batches /\ batches < Launched + Interval
        /\ (pending = Null => Len(printed) = 0) /\ (pending # Null => pending_ts = Launched)
    BY <2>1 DEF IntervalInv, FinalPc, Due
  <2>4. (batches + 1) % Interval = 0 <=> batches + 1 = Launched + Interval
    BY <1>1, <2>3, NextDue
  <2> QED
    BY <1>1, <2>1, <2>2, <2>3, <2>4 DEF IntervalInv, FinalPc, Due
<1>3. CASE TakeSnapshot
  <2>1. /\ UNCHANGED <<printed, pending, pending_ts, batches, last_ts>>
        /\ pc = "snapshot" /\ pc' = "d2h"
    BY <1>3 DEF TakeSnapshot
  <2>2. Launched' = Launched + Interval
    BY <1>1, <1>3, <2>1, HostLaunched DEF FinalPc
  <2> QED
    BY <1>1, <2>1, <2>2 DEF IntervalInv, FinalPc, Due
<1>4. CASE CopyOut
  <2>1. /\ UNCHANGED <<printed, batches, last_ts>> /\ pc = "d2h" /\ pc' = "next_batch"
        /\ pending' # Null /\ pending_ts' = last_ts
    BY <1>4 DEF CopyOut, TypeInv, TypeOK, Null
  <2>2. Launched' = Launched
    BY <1>1, <1>4, <2>1, HostLaunched DEF FinalPc, TakeSnapshot
  <2> QED
    BY <1>1, <2>1, <2>2 DEF IntervalInv, FinalPc, Due
<1>5. CASE PrintDrained \/ PrintPending
  <2>1. /\ UNCHANGED <<pending, batches, last_ts, pending_ts>> /\ pending # Null
        /\ pc \in {"print", "print_pending"}
        /\ pc = "print" <=> PrintDrained
        /\ pc' = IF pc = "print" THEN "snapshot" ELSE "final_snapshot"
    BY <1>5 DEF PrintDrained, PrintPending, TypeInv, CountInv
  <2>2. Len(printed') = Len(printed) + 1
    <3>1. printed \in Seq(PrintedRow)
      BY DEF TypeInv, TypeOK
    <3> QED
      BY <1>5, <3>1 DEF PrintDrained, PrintPending, PrintRow
  <2>3. CASE pc = "print"
    <3>1. Launched' = Launched
      BY <1>1, <2>1, <2>3, HostLaunched DEF FinalPc, TakeSnapshot
    <3> QED
      BY <2>1, <2>3, <3>1 DEF IntervalInv, FinalPc, Due
  <2>4. CASE pc = "print_pending"
    <3>1. Launched = Interval * (Len(printed) + 1)
      BY <1>1, <2>1, <2>4 DEF Launched, Taken
    <3>2. Interval * (Len(printed') + 1) = Launched + Interval
      BY <1>1, <2>2, <3>1
    <3> QED
      BY <2>1, <2>2, <2>4, <3>1, <3>2 DEF IntervalInv, FinalPc, Due
  <2> QED
    BY <2>1, <2>3, <2>4
<1>6. CASE SyncStreams
  <2>1. /\ UNCHANGED <<pending, batches, last_ts, pending_ts, printed>> /\ pc = "sync"
        /\ pc' = IF pending # Null THEN "print_pending" ELSE "final_snapshot"
    BY <1>6 DEF SyncStreams
  <2>2. CASE pending # Null
    <3>1. Launched' = Launched
      BY <1>1, <2>1, <2>2, HostLaunched DEF FinalPc, TakeSnapshot
    <3> QED
      BY <2>1, <2>2, <3>1 DEF IntervalInv, FinalPc, Due
  <2>3. CASE pending = Null
    <3>1. Launched = Interval * Len(printed)
      BY <1>1, <2>1, <2>3 DEF Launched, Taken
    <3> QED
      BY <1>1, <2>1, <2>3, <3>1 DEF IntervalInv, FinalPc, Due
  <2> QED
    BY <2>2, <2>3
<1>7. CASE FinalSnapshot \/ FinalCopyOut \/ FinalSync \/ FinalPrint
  BY <1>7 DEF FinalSnapshot, FinalCopyOut, FinalSync, FinalPrint, IntervalInv, FinalPc
<1>8. CASE \/ Acquire \/ Fill \/ FeedEnds \/ WaitForBarrier \/ WaitBeforeReset \/ Reset
           \/ CopyIn \/ Decode \/ WaitBeforeSnapshot \/ Drain \/ NextBatch
  <2>1. /\ UNCHANGED <<pending, batches, last_ts, pending_ts, printed>>
        /\ pc \notin FinalPc \cup {"d2h"} /\ pc' \notin FinalPc \cup {"d2h"}
        /\ pc \in Due <=> pc' \in Due
        /\ ~TakeSnapshot
    <3>1. CASE \/ Acquire \/ Fill \/ FeedEnds \/ WaitForBarrier \/ WaitBeforeReset \/ Reset
      BY <3>1 DEF Acquire, Fill, FeedEnds, WaitForBarrier, WaitBeforeReset, Reset, FinalPc, Due,
                  TakeSnapshot
    <3>2. CASE CopyIn \/ Decode \/ WaitBeforeSnapshot \/ Drain \/ NextBatch
      BY <3>2 DEF CopyIn, Decode, WaitBeforeSnapshot, Drain, NextBatch, FinalPc, Due,
                  TakeSnapshot
    <3> QED
      BY <1>8, <3>1, <3>2
  <2>2. Launched' = Launched
    BY <1>1, <2>1, HostLaunched
  <2> QED
    BY <2>1, <2>2 DEF IntervalInv, FinalPc
<1> QED
  BY <1>2, <1>3, <1>4, <1>5, <1>6, <1>7, <1>8 DEF Host

\* The commands of snapshots in flight are of the last one.
LEMMA HostKeepsSnapBatch ==
    ASSUME TypeInv, SnapshotsInTurn, IntervalInv, SnapBatch, Host
    PROVE  SnapBatch'
<1> SUFFICES ASSUME pc' \notin FinalPc, NEW s \in Stream, NEW p \in Unretired(s)',
                    OpAt(s, p)' \in SnapOps
             PROVE  /\ BatchAt(s, p)' = Launched'
                    /\ OpAt(s, p)' = "d2h" => pc' # "d2h" /\ issued'[s][p].dst = pending'
  BY DEF SnapBatch, SnapOps
<1>1. /\ pc \notin FinalPc
      /\ TakeSnapshot => Taken' = Taken + 1
      /\ ~TakeSnapshot => Taken' = Taken
  BY HostLaunched
<1>2. /\ ~TakeSnapshot => Launched' = Launched
      /\ TakeSnapshot => Launched' = Launched + Interval
  BY <1>1, IntervalTypes DEF Launched
<1> DEFINE Old == p \in Unretired(s) /\ issued'[s][p] = issued[s][p]
<1>3. Old => /\ OpAt(s, p) \in SnapOps /\ OpAt(s, p)' = OpAt(s, p)
             /\ BatchAt(s, p)' = BatchAt(s, p) /\ BatchAt(s, p) = Launched
             /\ OpAt(s, p) = "d2h" => pc # "d2h" /\ issued[s][p].dst = pending
  BY <1>1 DEF SnapBatch, OpAt, BatchAt
<1>4. Len(opens) = IF InBatch THEN batches + 1 ELSE batches
  BY DEF TypeInv, CountInv
<1>5. CASE QuietStep
  <2>1. Old
    BY <1>5, QuietSame DEF OpAt, SnapOps
  <2>2. ~TakeSnapshot /\ pc' # "d2h" /\ pending' = pending
    BY <1>5 DEF QuietStep, SilentStep, WaitStep, Acquire, Fill, FeedEnds, Drain, PrintDrained,
         NextBatch, SyncStreams, PrintPending, FinalSync, FinalPrint, WaitForBarrier,
         WaitBeforeReset, WaitBeforeSnapshot, TakeSnapshot
  <2> QED
    BY <1>2, <1>3, <2>1, <2>2
<1>6. CASE WorkStep
  <2>1. PICK t \in Stream, c \in Command, n \in Nat :
             /\ Appended(t, n, c) /\ c.op \in WorkOps /\ c.batch = Len(opens)
             /\ Reset => c.op = "reset"
             /\ CopyIn => c.op = "h2d" /\ c.slot = slot
             /\ Decode => c.op = "decode" /\ c.slot = slot
             /\ Aggregate => c.op = "aggregate" /\ c.slot = slot
             /\ TakeSnapshot \/ FinalSnapshot => c.op = "snapshot"
             /\ CopyOut \/ FinalCopyOut => c.op = "d2h"
             /\ CopyOut => c.dst = bi
    BY <1>6, WorkAppends
  <2>2. \/ Old
        \/ issued'[s][p] = c /\ OpAt(s, p)' = c.op /\ BatchAt(s, p)' = Len(opens)
    BY <2>1 DEF Appended, OpAt, BatchAt
  <2>3. CASE Reset \/ CopyIn \/ Decode \/ Aggregate
    <3>1. Old
      BY <2>1, <2>2, <2>3 DEF SnapOps
    <3>2. ~TakeSnapshot /\ pc' # "d2h" /\ pending' = pending
      BY <2>3 DEF Reset, CopyIn, Decode, Aggregate, TakeSnapshot
    <3> QED
      BY <1>2, <1>3, <3>1, <3>2
  <2>4. CASE TakeSnapshot
    <3>1. pc = "snapshot" /\ pc' = "d2h"
      BY <2>4 DEF TakeSnapshot
    <3>2. ~Old
      BY <1>3, <3>1 DEF SnapshotsInTurn, IsSnap, OpAt
    <3>3. Len(opens) = batches /\ batches = Launched + Interval
      BY <1>1, <1>4, <3>1 DEF InBatch, IntervalInv, Due
    <3> QED
      BY <1>2, <2>1, <2>2, <2>4, <3>2, <3>3
  <2>5. CASE CopyOut
    <3>1. pc = "d2h" /\ pc' = "next_batch" /\ pending' = bi /\ ~TakeSnapshot
      BY <2>5 DEF CopyOut, TakeSnapshot
    <3>2. Len(opens) = batches /\ batches = Launched
      BY <1>1, <1>4, <3>1 DEF InBatch, IntervalInv
    <3> QED
      BY <1>2, <1>3, <2>1, <2>2, <2>5, <3>1, <3>2
  <2>6. CASE FinalSnapshot \/ FinalCopyOut
    BY <2>6 DEF FinalSnapshot, FinalCopyOut, FinalPc
  <2> QED
    BY <1>6, <2>3, <2>4, <2>5, <2>6 DEF WorkStep
<1> QED
  BY <1>5, <1>6, HostKinds DEF QuietStep

\* The streams do not change which snapshots were taken.
LEMMA DeviceSnapshots ==
    ASSUME TypeInv, NEW x \in Stream, Device(x)
    PROVE  /\ Taken' = Taken /\ Launched' = Launched
           /\ IntervalInv => IntervalInv'
           /\ SnapBatch => SnapBatch'
<1>1. /\ UNCHANGED <<pc, pending, pending_ts, printed, batches, last_ts, issued>>
      /\ \A t \in Stream : Unretired(t)' \subseteq Unretired(t)
  BY DeviceInFlight DEF hostSide
<1>2. Taken' = Taken /\ Launched' = Launched
  BY <1>1 DEF Taken, Launched
<1>3. IntervalInv => IntervalInv'
  BY <1>1, <1>2 DEF IntervalInv
<1>4. SnapBatch => SnapBatch'
  BY <1>1, <1>2 DEF SnapBatch, OpAt, BatchAt
<1> QED
  BY <1>2, <1>3, <1>4

-----------------------------------------------------------------------------
(***************************************************************************)
(* The accumulators.  A cell counts a batch unless its aggregation is      *)
(* still to come, or a later market open has reset the cell, or the cell   *)
(* is a window's and was consumed since.                                   *)
(***************************************************************************)
ResetSince(b, c) ==
    \E k \in b+1..Len(opens) : opens[k] /\ ~ToCome("reset", k, <<"write", c>>)

\* The batch after which window cell c was last consumed.
Consumed(c) ==
    IF Untouched("snapshot", Launched, <<"consume", c>>) THEN Launched - Interval ELSE Launched

Counted(c, b) ==
    /\ ~ToCome("aggregate", b, <<"write", c>>)
    /\ ~ResetSince(b, c)
    /\ c \in WindowCells => b > Consumed(c)

AccumInv ==
    pc \notin FinalPc =>
        \A c \in Cells, b \in Batch : acc[c][b] = IF Counted(c, b) THEN 1 ELSE 0

\* The host launches the periodic snapshots one by one.
LEMMA HostSnapshots ==
    ASSUME TypeInv, DidInv, Host, pc' \notin FinalPc, NEW k, NEW st
    PROVE  /\ ~TakeSnapshot => (Untouched("snapshot", k, st)' <=> Untouched("snapshot", k, st))
           /\ TakeSnapshot /\ k = Len(opens) => Untouched("snapshot", k, st)'
<1>1. pc \notin FinalPc
  BY HostLaunched
<1>2. "snapshot" \in AccumOps
  BY DEF AccumOps, WholeArray
<1>3. CASE QuietStep
  <2>1. ~TakeSnapshot
    BY <1>3 DEF TakeSnapshot, QuietStep, SilentStep, WaitStep, Acquire, Fill, FeedEnds, Drain,
         PrintDrained, NextBatch, SyncStreams, PrintPending, FinalSync, FinalPrint,
         WaitForBarrier, WaitBeforeReset, WaitBeforeSnapshot
  <2> QED
    BY <1>2, <1>3, <2>1, QuietUntouched, UntouchedKept
<1>4. CASE WorkStep
  <2>1. PICK s \in Stream, d \in Command, n \in Nat :
           /\ Appended(s, n, d) /\ d.batch = Len(opens)
           /\ Reset => d.op = "reset"
           /\ CopyIn => d.op = "h2d"
           /\ Decode => d.op = "decode"
           /\ Aggregate => d.op = "aggregate"
           /\ TakeSnapshot \/ FinalSnapshot => d.op = "snapshot"
           /\ CopyOut \/ FinalCopyOut => d.op = "d2h"
    BY <1>4, WorkAppends
  <2>2. ~FinalSnapshot
    BY <1>1 DEF FinalSnapshot, FinalPc
  <2>3. ~TakeSnapshot => d.op # "snapshot"
    BY <1>4, <2>1, <2>2 DEF WorkStep
  <2>4. /\ Untouched("snapshot", k, st)' =>
             Untouched("snapshot", k, st) \/ (d.op = "snapshot" /\ d.batch = k)
        /\ d.op = "snapshot" /\ d.batch = k => Untouched("snapshot", k, st)'
    BY <1>2, <1>4, <2>1, WorkUntouched
  <2>5. Untouched("snapshot", k, st) => Untouched("snapshot", k, st)'
    BY <1>2, <1>4, <2>1, UntouchedKept
  <2> QED
    BY <2>1, <2>3, <2>4, <2>5
<1> QED
  BY <1>3, <1>4, HostKinds DEF QuietStep

\* The host counts and consumes nothing.
LEMMA HostKeepsAccum ==
    ASSUME TypeInv, OrderInv, ProgramOrder, DidInv, SnapshotsInTurn, IntervalInv, AccumInv, Host
    PROVE  AccumInv'
<1> SUFFICES ASSUME pc' \notin FinalPc, NEW c \in Cells, NEW b \in Batch
             PROVE  acc'[c][b] = IF Counted(c, b)' THEN 1 ELSE 0
  BY DEF AccumInv, Batch
<1>1. /\ pc \notin FinalPc
      /\ TakeSnapshot => Taken' = Taken + 1
      /\ ~TakeSnapshot => Taken' = Taken
  BY HostLaunched
<1>2. /\ ~TakeSnapshot => Launched' = Launched
      /\ TakeSnapshot => Launched' = Launched + Interval
      /\ Launched \in Nat /\ b \in Nat /\ Len(opens) \in Nat
  BY <1>1, IntervalTypes, HostKeyType DEF Launched, Batch
<1>3. acc' = acc
  BY HostFrame
<1>4. ToCome("aggregate", b, <<"write", c>>)' <=> ToCome("aggregate", b, <<"write", c>>)
  BY <1>2, HostToCome DEF AccumOps, Real
<1>5. ResetSince(b, c)' <=> ResetSince(b, c)
  <2>1. ASSUME NEW k \in Nat, k >= 1, k <= Len(opens)
        PROVE  k <= Len(opens') /\ opens'[k] = opens[k]
    <3>1. CASE Fill
      BY <1>2, <2>1, <3>1, QuietKeys DEF QuietStep, SilentStep
    <3>2. CASE ~Fill
      BY <2>1, <3>2, HostKinds, QuietKeys, WorkAdvances DEF QuietStep
    <3> QED
      BY <3>1, <3>2
  <2>2. ASSUME NEW k \in Nat, k > Len(opens), k <= Len(opens')
        PROVE  ToCome("reset", k, <<"write", c>>)'
    <3>1. CASE Fill
      <4>1. Len(opens') = Len(opens) + 1
        BY <3>1, QuietKeys DEF QuietStep, SilentStep
      <4>2. HostPhase' = 0
        BY <3>1 DEF Fill, HostPhase
      <4>3. Key("reset", k)' >= HostKey'
        BY <1>2, <2>2, <4>1, <4>2 DEF HostKey, Key, Phase
      <4> QED
        BY <4>3 DEF ToCome
    <3>2. CASE ~Fill
      <4>1. UNCHANGED opens
        BY <3>2, HostKinds, QuietKeys, WorkAdvances DEF QuietStep
      <4> QED
        BY <1>2, <2>2, <4>1
    <3> QED
      BY <3>1, <3>2
  <2>3. ASSUME NEW k \in Nat, opens'[k]
        PROVE  ToCome("reset", k, <<"write", c>>)' <=> ToCome("reset", k, <<"write", c>>)
    BY <2>3, HostToCome DEF AccumOps, WholeArray, Real
  <2>4. Len(opens') \in Nat
    BY NextType, HostKeyType DEF Next
  <2>5. ASSUME ResetSince(b, c)' PROVE ResetSince(b, c)
    <3>1. PICK k \in b+1..Len(opens') : opens'[k] /\ ~ToCome("reset", k, <<"write", c>>)'
      BY <2>5 DEF ResetSince
    <3>2. k \in Nat /\ k >= 1 /\ k <= Len(opens)
      BY <1>2, <2>2, <2>4, <3>1
    <3>3. k \in b+1..Len(opens) /\ opens[k] /\ ~ToCome("reset", k, <<"write", c>>)
      BY <1>2, <2>1, <2>3, <3>1, <3>2
    <3> QED
      BY <3>3 DEF ResetSince
  <2>6. ASSUME ResetSince(b, c) PROVE ResetSince(b, c)'
    <3>1. PICK k \in b+1..Len(opens) : opens[k] /\ ~ToCome("reset", k, <<"write", c>>)
      BY <2>6 DEF ResetSince
    <3>2. k \in Nat /\ k >= 1 /\ k <= Len(opens)
      BY <1>2, <3>1
    <3>3. k \in b+1..Len(opens') /\ opens'[k] /\ ~ToCome("reset", k, <<"write", c>>)'
      BY <1>2, <2>1, <2>3, <2>4, <3>1, <3>2
    <3> QED
      BY <3>3 DEF ResetSince
  <2> QED
    BY <2>5, <2>6
<1>6. Consumed(c)' = Consumed(c)
  <2>1. CASE ~TakeSnapshot
    <3>1. \A k : Untouched("snapshot", k, <<"consume", c>>)' <=>
                Untouched("snapshot", k, <<"consume", c>>)
      BY <2>1, HostSnapshots
    <3> QED
      BY <1>2, <2>1, <3>1 DEF Consumed
  <2>2. CASE TakeSnapshot
    <3>1. pc = "snapshot"
      BY <2>2 DEF TakeSnapshot
    <3>2. ~Untouched("snapshot", Launched, <<"consume", c>>)
      BY <3>1 DEF Untouched, SnapshotsInTurn, IsSnap, SnapOps, OpAt
    <3>3. PICK n : n = Len(opens)
      OBVIOUS
    <3>4. n = Launched'
      BY <1>1, <1>2, <2>2, <3>1, <3>3 DEF TypeInv, CountInv, InBatch, IntervalInv, Due
    <3>5. Untouched("snapshot", n, <<"consume", c>>)'
      BY <2>2, <3>3, HostSnapshots
    <3>6. Consumed(c)' = Launched' - Interval
      BY <3>4, <3>5 DEF Consumed
    <3>7. Consumed(c) = Launched
      BY <3>2 DEF Consumed
    <3> QED
      BY <1>2, <2>2, <3>6, <3>7
  <2> QED
    BY <2>1, <2>2
<1>7. Counted(c, b)' <=> Counted(c, b)
  BY <1>4, <1>5, <1>6 DEF Counted
<1> QED
  BY <1>1, <1>3, <1>7 DEF AccumInv

(***************************************************************************)
(* The step a kernel takes is no longer to come; every other is as before. *)
(***************************************************************************)
LEMMA KernelTakes ==
    ASSUME TypeInv, ProgramOrder, NEW x \in Stream, Device(x),
           NEW op \in AccumOps, NEW step \in Steps(op), KernelStep(x, op, step),
           NEW k, k = HeadOf(x).batch
    PROVE  /\ HeadOf(x).op = op /\ k \in Nat /\ k <= Len(opens) /\ Key(op, k) < HostKey
           /\ Untouched(op, k, step) /\ ~ToCome(op, k, step)' /\ ~Untouched(op, k, step)'
           /\ \A o \in AccumOps : \A j : \A st \in Steps(o) :
                ~(o = op /\ j = k /\ st = step) =>
                    /\ Untouched(o, j, st)' <=> Untouched(o, j, st)
                    /\ ToCome(o, j, st)' <=> ToCome(o, j, st)
<1>1. Busy(x) /\ HeadOf(x).op = op /\ step \notin did[x]
  BY DEF KernelStep, At
<1>2. PICK h \in Unretired(x) :
        /\ h = retired[x] + 1 /\ OpAt(x, h) = op /\ BatchAt(x, h) = k
  BY <1>1, HeadInFlight
<1>3. op # "wait"
  BY DEF AccumOps, WholeArray
<1>4. k \in Nat /\ Key(op, k) < HostKey
  BY <1>2, <1>3, InFlightTypes DEF ProgramOrder, KeysBelowHost, KeyAt
<1>5. k <= Len(opens)
  BY <1>2, <1>3, BatchBound
<1>6. Untouched(op, k, step)
  BY <1>1, <1>2 DEF Untouched, Touched
<1>7. UNCHANGED issued /\ HostKey' = HostKey
      /\ \A o, j, st : ToCome(o, j, st)' <=> Key(o, j) >= HostKey \/ Untouched(o, j, st)'
  BY DeviceToCome
<1>8. ~Untouched(op, k, step)'
  BY <1>7, StepTaken
<1>9. ~ToCome(op, k, step)'
  <2>1. ~(Key(op, k) >= HostKey)
    BY <1>4, KeyTypes, HostKeyType
  <2> QED
    BY <1>7, <1>8, <2>1
<1>10. ASSUME NEW o \in AccumOps, NEW j, NEW st \in Steps(o),
              ~(o = op /\ j = k /\ st = step)
       PROVE  /\ Untouched(o, j, st)' <=> Untouched(o, j, st)
              /\ ToCome(o, j, st)' <=> ToCome(o, j, st)
  <2>1. Untouched(o, j, st)' <=> Untouched(o, j, st)
    BY <1>7, <1>10, StepTaken
  <2> QED
    BY <1>7, <2>1 DEF ToCome
<1> QED
  BY <1>1, <1>4, <1>5, <1>6, <1>8, <1>9, <1>10

\* The steps that concern a cell.
LEMMA CellSteps ==
    /\ "aggregate" \in AccumOps /\ "reset" \in AccumOps /\ "snapshot" \in AccumOps
    /\ \A c \in Cells : /\ <<"write", c>> \in Steps("aggregate")
                        /\ <<"write", c>> \in Steps("reset")
                        /\ <<"read", c>> \in Steps("snapshot")
    /\ \A c \in WindowCells : <<"consume", c>> \in Steps("snapshot")
    /\ WindowCells \subseteq Cells
BY DEF AccumOps, WholeArray, Steps, Cells

\* The snapshot last launched is behind the host.
LEMMA LaunchedBehind ==
    ASSUME TypeInv, IntervalInv, pc \notin FinalPc, Launched >= 1
    PROVE  /\ Launched \in Batch /\ Launched <= Len(opens)
           /\ Key("snapshot", Launched) < HostKey
           /\ Real("snapshot", Launched)
           /\ \A k \in Nat : k <= Launched => Key("snapshot", k) < HostKey
<1>1. /\ batches \in 0..MaxBatches /\ Launched \in Nat /\ Launched % Interval = 0
      /\ Len(opens) \in Nat /\ Len(opens) = IF InBatch THEN batches + 1 ELSE batches
  BY IntervalTypes DEF TypeInv, TypeOK, CountInv
<1>2. Launched <= batches /\ (pc \in Due => Launched < batches)
  BY <1>1 DEF IntervalInv, Due
<1>3. Launched < Len(opens) \/ (Launched = Len(opens) /\ ~InBatch /\ pc \notin Due)
  BY <1>1, <1>2
<1>4. HostPhase \in Nat /\ (~InBatch /\ pc \notin Due => HostPhase >= 5)
  BY DEF HostPhase, InBatch, Due, FinalPc
<1>5. ASSUME NEW k \in Nat, k <= Launched PROVE Key("snapshot", k) < HostKey
  <2>1. Key("snapshot", k) = 6 * k + 4
    BY DEF Key, Phase
  <2> QED
    BY <1>1, <1>3, <1>4, <1>5, <2>1 DEF HostKey
<1> QED
  BY <1>1, <1>2, <1>5 DEF Batch, Real

LEMMA CountedSame ==
    ASSUME UNCHANGED opens, Launched' = Launched, NEW c \in Cells, NEW b,
           ToCome("aggregate", b, <<"write", c>>)' <=> ToCome("aggregate", b, <<"write", c>>),
           \A k : ToCome("reset", k, <<"write", c>>)' <=> ToCome("reset", k, <<"write", c>>),
           c \in WindowCells =>
             \A k : Untouched("snapshot", k, <<"consume", c>>)' <=>
                    Untouched("snapshot", k, <<"consume", c>>)
    PROVE  Counted(c, b)' <=> Counted(c, b)
<1>1. ResetSince(b, c)' <=> ResetSince(b, c)
  BY DEF ResetSince
<1>2. c \in WindowCells => Consumed(c)' = Consumed(c)
  BY DEF Consumed
<1> QED
  BY <1>1, <1>2 DEF Counted

\* A batch is counted by the cell its aggregation gets to, and by no other.
LEMMA AggregateCounts ==
    ASSUME TypeInv, ProgramOrder, EarlierAwaited, SlotData, DidInv, LaterToCome, IntervalInv,
           SnapBatch, AccumInv, NEW x \in Stream, AggregateKernel(x)
    PROVE  AccumInv'
<1>1. PICK c \in Cells :
        /\ KernelStep(x, "aggregate", <<"write", c>>)
        /\ acc' = [acc EXCEPT ![c] = Aggregated(@, soa[HeadOf(x).slot])]
  BY DEF AggregateKernel
<1>2. Device(x)
  BY DEF Device
<1>3. /\ UNCHANGED <<issued, opens, pc>> /\ Launched' = Launched /\ HostKey' = HostKey
  BY <1>2, DeviceToCome, DeviceSnapshots
<1> SUFFICES ASSUME pc \notin FinalPc, NEW d \in Cells, NEW b \in Batch
             PROVE  acc'[d][b] = IF Counted(d, b)' THEN 1 ELSE 0
  BY <1>3 DEF AccumInv, Batch
<1>4. PICK k : k = HeadOf(x).batch
  OBVIOUS
<1>5. /\ HeadOf(x).op = "aggregate" /\ k \in Nat /\ k <= Len(opens)
      /\ Key("aggregate", k) < HostKey
      /\ Untouched("aggregate", k, <<"write", c>>)
      /\ ~ToCome("aggregate", k, <<"write", c>>)'
      /\ \A o \in AccumOps : \A j : \A st \in Steps(o) :
           ~(o = "aggregate" /\ j = k /\ st = <<"write", c>>) =>
             /\ Untouched(o, j, st)' <=> Untouched(o, j, st)
             /\ ToCome(o, j, st)' <=> ToCome(o, j, st)
  BY <1>1, <1>2, <1>4, CellSteps, KernelTakes
<1>6. Busy(x)
  BY <1>1 DEF KernelStep, At
<1>7. PICK h \in Unretired(x) :
        /\ OpAt(x, h) = "aggregate" /\ BatchAt(x, h) = k /\ issued[x][h] = HeadOf(x)
  BY <1>4, <1>5, <1>6, HeadInFlight
<1>8. k \in Batch
  <2>1. k >= 1
    BY <1>7 DEF ProgramOrder, StreamOfBatch
  <2>2. Len(opens) <= MaxBatches /\ Len(opens) \in Nat
    BY DEF TypeInv, TypeOK
  <2> QED
    BY <1>5, <2>1, <2>2 DEF Batch
<1>9. soa[HeadOf(x).slot] = k
  <2>1. HeadOf(x).slot \in Slot
    BY <1>7, SlotTypes DEF SlotOps
  <2> QED
    BY <1>4, <1>5, <1>6, <2>1, HeadFindsBatch DEF SlotOps
<1>10. acc \in [Cells -> CellValue] /\ acc[d] \in [Batch -> Nat]
  BY DEF TypeInv, TypeOK, AccumValue, CellValue
<1>11. acc[d][b] = IF Counted(d, b) THEN 1 ELSE 0
  BY DEF AccumInv
<1>12. CASE ~(d = c /\ b = k)
  <2>1. acc'[d][b] = acc[d][b]
    BY <1>1, <1>8, <1>9, <1>10, <1>12 DEF Aggregated
  <2>2. Counted(d, b)' <=> Counted(d, b)
    BY <1>3, <1>5, <1>12, CellSteps, CountedSame
  <2> QED
    BY <1>11, <2>1, <2>2
<1>13. CASE d = c /\ b = k
  <2>1. ~Counted(d, b)
    BY <1>5, <1>13 DEF Counted, ToCome
  <2>2. acc'[d][b] = 1
    BY <1>1, <1>8, <1>9, <1>10, <1>11, <1>13, <2>1 DEF Aggregated
  <2>3. ASSUME NEW o \in AccumOps, NEW j \in Batch, Conflict("aggregate", o),
               Key("aggregate", k) < Key(o, j), Real(o, j), NEW st \in Steps(o)
        PROVE  ToCome(o, j, st)
    BY <1>7, <2>3 DEF LaterToCome, KeyAt
  <2>4. ~ResetSince(b, c)'
    <3> SUFFICES ASSUME NEW j \in b+1..Len(opens), opens[j]
                 PROVE  ToCome("reset", j, <<"write", c>>)'
      BY <1>3 DEF ResetSince
    <3>1. j \in Nat /\ j > k /\ j \in Batch /\ j \in 1..Len(opens)
      BY <1>5, <1>8, <1>13 DEF Batch, TypeInv, TypeOK
    <3>2. Key("aggregate", k) < Key("reset", j)
      BY <1>5, <3>1 DEF Key, Phase
    <3>3. Conflict("aggregate", "reset") /\ Real("reset", j)
      BY DEF Conflict, AccumOps, WholeArray, Real
    <3> QED
      BY <1>5, <2>3, <3>1, <3>2, <3>3, CellSteps
  <2>5. c \in WindowCells => b > Consumed(c)'
    <3> SUFFICES ASSUME c \in WindowCells PROVE b > Consumed(c)'
      OBVIOUS
    <3>1. Launched \in Nat /\ Launched % Interval = 0 /\ Interval \in Nat \ {0}
      BY IntervalTypes
    <3>2. PICK n : n = Launched
      OBVIOUS
    <3>3. /\ Consumed(c)' = IF Untouched("snapshot", n, <<"consume", c>>) THEN n - Interval ELSE n
      BY <1>3, <1>5, <3>2, CellSteps DEF Consumed
    <3>4. ASSUME NEW j \in Nat, k <= j, j <= n, j % Interval = 0
          PROVE  Untouched("snapshot", j, <<"consume", c>>)
      <4>1. j \in Batch /\ Key("snapshot", j) < HostKey /\ Real("snapshot", j)
        BY <1>5, <1>8, <3>1, <3>2, <3>4, LaunchedBehind DEF Batch, Real
      <4>2. Key("aggregate", k) < Key("snapshot", j)
        BY <1>5, <3>4 DEF Key, Phase
      <4>3. Conflict("aggregate", "snapshot")
        BY DEF Conflict, AccumOps, WholeArray
      <4>4. ToCome("snapshot", j, <<"consume", c>>)
        BY <2>3, <4>1, <4>2, <4>3, CellSteps
      <4>5. Key("snapshot", j) \in Nat /\ HostKey \in Nat
        BY <3>4, KeyTypes, HostKeyType
      <4> QED
        BY <4>1, <4>4, <4>5 DEF ToCome
    <3>5. ASSUME k <= n PROVE Untouched("snapshot", n, <<"consume", c>>)
      BY <3>1, <3>2, <3>4, <3>5
    <3>6. ASSUME k <= n - Interval PROVE FALSE
      <4>1. n - Interval \in Nat /\ (n - Interval) % Interval = 0
        <5>1. n = Interval * Taken /\ Taken \in Nat
          BY <3>2, IntervalTypes
        <5>2. Taken >= 1
          BY <1>5, <3>1, <3>2, <3>6, <5>1
        <5>3. n - Interval = Interval * (Taken - 1) /\ Taken - 1 \in Nat
          BY <5>1, <5>2
        <5> QED
          BY <5>3
      <4>2. Untouched("snapshot", n - Interval, <<"consume", c>>)
        BY <3>1, <3>2, <3>4, <3>6, <4>1
      <4>3. n - Interval = n
        BY <3>2, <4>2 DEF Untouched, SnapBatch, SnapOps
      <4> QED
        BY <3>1, <3>2, <4>3
    <3> QED
      BY <1>5, <1>13, <3>1, <3>2, <3>3, <3>5, <3>6
  <2>6. Counted(d, b)'
    BY <1>5, <1>13, <2>4, <2>5 DEF Counted
  <2> QED
    BY <2>2, <2>6
<1> QED
  BY <1>12, <1>13

\* A cell the reset kernel gets to counts nothing of before, and nothing yet of after.
LEMMA ResetClears ==
    ASSUME TypeInv, ProgramOrder, LaterToCome, AccumInv, NEW x \in Stream, ResetKernel(x)
    PROVE  AccumInv'
<1>1. PICK c \in Cells :
        KernelStep(x, "reset", <<"write", c>>) /\ acc' = [acc EXCEPT ![c] = EmptyCell]
  BY DEF ResetKernel
<1>2. Device(x)
  BY DEF Device
<1>3. UNCHANGED <<issued, opens, pc>> /\ Launched' = Launched
  BY <1>2, DeviceToCome, DeviceSnapshots
<1> SUFFICES ASSUME pc \notin FinalPc, NEW d \in Cells, NEW b \in Batch
             PROVE  acc'[d][b] = IF Counted(d, b)' THEN 1 ELSE 0
  BY <1>3 DEF AccumInv, Batch
<1>4. PICK k : k = HeadOf(x).batch
  OBVIOUS
<1>5. /\ HeadOf(x).op = "reset" /\ k \in Nat /\ k <= Len(opens)
      /\ ~ToCome("reset", k, <<"write", c>>)'
      /\ \A o \in AccumOps : \A j : \A st \in Steps(o) :
           ~(o = "reset" /\ j = k /\ st = <<"write", c>>) =>
             /\ Untouched(o, j, st)' <=> Untouched(o, j, st)
             /\ ToCome(o, j, st)' <=> ToCome(o, j, st)
  BY <1>1, <1>2, <1>4, CellSteps, KernelTakes
<1>6. acc \in [Cells -> CellValue] /\ acc[d][b] = IF Counted(d, b) THEN 1 ELSE 0
  BY DEF TypeInv, TypeOK, AccumValue, AccumInv
<1>7. CASE d # c
  <2>1. acc'[d] = acc[d]
    BY <1>1, <1>6, <1>7
  <2>2. Counted(d, b)' <=> Counted(d, b)
    BY <1>3, <1>5, <1>7, CellSteps, CountedSame
  <2> QED
    BY <1>6, <2>1, <2>2
<1>8. CASE d = c
  <2>1. acc'[d][b] = 0
    BY <1>1, <1>6, <1>8 DEF EmptyCell
  <2>2. PICK h \in Unretired(x) : OpAt(x, h) = "reset" /\ BatchAt(x, h) = k
    BY <1>1, <1>4, <1>5, HeadInFlight DEF KernelStep, At
  <2>3. opens[k] /\ b \in Nat /\ Len(opens) \in Nat
    BY <2>2 DEF ProgramOrder, FlagsKnown, TypeInv, TypeOK, Batch
  <2>4. ASSUME b < k PROVE ResetSince(b, c)'
    <3>1. k \in b+1..Len(opens) /\ opens[k] /\ ~ToCome("reset", k, <<"write", c>>)'
      BY <1>5, <2>3, <2>4
    <3> QED
      BY <1>3, <3>1 DEF ResetSince
  <2>5. ASSUME b >= k PROVE ToCome("aggregate", b, <<"write", c>>)'
    <3>1. Key("reset", k) < Key("aggregate", b)
      BY <1>5, <2>3, <2>5 DEF Key, Phase
    <3>2. Conflict("reset", "aggregate") /\ Real("aggregate", b)
      BY DEF Conflict, AccumOps, WholeArray, Real
    <3>3. ToCome("aggregate", b, <<"write", c>>)
      BY <2>2, <3>1, <3>2, CellSteps DEF LaterToCome, KeyAt
    <3> QED
      BY <1>5, <3>3, CellSteps
  <2> QED
    BY <1>5, <1>8, <2>1, <2>3, <2>4, <2>5 DEF Counted
<1> QED
  BY <1>7, <1>8

\* A window the snapshot kernel consumes counts nothing up to its batch.
LEMMA ConsumeClears ==
    ASSUME TypeInv, ProgramOrder, LaterToCome, IntervalInv, SnapBatch, AccumInv,
           NEW x \in Stream, SnapshotConsume(x)
    PROVE  AccumInv'
<1>1. PICK c \in WindowCells :
        /\ KernelStep(x, "snapshot", <<"consume", c>>)
        /\ acc' = [acc EXCEPT ![c] = EmptyCell]
  BY DEF SnapshotConsume
<1>2. Device(x) /\ c \in Cells
  BY CellSteps DEF Device
<1>3. UNCHANGED <<issued, opens, pc>> /\ Launched' = Launched
  BY <1>2, DeviceToCome, DeviceSnapshots
<1> SUFFICES ASSUME pc \notin FinalPc, NEW d \in Cells, NEW b \in Batch
             PROVE  acc'[d][b] = IF Counted(d, b)' THEN 1 ELSE 0
  BY <1>3 DEF AccumInv, Batch
<1>4. PICK k : k = HeadOf(x).batch
  OBVIOUS
<1>5. /\ HeadOf(x).op = "snapshot" /\ k \in Nat /\ k <= Len(opens)
      /\ ~Untouched("snapshot", k, <<"consume", c>>)'
      /\ \A o \in AccumOps : \A j : \A st \in Steps(o) :
           ~(o = "snapshot" /\ j = k /\ st = <<"consume", c>>) =>
             /\ Untouched(o, j, st)' <=> Untouched(o, j, st)
             /\ ToCome(o, j, st)' <=> ToCome(o, j, st)
  BY <1>1, <1>2, <1>4, CellSteps, KernelTakes
<1>6. acc \in [Cells -> CellValue] /\ acc[d][b] = IF Counted(d, b) THEN 1 ELSE 0
  BY DEF TypeInv, TypeOK, AccumValue, AccumInv
<1>7. CASE d # c
  <2>1. acc'[d] = acc[d]
    BY <1>1, <1>6, <1>7
  <2>2. Counted(d, b)' <=> Counted(d, b)
    BY <1>3, <1>5, <1>7, CellSteps, CountedSame
  <2> QED
    BY <1>6, <2>1, <2>2
<1>8. CASE d = c
  <2>1. acc'[d][b] = 0
    BY <1>1, <1>2, <1>6, <1>8 DEF EmptyCell
  <2>2. PICK h \in Unretired(x) : OpAt(x, h) = "snapshot" /\ BatchAt(x, h) = k
    BY <1>1, <1>4, <1>5, HeadInFlight DEF KernelStep, At
  <2>3. k = Launched /\ b \in Nat
    BY <2>2 DEF SnapBatch, SnapOps, Batch
  <2>4. Consumed(c)' = k
    BY <1>3, <1>5, <2>3 DEF Consumed
  <2>5. ASSUME b > k PROVE ToCome("aggregate", b, <<"write", c>>)'
    <3>1. Key("snapshot", k) < Key("aggregate", b)
      BY <1>5, <2>3, <2>5 DEF Key, Phase
    <3>2. Conflict("snapshot", "aggregate") /\ Real("aggregate", b)
      BY DEF Conflict, AccumOps, WholeArray, Real
    <3>3. ToCome("aggregate", b, <<"write", c>>)
      BY <1>2, <2>2, <3>1, <3>2, CellSteps DEF LaterToCome, KeyAt
    <3> QED
      BY <1>2, <1>5, <3>3, CellSteps
  <2> QED
    BY <1>5, <1>8, <2>1, <2>3, <2>4, <2>5 DEF Counted
<1> QED
  BY <1>7, <1>8

LEMMA OthersCountNothing ==
    ASSUME TypeInv, ProgramOrder, DidInv, AccumInv, NEW x \in Stream,
           \/ StreamWait(x) \/ CopyHostToDevice(x) \/ DecodeKernel(x) \/ SnapshotRead(x)
           \/ CopyDeviceToHost(x)
    PROVE  AccumInv'
<1>1. Device(x) /\ acc' = acc
  BY DEF Device, StreamWait, CopyHostToDevice, DecodeKernel, SnapshotRead, CopyDeviceToHost
<1>2. UNCHANGED <<issued, opens, pc>> /\ Launched' = Launched
      /\ \A o, k, st : ToCome(o, k, st)' <=> Key(o, k) >= HostKey \/ Untouched(o, k, st)'
  BY <1>1, DeviceToCome, DeviceSnapshots
<1>3. ASSUME NEW o \in AccumOps, NEW k, NEW st \in Steps(o), o = "snapshot" => st[1] # "read"
      PROVE  Untouched(o, k, st)' <=> Untouched(o, k, st)
  <2>1. CASE SnapshotRead(x)
    <3>1. PICK c \in Cells : KernelStep(x, "snapshot", <<"read", c>>)
      BY <2>1 DEF SnapshotRead
    <3>2. PICK n : n = HeadOf(x).batch
      OBVIOUS
    <3>3. ~(o = "snapshot" /\ k = n /\ st = <<"read", c>>)
      BY <1>3
    <3> QED
      BY <1>1, <3>1, <3>2, <3>3, CellSteps, KernelTakes
  <2>2. CASE ~SnapshotRead(x)
    <3>1. Busy(x) /\ HeadOf(x).op \notin AccumOps /\ Retire(x)
      BY <2>2 DEF StreamWait, CopyHostToDevice, DecodeKernel, CopyDeviceToHost, At, AccumOps,
                  WholeArray
    <3> QED
      BY <1>2, <3>1, OtherRetired
  <2> QED
    BY <2>1, <2>2
<1>4. ASSUME NEW d \in Cells, NEW b PROVE Counted(d, b)' <=> Counted(d, b)
  <2>1. \A o \in {"aggregate", "reset"} : \A k :
          Untouched(o, k, <<"write", d>>)' <=> Untouched(o, k, <<"write", d>>)
    BY <1>3, CellSteps
  <2>2. d \in WindowCells => \A k : Untouched("snapshot", k, <<"consume", d>>)' <=>
                                    Untouched("snapshot", k, <<"consume", d>>)
    BY <1>3, CellSteps
  <2>3. \A k : /\ ToCome("aggregate", k, <<"write", d>>)' <=> ToCome("aggregate", k, <<"write", d>>)
               /\ ToCome("reset", k, <<"write", d>>)' <=> ToCome("reset", k, <<"write", d>>)
    BY <1>2, <2>1 DEF ToCome
  <2> QED
    BY <1>2, <2>2, <2>3, CountedSame
<1> QED
  BY <1>1, <1>2, <1>4 DEF AccumInv, Batch

LEMMA DeviceKeepsAccum ==
    ASSUME TypeInv, ProgramOrder, EarlierAwaited, SlotData, DidInv, LaterToCome, IntervalInv,
           SnapBatch, AccumInv, NEW x \in Stream, Device(x)
    PROVE  AccumInv'
BY AggregateCounts, ResetClears, ConsumeClears, OthersCountNothing DEF Device

-----------------------------------------------------------------------------
(***************************************************************************)
(* The snapshots: what the kernel reads, what the copy brings to the host. *)
(***************************************************************************)
\* What the last snapshot launched has to say.
LastRow == Report!Row(Launched, Launched - Interval).cells

CopyingOut == \E s \in Stream : \E p \in Unretired(s) : OpAt(s, p) = "d2h"

SnapshotInv ==
    pc \notin FinalPc =>
        /\ Launched >= 1 =>
             \A c \in Cells :
                Untouched("snapshot", Launched, <<"read", c>>) \/ d_snap[c] = LastRow[c]
        /\ pending # Null /\ pc \notin {"snapshot", "d2h"} =>
             CopyingOut \/ h_snap[pending] = LastRow

\* A row says of a cell which batches it counts.
LEMMA RowCells ==
    ASSUME NEW n, NEW m, NEW c \in Cells
    PROVE  /\ Report!Row(n, m).cells \in [Cells -> [Batch -> {0, 1}]]
           /\ \A b \in Batch : Report!Row(n, m).cells[c][b] =
                IF /\ b \in (IF c \in SumCells THEN 1 ELSE m + 1)..n
                   /\ \A k \in b+1..n : ~opens[k]
                THEN 1 ELSE 0
BY DEF Report!Row, Report!Account, Report!Cells, Report!Batch, Cells, Batch

\* It speaks of no batch after its own.
LEMMA RowKept ==
    ASSUME NEW n, NEW m, n \in Nat, n <= Len(opens), Len(opens) \in Nat,
           Host, TypeInv
    PROVE  Report!Row(n, m).cells' = Report!Row(n, m).cells
<1>1. ASSUME NEW k \in 1..Len(opens) PROVE opens'[k] = opens[k]
  <2>1. CASE Fill
    BY <2>1, QuietKeys DEF QuietStep, SilentStep
  <2>2. CASE ~Fill
    BY <2>2, HostKinds, QuietKeys, WorkAdvances DEF QuietStep
  <2> QED
    BY <2>1, <2>2
<1>2. \A b \in Batch : \A k \in b+1..n : opens'[k] = opens[k]
  BY <1>1 DEF Batch
<1> QED
  BY <1>2 DEF Report!Row, Report!Account, Report!Cells, Report!Batch, Cells, Batch

LEMMA LastRowKept ==
    ASSUME TypeInv, IntervalInv, Host, pc' \notin FinalPc, ~TakeSnapshot
    PROVE  LastRow' = LastRow /\ Launched' = Launched
<1>1. Launched' = Launched /\ pc \notin FinalPc
  BY HostLaunched DEF Launched
<1>2. PICK n : n = Launched
  OBVIOUS
<1>3. n \in Nat /\ Len(opens) \in Nat
  BY <1>2, IntervalTypes DEF TypeInv, TypeOK
<1>4. n <= Len(opens)
  <2>1. CASE n >= 1
    BY <1>1, <1>2, <2>1, LaunchedBehind
  <2>2. CASE n = 0
    BY <1>3, <2>2
  <2> QED
    BY <1>3, <2>1, <2>2
<1>5. \A m : Report!Row(n, m).cells' = Report!Row(n, m).cells
  BY <1>3, <1>4, RowKept
<1>6. Report!Row(n, n - Interval).cells' = Report!Row(n, n - Interval).cells
  BY <1>5
<1> QED
  BY <1>1, <1>2, <1>6 DEF LastRow

LEMMA HostKeepsSnapshots ==
    ASSUME TypeInv, ProgramOrder, DidInv, IntervalInv, SnapshotInv, Host
    PROVE  SnapshotInv'
<1> SUFFICES ASSUME pc' \notin FinalPc
             PROVE  /\ Launched' >= 1 => \A c \in Cells :
                         Untouched("snapshot", Launched, <<"read", c>>)' \/ d_snap'[c] = LastRow'[c]
                    /\ pending' # Null /\ pc' \notin {"snapshot", "d2h"} =>
                         CopyingOut' \/ h_snap'[pending'] = LastRow'
  BY DEF SnapshotInv
<1>1. UNCHANGED <<d_snap, h_snap>> /\ pc \notin FinalPc
  BY HostFrame, HostLaunched
<1>2. InFlightKept
  <2>1. CASE QuietStep
    BY <2>1, QuietIssues
  <2>2. CASE WorkStep
    BY <2>2, WorkAppends DEF Appended
  <2> QED
    BY <2>1, <2>2, HostKinds DEF QuietStep
<1>3. CopyingOut => CopyingOut'
  BY <1>2 DEF CopyingOut, InFlightKept, OpAt
<1>4. CASE TakeSnapshot
  <2>1. PICK n : n = Len(opens)
    OBVIOUS
  <2>2. pc = "snapshot" /\ pc' = "d2h"
    BY <1>4 DEF TakeSnapshot
  <2>3. Launched' = n
    <3>1. Launched' = Launched + Interval
      BY <1>4, HostLaunched, IntervalTypes DEF Launched
    <3> QED
      BY <1>1, <2>1, <2>2, <3>1 DEF TypeInv, CountInv, InBatch, IntervalInv, Due
  <2>4. \A c \in Cells : Untouched("snapshot", n, <<"read", c>>)'
    BY <1>4, <2>1, HostSnapshots
  <2> QED
    BY <2>2, <2>3, <2>4
<1>5. CASE ~TakeSnapshot
  <2>1. LastRow' = LastRow /\ Launched' = Launched
    BY <1>5, LastRowKept
  <2>2. \A k, st : Untouched("snapshot", k, st)' <=> Untouched("snapshot", k, st)
    BY <1>5, HostSnapshots
  <2>3. ASSUME Launched' >= 1, NEW c \in Cells
        PROVE  Untouched("snapshot", Launched, <<"read", c>>)' \/ d_snap'[c] = LastRow'[c]
    BY <1>1, <2>1, <2>2, <2>3 DEF SnapshotInv
  <2>4. ASSUME pending' # Null, pc' \notin {"snapshot", "d2h"}
        PROVE  CopyingOut' \/ h_snap'[pending'] = LastRow'
    <3>1. CASE CopyOut
      <4>1. PICK s \in Stream, d \in Command, n \in Nat : Appended(s, n, d) /\ d.op = "d2h"
        BY <3>1, WorkAppends DEF WorkStep
      <4>2. CopyingOut'
        BY <4>1 DEF Appended, CopyingOut, OpAt
      <4> QED
        BY <4>2
    <3>2. CASE ~CopyOut
      <4>1. pending' = pending /\ pc \notin {"snapshot", "d2h"}
        <5>1. CASE QuietStep
          BY <5>1 DEF QuietStep, SilentStep, WaitStep, Acquire, Fill, FeedEnds, Drain,
             PrintDrained, NextBatch, SyncStreams, PrintPending, FinalSync, FinalPrint,
             WaitForBarrier, WaitBeforeReset, WaitBeforeSnapshot
        <5>2. CASE WorkStep
          BY <1>5, <3>2, <5>2 DEF WorkStep, Reset, CopyIn, Decode, Aggregate, FinalSnapshot,
             FinalCopyOut
        <5> QED
          BY <5>1, <5>2, HostKinds DEF QuietStep
      <4>2. CopyingOut \/ h_snap[pending] = LastRow
        BY <1>1, <2>4, <4>1 DEF SnapshotInv
      <4> QED
        BY <1>1, <1>3, <2>1, <4>1, <4>2
    <3> QED
      BY <3>1, <3>2
  <2> QED
    BY <2>3, <2>4
<1> QED
  BY <1>4, <1>5

\* A cell the snapshot kernel reads counts what the row is to say of it.
LEMMA ReadsItsRow ==
    ASSUME TypeInv, ProgramOrder, EarlierAwaited, DidInv, LaterToCome, IntervalInv, SnapBatch,
           AccumInv, pc \notin FinalPc,
           NEW x \in Stream, NEW c \in Cells, KernelStep(x, "snapshot", <<"read", c>>)
    PROVE  acc[c] = LastRow[c]
<1>1. Busy(x) /\ HeadOf(x).op = "snapshot" /\ <<"read", c>> \notin did[x]
  BY DEF KernelStep, At
<1>2. PICK n : n = Launched
  OBVIOUS
<1>3. PICK h \in Unretired(x) :
        h = retired[x] + 1 /\ OpAt(x, h) = "snapshot" /\ BatchAt(x, h) = HeadOf(x).batch
  BY <1>1, HeadInFlight
<1>4. /\ HeadOf(x).batch = n /\ BatchAt(x, h) = n /\ n \in Nat /\ n >= 1
      /\ KeyAt(x, h) = Key("snapshot", n)
  BY <1>2, <1>3, InFlightTypes DEF SnapBatch, SnapOps, ProgramOrder, StreamOfBatch, KeyAt
<1>5. n <= Len(opens) /\ Len(opens) \in Nat /\ Key("snapshot", n) < HostKey
      /\ Key("snapshot", n) = 6 * n + 4 /\ HostKey \in Nat /\ Len(opens) <= MaxBatches
  BY <1>2, <1>4, LaunchedBehind, HostKeyType DEF Key, Phase, TypeInv, TypeOK
<1>6. ASSUME NEW o \in {"aggregate", "reset"}, NEW k \in Nat, k <= n
      PROVE  ~ToCome(o, k, <<"write", c>>)
  <2>1. Key(o, k) = 6 * k + (IF o = "reset" THEN 0 ELSE 3)
    BY DEF Key, Phase
  <2>2. Key(o, k) < Key("snapshot", n) /\ ~(Key(o, k) >= HostKey)
    BY <1>4, <1>5, <1>6, <2>1
  <2>3. ASSUME Untouched(o, k, <<"write", c>>) PROVE FALSE
    <3>1. PICK t \in Stream : \E q \in Unretired(t) : OpAt(t, q) = o /\ BatchAt(t, q) = k
      BY <2>3 DEF Untouched
    <3>2. PICK q \in Unretired(t) : OpAt(t, q) = o /\ BatchAt(t, q) = k
      BY <3>1
    <3>3. Conflict(HeadOf(x).op, OpAt(t, q))
      BY <1>1, <3>2 DEF Conflict, AccumOps, WholeArray
    <3>4. Key("snapshot", n) <= Key(o, k)
      BY <1>1, <1>4, <3>2, <3>3, HeadFirst DEF KeyAt
    <3> QED
      BY <1>4, <1>5, <1>6, <2>1, <2>2, <3>4
  <2> QED
    BY <2>2, <2>3 DEF ToCome
<1>7. ASSUME NEW o \in {"aggregate", "reset"}, NEW k \in Batch, k > n, Real(o, k)
      PROVE  ToCome(o, k, <<"write", c>>)
  <2>1. Key(o, k) = 6 * k + (IF o = "reset" THEN 0 ELSE 3) /\ k \in Nat
    BY DEF Key, Phase, Batch
  <2>2. KeyAt(x, h) < Key(o, k)
    BY <1>4, <1>5, <1>7, <2>1
  <2>3. Conflict(OpAt(x, h), o) /\ o \in AccumOps
    BY <1>3 DEF Conflict, AccumOps, WholeArray
  <2>4. <<"write", c>> \in Steps(o)
    BY CellSteps
  <2> QED
    BY <1>7, <2>2, <2>3, <2>4 DEF LaterToCome
<1>8. c \in WindowCells => Consumed(c) = n - Interval
  <2>1. <<"consume", c>> \notin did[x]
    BY <1>1 DEF DidInv
  <2>2. Untouched("snapshot", n, <<"consume", c>>)
    BY <1>3, <1>4, <2>1 DEF Untouched, Touched
  <2> QED
    BY <1>2, <2>2 DEF Consumed
<1>9. ASSUME NEW b \in Batch
      PROVE  Counted(c, b) <=> /\ b \in (IF c \in SumCells THEN 1 ELSE n - Interval + 1)..n
                               /\ \A k \in b+1..n : ~opens[k]
  <2>1. b \in Nat /\ b >= 1 /\ n - Interval \in Int
    BY <1>4 DEF Batch
  <2>2. CASE b > n
    <3>1. ToCome("aggregate", b, <<"write", c>>)
      BY <1>7, <2>2 DEF Real
    <3> QED
      BY <1>4, <2>1, <2>2, <3>1 DEF Counted
  <2>3. CASE b <= n
    <3>1. ~ToCome("aggregate", b, <<"write", c>>)
      BY <1>6, <2>1, <2>3
    <3>2. ResetSince(b, c) <=> \E k \in b+1..n : opens[k]
      <4>1. ASSUME NEW k \in b+1..n PROVE k \in Nat /\ k <= n /\ k \in b+1..Len(opens)
        BY <1>4, <1>5, <2>1
      <4>2. ASSUME NEW k \in b+1..Len(opens), opens[k], ~ToCome("reset", k, <<"write", c>>)
            PROVE  k \in b+1..n
        <5>1. k \in Nat /\ k >= 1 /\ k \in Batch
          BY <1>5, <2>1 DEF Batch
        <5>2. Real("reset", k)
          BY <4>2 DEF Real
        <5>3. ~(k > n)
          BY <1>7, <4>2, <5>1, <5>2
        <5> QED
          BY <1>4, <1>5, <2>1, <5>1, <5>3
      <4>3. ASSUME NEW k \in b+1..n PROVE ~ToCome("reset", k, <<"write", c>>)
        BY <1>6, <4>1
      <4> QED
        BY <4>1, <4>2, <4>3 DEF ResetSince
    <3>3. c \in WindowCells <=> c \notin SumCells
      BY CellsAssumption DEF Cells
    <3> QED
      BY <1>4, <1>8, <2>1, <2>3, <3>1, <3>2, <3>3 DEF Counted
  <2> QED
    BY <1>4, <2>1, <2>2, <2>3
<1>10. acc[c] \in [Batch -> Nat] /\ \A b \in Batch : acc[c][b] = IF Counted(c, b) THEN 1 ELSE 0
  BY DEF TypeInv, TypeOK, AccumValue, CellValue, AccumInv
<1>11. PICK m : m = n - Interval
  OBVIOUS
<1>12. LastRow = Report!Row(n, m).cells
  BY <1>2, <1>11 DEF LastRow
<1>13. LastRow[c] \in [Batch -> {0, 1}]
  BY <1>12, RowCells
<1>14. ASSUME NEW b \in Batch PROVE acc[c][b] = LastRow[c][b]
  <2>1. LastRow[c][b] = IF /\ b \in (IF c \in SumCells THEN 1 ELSE m + 1)..n
                           /\ \A k \in b+1..n : ~opens[k]
                        THEN 1 ELSE 0
    BY <1>12, RowCells
  <2> QED
    BY <1>9, <1>10, <1>11, <2>1
<1> QED
  BY <1>10, <1>13, <1>14

\* What is copied out is what the snapshot kernel has left.
LEMMA CopiesItsRow ==
    ASSUME TypeInv, ProgramOrder, EarlierAwaited, SnapBatch, IntervalInv, SnapshotInv,
           pc \notin FinalPc, NEW x \in Stream, At(x, "d2h")
    PROVE  d_snap = LastRow /\ HeadOf(x).dst = pending
<1>1. Busy(x) /\ HeadOf(x).op = "d2h"
  BY DEF At
<1>2. PICK n : n = Launched
  OBVIOUS
<1>3. PICK h \in Unretired(x) : /\ OpAt(x, h) = "d2h" /\ BatchAt(x, h) = HeadOf(x).batch
                                /\ issued[x][h] = HeadOf(x)
  BY <1>1, HeadInFlight
<1>4. HeadOf(x).batch = n /\ BatchAt(x, h) = n /\ n \in Nat /\ n >= 1 /\ x = (n + 1) % 2
      /\ HeadOf(x).dst = pending
  BY <1>2, <1>3, InFlightTypes DEF SnapBatch, SnapOps, ProgramOrder, StreamOfBatch
<1>5. ASSUME NEW c \in Cells PROVE d_snap[c] = LastRow[c]
  <2>1. ASSUME Untouched("snapshot", n, <<"read", c>>) PROVE FALSE
    <3>1. PICK t \in Stream : \E q \in Unretired(t) :
            OpAt(t, q) = "snapshot" /\ BatchAt(t, q) = n
      BY <2>1 DEF Untouched
    <3>2. PICK q \in Unretired(t) : OpAt(t, q) = "snapshot" /\ BatchAt(t, q) = n
      BY <3>1
    <3>3. t = x
      BY <1>4, <3>2 DEF ProgramOrder, StreamOfBatch
    <3>4. Key("d2h", n) <= Key("snapshot", n)
      BY <1>1, <1>4, <3>2, <3>3, HeadFirst DEF KeyAt
    <3> QED
      BY <1>4, <3>4 DEF Key, Phase
  <2> QED
    BY <1>2, <1>4, <2>1 DEF SnapshotInv
<1>6. LastRow \in [Cells -> [Batch -> {0, 1}]] /\ d_snap \in [Cells -> CellValue]
  <2>1. LastRow = [c \in Cells |-> LastRow[c]]
    BY DEF LastRow, Report!Row, Report!Cells, Cells
  <2> QED
    BY <2>1, RowCells DEF LastRow, TypeInv, TypeOK, AccumValue
<1> QED
  BY <1>4, <1>5, <1>6

LEMMA DeviceKeepsSnapshots ==
    ASSUME TypeInv, ProgramOrder, EarlierAwaited, DidInv, LaterToCome, IntervalInv, SnapBatch,
           AccumInv, SnapshotInv, NEW x \in Stream, Device(x)
    PROVE  SnapshotInv'
<1>1. /\ UNCHANGED <<issued, opens, pc, pending>> /\ Launched' = Launched
      /\ \A t \in Stream : Unretired(t)' \subseteq Unretired(t)
  BY DeviceInFlight, DeviceSnapshots DEF hostSide
<1>2. LastRow' = LastRow
  BY <1>1 DEF LastRow, Report!Row, Report!Account
<1>3. PICK n : n = Launched
  OBVIOUS
<1> SUFFICES ASSUME pc \notin FinalPc
             PROVE  /\ n >= 1 => \A c \in Cells :
                         Untouched("snapshot", n, <<"read", c>>)' \/ d_snap'[c] = LastRow[c]
                    /\ pending # Null /\ pc \notin {"snapshot", "d2h"} =>
                         CopyingOut' \/ h_snap'[pending] = LastRow
  BY <1>1, <1>2, <1>3 DEF SnapshotInv
<1>4. n >= 1 => \A c \in Cells :
        Untouched("snapshot", n, <<"read", c>>) \/ d_snap[c] = LastRow[c]
  BY <1>3 DEF SnapshotInv
<1>5. ASSUME n >= 1, NEW c \in Cells
      PROVE  Untouched("snapshot", n, <<"read", c>>)' \/ d_snap'[c] = LastRow[c]
  <2>1. CASE SnapshotRead(x)
    <3>1. PICK d \in Cells :
            KernelStep(x, "snapshot", <<"read", d>>) /\ d_snap' = [d_snap EXCEPT ![d] = acc[d]]
      BY <2>1 DEF SnapshotRead
    <3>2. acc[d] = LastRow[d]
      BY <3>1, ReadsItsRow
    <3>3. d_snap \in [Cells -> CellValue]
      BY DEF TypeInv, TypeOK, AccumValue
    <3>4. c # d => (Untouched("snapshot", n, <<"read", c>>)' <=>
                    Untouched("snapshot", n, <<"read", c>>))
      <4>1. PICK k : k = HeadOf(x).batch
        OBVIOUS
      <4> QED
        BY <3>1, <4>1, CellSteps, KernelTakes
    <3> QED
      BY <1>4, <1>5, <3>1, <3>2, <3>3, <3>4
  <2>2. CASE AggregateKernel(x) \/ ResetKernel(x) \/ SnapshotConsume(x)
    <3>1. d_snap' = d_snap
      BY <2>2 DEF AggregateKernel, ResetKernel, SnapshotConsume
    <3>2. PICK op \in AccumOps : \E d \in Cells, w \in {"write", "consume"} :
            <<w, d>> \in Steps(op) /\ KernelStep(x, op, <<w, d>>)
      BY <2>2, CellSteps DEF AggregateKernel, ResetKernel, SnapshotConsume
    <3>3. PICK d \in Cells, w \in {"write", "consume"} :
            <<w, d>> \in Steps(op) /\ KernelStep(x, op, <<w, d>>)
      BY <3>2
    <3>4. PICK k : k = HeadOf(x).batch
      OBVIOUS
    <3>5. <<"read", c>> # <<w, d>>
      OBVIOUS
    <3>6. Untouched("snapshot", n, <<"read", c>>)' <=> Untouched("snapshot", n, <<"read", c>>)
      BY <3>3, <3>4, <3>5, CellSteps, KernelTakes
    <3> QED
      BY <1>4, <1>5, <3>1, <3>6
  <2>3. CASE StreamWait(x) \/ CopyHostToDevice(x) \/ DecodeKernel(x) \/ CopyDeviceToHost(x)
    <3>1. Busy(x) /\ HeadOf(x).op \notin AccumOps /\ Retire(x) /\ d_snap' = d_snap
      BY <2>3 DEF StreamWait, CopyHostToDevice, DecodeKernel, CopyDeviceToHost, At, AccumOps,
                  WholeArray
    <3>2. Untouched("snapshot", n, <<"read", c>>)' <=> Untouched("snapshot", n, <<"read", c>>)
      BY <1>1, <3>1, CellSteps, OtherRetired
    <3> QED
      BY <1>4, <1>5, <3>1, <3>2
  <2> QED
    BY <2>1, <2>2, <2>3 DEF Device
<1>6. ASSUME pending # Null, pc \notin {"snapshot", "d2h"}
      PROVE  CopyingOut' \/ h_snap'[pending] = LastRow
  <2>1. CopyingOut \/ h_snap[pending] = LastRow
    BY <1>6 DEF SnapshotInv
  <2>2. CASE CopyDeviceToHost(x)
    <3>1. At(x, "d2h") /\ h_snap' = [h_snap EXCEPT ![HeadOf(x).dst] = d_snap]
      BY <2>2 DEF CopyDeviceToHost
    <3>2. d_snap = LastRow /\ HeadOf(x).dst = pending
      BY <3>1, CopiesItsRow
    <3>3. pending \in {0, 1} /\ h_snap \in [{0, 1} -> AccumValue]
      BY <1>6 DEF TypeInv, TypeOK, Null
    <3> QED
      BY <3>1, <3>2, <3>3
  <2>3. CASE ~CopyDeviceToHost(x)
    <3>1. h_snap' = h_snap /\ ~At(x, "d2h") /\ Busy(x)
      BY <2>3 DEF Device, StreamWait, CopyHostToDevice, DecodeKernel, AggregateKernel,
           ResetKernel, SnapshotRead, SnapshotConsume, KernelStep, At
    <3>2. \A t \in Stream : \A p \in Unretired(t) : OpAt(t, p) = "d2h" => p \in Unretired(t)'
      <4>1. (Unretired(x)' = Unretired(x) \/ Unretired(x)' = Unretired(x) \ {retired[x] + 1})
            /\ Unretired(1 - x)' = Unretired(1 - x)
        <5>1. CASE Retire(x)
          BY <1>1, <3>1, <5>1, RetiredHead
        <5>2. CASE ~Retire(x)
          <6>1. UNCHANGED retired
            BY <5>2, StreamSteps DEF TypeInv
          <6> QED
            BY <1>1, <6>1 DEF Unretired
        <5> QED
          BY <5>1, <5>2
      <4>2. OpAt(x, retired[x] + 1) # "d2h"
        BY <3>1 DEF At, HeadOf, OpAt
      <4> QED
        BY <4>1, <4>2, OtherStreams
    <3>3. CopyingOut => CopyingOut'
      BY <1>1, <3>2 DEF CopyingOut, OpAt
    <3> QED
      BY <2>1, <3>1, <3>3
  <2> QED
    BY <2>2, <2>3
<1> QED
  BY <1>5, <1>6

-----------------------------------------------------------------------------
(***************************************************************************)
(* The final snapshot.                                                     *)
(***************************************************************************)
FinalRow == Report!Row(Len(opens), Interval * Len(printed)).cells

FinalInv ==
    /\ pc = "final_snapshot" => acc = FinalRow
    /\ pc \in {"final_d2h", "final_sync", "final_print"} =>
         /\ \A c \in Cells :
               IF Untouched("snapshot", Len(opens), <<"read", c>>)
               THEN acc[c] = FinalRow[c]
               ELSE d_snap[c] = FinalRow[c]
         /\ \A s \in Stream : \A p \in Unretired(s) :
               OpAt(s, p) = "d2h" => issued[s][p].dst = 0
    /\ pc \in {"final_sync", "final_print"} => CopyingOut \/ h_snap[0] = FinalRow

\* When nothing is in flight every cell counts all it ever will.
LEMMA RestingCells ==
    ASSUME TypeInv, AccumInv, pc \in {"sync", "print_pending"},
           \A s \in Stream : Unretired(s) = {}, NEW n, n = Len(opens), NEW m, m = Launched
    PROVE  acc = Report!Row(n, m).cells
<1>1. n \in Nat /\ m \in Nat /\ HostKey = 6 * n + 6
  <2>1. HostPhase = 6
    BY DEF HostPhase
  <2> QED
    BY <2>1, IntervalTypes, HostKeyType DEF HostKey
<1>2. ASSUME NEW o \in {"aggregate", "reset"}, NEW k \in Nat, NEW st
      PROVE  ToCome(o, k, st) <=> k > n
  <2>1. Key(o, k) = 6 * k + (IF o = "reset" THEN 0 ELSE 3)
    BY DEF Key, Phase
  <2> QED
    BY <1>1, <2>1 DEF ToCome, Untouched
<1>3. ASSUME NEW c \in Cells, NEW b \in Batch
      PROVE  acc[c][b] = Report!Row(n, m).cells[c][b]
  <2>1. b \in Nat /\ b >= 1
    BY DEF Batch
  <2>2. acc[c][b] = IF Counted(c, b) THEN 1 ELSE 0
    BY DEF AccumInv, FinalPc
  <2>3. ~ToCome("aggregate", b, <<"write", c>>) <=> b <= n
    BY <1>1, <1>2, <2>1
  <2>4. ResetSince(b, c) <=> \E k \in b+1..n : opens[k]
    <3>1. \A k \in b+1..n : ~ToCome("reset", k, <<"write", c>>)
      BY <1>1, <1>2, <2>1
    <3> QED
      BY <3>1 DEF ResetSince
  <2>5. Consumed(c) = m
    BY DEF Consumed, Untouched
  <2>6. c \in WindowCells <=> c \notin SumCells
    BY CellsAssumption DEF Cells
  <2>7. Report!Row(n, m).cells[c][b] =
          IF /\ b \in (IF c \in SumCells THEN 1 ELSE m + 1)..n
             /\ \A k \in b+1..n : ~opens[k]
          THEN 1 ELSE 0
    BY RowCells
  <2>8. Counted(c, b) <=> /\ b \in (IF c \in SumCells THEN 1 ELSE m + 1)..n
                          /\ \A k \in b+1..n : ~opens[k]
    BY <1>1, <2>1, <2>3, <2>4, <2>5, <2>6 DEF Counted
  <2> QED
    BY <2>2, <2>7, <2>8
<1>4. /\ acc \in [Cells -> [Batch -> Nat]]
      /\ \A c \in Cells : Report!Row(n, m).cells[c] \in [Batch -> {0, 1}]
      /\ Report!Row(n, m).cells = [c \in Cells |-> Report!Row(n, m).cells[c]]
  <2>1. Report!Row(n, m).cells = [c \in Cells |-> Report!Row(n, m).cells[c]]
    BY DEF Report!Row, Report!Cells, Cells
  <2> QED
    BY <2>1, RowCells DEF TypeInv, TypeOK, AccumValue, CellValue
<1>5. \A c \in Cells : acc[c] = Report!Row(n, m).cells[c]
  BY <1>3, <1>4
<1> QED
  BY <1>4, <1>5

\* The final snapshot starts from cells at rest.
LEMMA FinalStarts ==
    ASSUME TypeInv, OrderInv, IntervalInv, AccumInv, SyncStreams \/ PrintPending,
           pc' = "final_snapshot"
    PROVE  acc' = FinalRow'
<1>1. pc \in {"sync", "print_pending"} /\ UNCHANGED <<acc, opens>>
  BY DEF SyncStreams, PrintPending
<1>2. \A s \in Stream : Unretired(s) = {}
  BY SyncEmpties
<1>3. PICK n : n = Len(opens)
  OBVIOUS
<1>4. PICK m : m = Launched
  OBVIOUS
<1>5. acc = Report!Row(n, m).cells
  BY <1>1, <1>2, <1>3, <1>4, RestingCells
<1>6. Interval * Len(printed') = m
  <2>1. CASE SyncStreams
    <3>1. pending = Null /\ pc = "sync" /\ UNCHANGED printed
      BY <2>1 DEF SyncStreams
    <3> QED
      BY <1>4, <3>1 DEF Launched, Taken
  <2>2. CASE PrintPending
    <3>1. pending # Null /\ pc = "print_pending" /\ Len(printed') = Len(printed) + 1
      BY <2>2 DEF PrintPending, PrintRow, TypeInv, TypeOK, CountInv
    <3> QED
      BY <1>4, <3>1 DEF Launched, Taken
  <2> QED
    BY <2>1, <2>2
<1>7. Report!Row(n, m).cells' = Report!Row(n, m).cells
  BY <1>1 DEF Report!Row, Report!Account
<1>8. FinalRow' = Report!Row(n, m).cells
  BY <1>1, <1>3, <1>6, <1>7 DEF FinalRow
<1> QED
  BY <1>1, <1>5, <1>8

LEMMA HostKeepsFinal ==
    ASSUME TypeInv, OrderInv, ProgramOrder, DidInv, IntervalInv, AccumInv, FinalInv, Host
    PROVE  FinalInv'
<1>1. UNCHANGED <<acc, d_snap, h_snap>>
  BY HostFrame
<1>2. CASE SyncStreams \/ PrintPending
  <2>1. pc' \in {"final_snapshot", "print_pending"}
    BY <1>2 DEF SyncStreams, PrintPending
  <2> QED
    BY <1>2, <2>1, FinalStarts DEF FinalInv
<1>3. CASE FinalSnapshot \/ FinalCopyOut
  <2>1. PICK s \in Stream, d \in Command, n \in Nat :
             /\ Appended(s, n, d) /\ d.batch = Len(opens)
             /\ FinalSnapshot => d.op = "snapshot"
             /\ FinalCopyOut => d.op = "d2h" /\ d.dst = 0
    BY <1>3, WorkAppends DEF WorkStep
  <2>2. /\ UNCHANGED <<opens, printed>>
        /\ FinalSnapshot => pc = "final_snapshot" /\ pc' = "final_d2h"
        /\ FinalCopyOut => pc = "final_d2h" /\ pc' = "final_sync"
    BY <1>3 DEF FinalSnapshot, FinalCopyOut
  <2>3. FinalRow' = FinalRow
    BY <2>2 DEF FinalRow, Report!Row, Report!Account
  <2>4. PICK k : k = Len(opens)
    OBVIOUS
  <2>5. ASSUME NEW c \in Cells
        PROVE  IF Untouched("snapshot", k, <<"read", c>>)'
               THEN acc'[c] = FinalRow'[c] ELSE d_snap'[c] = FinalRow'[c]
    <3>1. "snapshot" \in AccumOps /\ WorkStep
      BY <1>3, CellSteps DEF WorkStep
    <3>2. \A st : /\ Untouched("snapshot", k, st)' => Untouched("snapshot", k, st) \/ d.op = "snapshot"
                  /\ d.op = "snapshot" /\ d.batch = k => Untouched("snapshot", k, st)'
                  /\ Untouched("snapshot", k, st) => Untouched("snapshot", k, st)'
      BY <2>1, <3>1, WorkUntouched, UntouchedKept
    <3>3. CASE FinalSnapshot
      BY <1>1, <2>1, <2>2, <2>3, <2>4, <3>2, <3>3 DEF FinalInv
    <3>4. CASE FinalCopyOut
      <4>1. IF Untouched("snapshot", k, <<"read", c>>)
            THEN acc[c] = FinalRow[c] ELSE d_snap[c] = FinalRow[c]
        BY <2>2, <2>4, <3>4 DEF FinalInv
      <4> QED
        BY <1>1, <2>1, <2>3, <3>2, <3>4, <4>1
    <3> QED
      BY <1>3, <3>3, <3>4
  <2>6. ASSUME NEW t \in Stream, NEW p \in Unretired(t)', OpAt(t, p)' = "d2h"
        PROVE  issued'[t][p].dst = 0
    <3>1. (p \in Unretired(t) /\ issued'[t][p] = issued[t][p]) \/ issued'[t][p] = d
      BY <2>1 DEF Appended
    <3>2. CASE FinalSnapshot
      <4>1. Unretired(t) = {}
        <5>1. Idle(0) /\ Idle(1)
          BY <2>2, <3>2 DEF OrderInv, IdleAtEnd, SyncedPc, FinalPc
        <5> QED
          BY <5>1, IdleEmpty DEF Stream
      <4> QED
        BY <2>1, <2>6, <3>1, <3>2, <4>1 DEF OpAt
    <3>3. CASE FinalCopyOut
      BY <2>1, <2>2, <2>6, <3>1, <3>3 DEF FinalInv, OpAt
    <3> QED
      BY <1>3, <3>2, <3>3
  <2>7. FinalCopyOut => CopyingOut'
    BY <2>1 DEF Appended, CopyingOut, OpAt
  <2> QED
    BY <1>3, <2>2, <2>4, <2>5, <2>6, <2>7 DEF FinalInv
<1>4. CASE FinalSync
  <2>1. pc = "final_sync" /\ pc' = "final_print" /\ UNCHANGED <<opens, printed, issued, retired, did>>
    BY <1>4 DEF FinalSync
  <2>2. FinalRow' = FinalRow
    BY <2>1 DEF FinalRow, Report!Row, Report!Account
  <2>3. \A s \in Stream : Unretired(s)' = Unretired(s)
    BY <2>1 DEF Unretired
  <2>4. CopyingOut' <=> CopyingOut
    BY <2>1, <2>3 DEF CopyingOut, OpAt
  <2>5. PICK k : k = Len(opens)
    OBVIOUS
  <2>6. \A st : Untouched("snapshot", k, st)' <=> Untouched("snapshot", k, st)
    BY <2>1, <2>3 DEF Untouched, Touched, OpAt, BatchAt
  <2> QED
    BY <1>1, <2>1, <2>2, <2>3, <2>4, <2>5, <2>6 DEF FinalInv, OpAt
<1>5. CASE ~(SyncStreams \/ PrintPending \/ FinalSnapshot \/ FinalCopyOut \/ FinalSync)
  <2>1. pc' \notin {"final_snapshot", "final_d2h", "final_sync", "final_print"}
    BY <1>5 DEF Host, Acquire, Fill, FeedEnds, WaitForBarrier, WaitBeforeReset, Reset,
       CopyIn, Decode, Aggregate, WaitBeforeSnapshot, Drain, PrintDrained, TakeSnapshot,
       CopyOut, NextBatch, FinalPrint
  <2> QED
    BY <2>1 DEF FinalInv
<1> QED
  BY <1>2, <1>3, <1>4, <1>5

LEMMA DeviceKeepsFinal ==
    ASSUME TypeInv, ProgramOrder, EarlierAwaited, DidInv, FinalInv, NEW x \in Stream, Device(x)
    PROVE  FinalInv'
<1>1. /\ UNCHANGED <<issued, opens, pc, printed>>
      /\ \A t \in Stream : Unretired(t)' \subseteq Unretired(t)
  BY DeviceInFlight DEF hostSide
<1>2. FinalRow' = FinalRow
  BY <1>1 DEF FinalRow, Report!Row, Report!Account
<1>3. PICK n : n = Len(opens)
  OBVIOUS
<1>4. Busy(x)
  BY StreamSteps DEF TypeInv
<1>5. PICK h \in Unretired(x) :
        /\ h = retired[x] + 1 /\ issued[x][h] = HeadOf(x)
        /\ OpAt(x, h) = HeadOf(x).op /\ BatchAt(x, h) = HeadOf(x).batch
  BY <1>4, HeadInFlight
<1> SUFFICES ASSUME pc \in {"final_snapshot", "final_d2h", "final_sync", "final_print"}
             PROVE  FinalInv'
  BY <1>1 DEF FinalInv
<1>6. /\ HeadOf(x).op \in SnapOps /\ HeadOf(x).batch = n /\ x = 0 /\ KeyAt(x, h) < HostKey
      /\ n \in Nat
  <2>1. OpAt(x, h) \in SnapOps /\ BatchAt(x, h) = n /\ x = 0
    BY <1>3 DEF FinalPc, ProgramOrder, FinalOnly
  <2>2. OpAt(x, h) # "wait"
    BY <2>1 DEF SnapOps
  <2> QED
    BY <1>3, <1>5, <2>1, <2>2, HostKeyType DEF ProgramOrder, KeysBelowHost
<1>7. pc # "final_snapshot"
  <2>1. pc = "final_snapshot" => HostPhase = 4
    BY DEF HostPhase
  <2>2. Phase("snapshot") = 4 /\ Phase("d2h") = 5
    BY DEF Phase
  <2> HIDE DEF Phase
  <2> QED
    BY <1>3, <1>5, <1>6, <2>1, <2>2 DEF HostKey, KeyAt, Key, SnapOps
<1>8. CASE HeadOf(x).op = "snapshot"
  <2>1. SnapshotRead(x) \/ SnapshotConsume(x)
    BY <1>8 DEF Device, StreamWait, CopyHostToDevice, DecodeKernel, AggregateKernel,
         ResetKernel, CopyDeviceToHost, KernelStep, At
  <2>2. acc \in [Cells -> CellValue] /\ d_snap \in [Cells -> CellValue]
    BY DEF TypeInv, TypeOK, AccumValue
  <2>3. \A d \in Cells :
          IF Untouched("snapshot", n, <<"read", d>>)
          THEN acc[d] = FinalRow[d] ELSE d_snap[d] = FinalRow[d]
    BY <1>3, <1>7 DEF FinalInv
  <2>4. ASSUME NEW st \in Steps("snapshot"), KernelStep(x, "snapshot", st),
               NEW d \in Cells, <<"read", d>> # st
        PROVE  Untouched("snapshot", n, <<"read", d>>)' <=> Untouched("snapshot", n, <<"read", d>>)
    BY <1>6, <2>4, CellSteps, KernelTakes
  <2>5. ASSUME SnapshotRead(x), NEW d \in Cells
        PROVE  IF Untouched("snapshot", n, <<"read", d>>)'
               THEN acc'[d] = FinalRow[d] ELSE d_snap'[d] = FinalRow[d]
    <3>1. PICK c \in Cells :
            KernelStep(x, "snapshot", <<"read", c>>) /\ d_snap' = [d_snap EXCEPT ![c] = acc[c]]
      BY <2>5 DEF SnapshotRead
    <3>2. acc' = acc
      BY <2>5 DEF SnapshotRead
    <3>3. CASE d # c
      BY <2>2, <2>3, <2>4, <3>1, <3>2, <3>3, CellSteps
    <3>4. CASE d = c
      <4>1. PICK k : k = HeadOf(x).batch
        OBVIOUS
      <4>2. /\ Untouched("snapshot", n, <<"read", c>>)
            /\ ~Untouched("snapshot", n, <<"read", c>>)'
        BY <1>6, <3>1, <4>1, CellSteps, KernelTakes
      <4> QED
        BY <2>2, <2>3, <3>1, <3>4, <4>2
    <3> QED
      BY <3>3, <3>4
  <2>6. ASSUME SnapshotConsume(x), NEW d \in Cells
        PROVE  IF Untouched("snapshot", n, <<"read", d>>)'
               THEN acc'[d] = FinalRow[d] ELSE d_snap'[d] = FinalRow[d]
    <3>1. PICK c \in WindowCells :
            /\ <<"read", c>> \in did[x] /\ KernelStep(x, "snapshot", <<"consume", c>>)
            /\ acc' = [acc EXCEPT ![c] = EmptyCell]
      BY <2>6 DEF SnapshotConsume
    <3>2. d_snap' = d_snap
      BY <2>6 DEF SnapshotConsume
    <3>3. ~Untouched("snapshot", n, <<"read", c>>)
      <4> SUFFICES ASSUME NEW t \in Stream, NEW q \in Unretired(t),
                          OpAt(t, q) = "snapshot", BatchAt(t, q) = n
                   PROVE  Touched(t, q, <<"read", c>>)
        BY DEF Untouched
      <4>1. OpAt(x, h) = "snapshot" /\ BatchAt(x, h) = n
        BY <1>5, <1>6, <1>8
      <4>2. t = x /\ q = h
        BY <4>1, UniquePlace
      <4> QED
        BY <1>5, <3>1, <4>2 DEF Touched
    <3>4. <<"read", d>> # <<"consume", c>> /\ <<"consume", c>> \in Steps("snapshot")
      BY CellSteps
    <3>5. Untouched("snapshot", n, <<"read", d>>)' <=> Untouched("snapshot", n, <<"read", d>>)
      BY <2>4, <3>1, <3>4
    <3>6. d # c => acc'[d] = acc[d]
      BY <2>2, <3>1
    <3> QED
      BY <2>3, <3>2, <3>3, <3>5, <3>6
  <2>7. CopyingOut => CopyingOut'
    <3>1. \A t \in Stream : \A p \in Unretired(t) : OpAt(t, p) = "d2h" => p \in Unretired(t)'
      <4>1. CASE Retire(x)
        <5>1. /\ Unretired(x)' = Unretired(x) \ {h} /\ Unretired(1 - x)' = Unretired(1 - x)
          BY <1>1, <1>4, <1>5, <4>1, RetiredHead
        <5> QED
          BY <1>5, <1>8, <5>1, OtherStreams
      <4>2. CASE ~Retire(x)
        <5>1. UNCHANGED retired
          BY <4>2, StreamSteps DEF TypeInv
        <5> QED
          BY <1>1, <5>1 DEF Unretired
      <4> QED
        BY <4>1, <4>2
    <3> QED
      BY <1>1, <3>1 DEF CopyingOut, OpAt
  <2>8. h_snap' = h_snap
    BY <2>1 DEF SnapshotRead, SnapshotConsume
  <2> QED
    BY <1>1, <1>2, <1>3, <1>7, <2>1, <2>5, <2>6, <2>7, <2>8 DEF FinalInv, OpAt
<1>9. CASE HeadOf(x).op = "d2h"
  <2>1. /\ h_snap' = [h_snap EXCEPT ![HeadOf(x).dst] = d_snap] /\ UNCHANGED <<acc, d_snap>>
        /\ Retire(x)
    BY <1>9 DEF Device, StreamWait, CopyHostToDevice, DecodeKernel, AggregateKernel,
         ResetKernel, SnapshotRead, SnapshotConsume, CopyDeviceToHost, KernelStep, At
  <2>2. HeadOf(x).dst = 0
    BY <1>5, <1>7, <1>9 DEF FinalInv
  <2>3. ASSUME NEW c \in Cells
        PROVE  d_snap[c] = FinalRow[c] /\ ~Untouched("snapshot", n, <<"read", c>>)'
    <3>1. ASSUME Untouched("snapshot", n, <<"read", c>>) PROVE FALSE
      <4>1. PICK t \in Stream : \E q \in Unretired(t) :
              OpAt(t, q) = "snapshot" /\ BatchAt(t, q) = n
        BY <3>1 DEF Untouched
      <4>2. PICK q \in Unretired(t) : OpAt(t, q) = "snapshot" /\ BatchAt(t, q) = n
        BY <4>1
      <4>3. t = x
        BY <1>6, <4>2 DEF ProgramOrder, FinalOnly, FinalPc
      <4>4. Key("d2h", n) <= Key("snapshot", n)
        BY <1>4, <1>6, <1>9, <4>2, <4>3, HeadFirst DEF KeyAt
      <4> QED
        BY <1>6, <4>4 DEF Key, Phase
    <3>2. Untouched("snapshot", n, <<"read", c>>)' <=> Untouched("snapshot", n, <<"read", c>>)
      <4>1. HeadOf(x).op \notin AccumOps
        BY <1>9 DEF AccumOps, WholeArray
      <4> QED
        BY <1>1, <1>4, <2>1, <4>1, CellSteps, OtherRetired
    <3> QED
      BY <1>3, <1>7, <3>1, <3>2 DEF FinalInv
  <2>4. d_snap = FinalRow
    <3>1. FinalRow = [c \in Cells |-> FinalRow[c]] /\ d_snap \in [Cells -> CellValue]
      BY DEF FinalRow, Report!Row, Report!Cells, Cells, TypeInv, TypeOK, AccumValue
    <3> QED
      BY <2>3, <3>1
  <2>5. h_snap'[0] = FinalRow
    BY <2>1, <2>2, <2>4 DEF TypeInv, TypeOK
  <2> QED
    BY <1>1, <1>2, <1>3, <1>7, <2>1, <2>3, <2>5 DEF FinalInv, OpAt
<1> QED
  BY <1>6, <1>8, <1>9 DEF SnapOps

-----------------------------------------------------------------------------
(***************************************************************************)
(* The invariant, and the refinement.                                      *)
(***************************************************************************)
ReportInv ==
    /\ ProgramOrder /\ EarlierAwaited /\ SlotData
    /\ DidInv /\ LaterToCome
    /\ IntervalInv /\ SnapBatch
    /\ AccumInv /\ SnapshotInv /\ FinalInv

LEMMA InitReport == Init => ReportInv
<1> SUFFICES ASSUME Init PROVE ReportInv
  OBVIOUS
<1>1. /\ pc = "acquire" /\ opens = <<>> /\ Len(opens) = 0 /\ printed = <<>> /\ Len(printed) = 0
      /\ batches = 0 /\ last_ts = 0 /\ pending = Null /\ acc = EmptyAccum
      /\ \A s \in Stream : Unretired(s) = {} /\ did[s] = {}
  BY DEF Init, Unretired
<1>2. ProgramOrder /\ EarlierAwaited /\ SlotData /\ LaterToCome /\ SnapBatch
  BY <1>1 DEF ProgramOrder, KeysBelowHost, KeysIncrease, StreamOfBatch, InLoop, FinalOnly, FinalPc,
              FlagsKnown, InBatch, EarlierAwaited, SlotData, LaterToCome, SnapBatch
<1>3. DidInv
  BY <1>1 DEF DidInv
<1>4. Launched = 0
  BY <1>1 DEF Launched, Taken
<1>5. IntervalInv
  BY <1>1, <1>4 DEF IntervalInv, FinalPc, Due
<1>6. AccumInv
  <2>1. HostKey = 6
    BY <1>1 DEF HostKey, HostPhase
  <2>2. ASSUME NEW c \in Cells, NEW b \in Batch PROVE acc[c][b] = 0 /\ ~Counted(c, b)
    <3>1. acc[c][b] = 0
      BY <1>1 DEF EmptyAccum, EmptyCell
    <3>2. Key("aggregate", b) = 6 * b + 3 /\ b \in Nat /\ b >= 1
      BY DEF Key, Phase, Batch
    <3>3. ToCome("aggregate", b, <<"write", c>>)
      BY <2>1, <3>2 DEF ToCome
    <3> QED
      BY <3>1, <3>3 DEF Counted
  <2> QED
    BY <2>2 DEF AccumInv
<1>7. SnapshotInv /\ FinalInv
  BY <1>1, <1>4 DEF SnapshotInv, FinalInv
<1> QED
  BY <1>2, <1>3, <1>5, <1>6, <1>7 DEF ReportInv

LEMMA HostKeepsReport ==
    ASSUME TypeInv, SlotInv, OrderInv, SnapshotsInTurn, ReportInv, Host
    PROVE  ReportInv'
<1> USE DEF ReportInv
<1>1. ProgramOrder' /\ DidInv' /\ LaterToCome' /\ IntervalInv' /\ SnapBatch'
  BY HostKeepsProgram, HostKeepsDid, HostKeepsLater, HostKeepsInterval, HostKeepsSnapBatch
<1>2. EarlierAwaited' /\ SlotData'
  <2>1. CASE QuietStep
    BY <2>1, QuietKeepsAwaited, QuietKeepsSlotData
  <2>2. CASE WorkStep
    BY <2>2, WorkKeepsAwaited, WorkKeepsSlotData
  <2> QED
    BY <2>1, <2>2, HostKinds DEF QuietStep
<1>3. AccumInv' /\ SnapshotInv' /\ FinalInv'
  BY HostKeepsAccum, HostKeepsSnapshots, HostKeepsFinal
<1> QED
  BY <1>1, <1>2, <1>3

LEMMA DeviceKeepsReport ==
    ASSUME TypeInv, ReportInv, NEW x \in Stream, Device(x)
    PROVE  ReportInv'
<1> USE DEF ReportInv
<1>1. ProgramOrder' /\ EarlierAwaited' /\ SlotData' /\ DidInv' /\ LaterToCome'
  BY DeviceKeepsProgram, DeviceKeepsAwaited, DeviceKeepsSlotData, DeviceKeepsDid,
     DeviceKeepsLater
<1>2. IntervalInv' /\ SnapBatch'
  BY DeviceSnapshots
<1>3. AccumInv' /\ SnapshotInv' /\ FinalInv'
  BY DeviceKeepsAccum, DeviceKeepsSnapshots, DeviceKeepsFinal
<1> QED
  BY <1>1, <1>2, <1>3

LEMMA StutterKeepsReport ==
    ASSUME ReportInv, UNCHANGED vars
    PROVE  ReportInv'
<1>1. UNCHANGED <<pc, si, slot, reset_vwap, batches, last_ts, pending, pending_ts, issued,
                  retired, did, h_raw, d_raw, soa, acc, d_snap, h_snap, opens, printed>>
  BY DEF vars
<1>2. /\ \A s : Unretired(s)' = Unretired(s)
      /\ \A s, p : /\ OpAt(s, p)' = OpAt(s, p) /\ BatchAt(s, p)' = BatchAt(s, p)
                   /\ KeyAt(s, p)' = KeyAt(s, p)
      /\ \A op, k : Key(op, k)' = Key(op, k) /\ (Real(op, k)' <=> Real(op, k))
      /\ HostKey' = HostKey /\ Taken' = Taken /\ Launched' = Launched
  BY <1>1 DEF Unretired, OpAt, BatchAt, KeyAt, Key, Phase, HostKey, HostPhase, Taken, Launched,
              Real
<1>3. \A op, k, st : (Untouched(op, k, st)' <=> Untouched(op, k, st))
                     /\ (ToCome(op, k, st)' <=> ToCome(op, k, st))
  BY <1>1, <1>2 DEF Untouched, Touched, ToCome
<1>4. ProgramOrder'
  BY <1>1, <1>2 DEF ReportInv, ProgramOrder, KeysBelowHost, KeysIncrease, StreamOfBatch,
                    FinalOnly, FlagsKnown, InBatch
<1>5. EarlierAwaited' /\ SlotData'
  BY <1>1, <1>2 DEF ReportInv, EarlierAwaited, Conflict, HoldsBack, Covers, SlotData, Uses,
                    CopiedIn, Decoded, InUse, InBatch
<1>6. DidInv' /\ LaterToCome' /\ IntervalInv' /\ SnapBatch'
  BY <1>1, <1>2, <1>3 DEF ReportInv, DidInv, Busy, HeadOf, LaterToCome, Conflict, Steps,
                          IntervalInv, SnapBatch
<1>7. AccumInv'
  BY <1>1, <1>2, <1>3 DEF ReportInv, AccumInv, Counted, ResetSince, Consumed
<1>8. SnapshotInv' /\ FinalInv'
  <2>1. LastRow' = LastRow /\ FinalRow' = FinalRow
    BY <1>1, <1>2 DEF LastRow, FinalRow, Report!Row, Report!Account
  <2>2. CopyingOut' <=> CopyingOut
    BY <1>2 DEF CopyingOut
  <2>3. SnapshotInv'
    BY <1>1, <1>2, <1>3, <2>1, <2>2 DEF ReportInv, SnapshotInv
  <2>4. FinalInv'
    BY <1>1, <1>2, <1>3, <2>1, <2>2 DEF ReportInv, FinalInv
  <2> QED
    BY <2>3, <2>4
<1> QED
  BY <1>4, <1>5, <1>6, <1>7, <1>8 DEF ReportInv

LEMMA ReportInvariance == Spec => [](TypeInv /\ OrderInv /\ SnapshotsInTurn /\ ReportInv)
<1>1. TypeInv /\ SlotInv /\ OrderInv /\ SnapshotsInTurn /\ ReportInv /\ [Next]_vars => ReportInv'
  BY HostKeepsReport, DeviceKeepsReport, StutterKeepsReport DEF Next, Terminated
<1> QED
  BY SlotInvariance, TurnInvariance, InitReport, <1>1, PTL DEF Spec

\* fill returns a batch.
LEMMA FillAccepts ==
    ASSUME TypeInv, Fill
    PROVE  Report!Accept
<1>1. Len(opens) = batches /\ batches < MaxBatches
  BY DEF Fill, TypeInv, CountInv, InBatch
<1> QED
  BY <1>1 DEF Fill, Report!Accept, LoopLeft

\* A periodic row is the one due next.
LEMMA PrintReports ==
    ASSUME TypeInv, OrderInv, SnapshotsInTurn, ReportInv, PrintDrained \/ PrintPending
    PROVE  Report!ReportPeriodic
<1>1. /\ pc \in {"print", "print_pending"} /\ pending # Null
      /\ printed' = Append(printed, [ts |-> pending_ts, cells |-> h_snap[pending]])
      /\ UNCHANGED opens /\ LoopLeft' = LoopLeft
  BY DEF PrintDrained, PrintPending, PrintRow, TypeInv, CountInv, LoopLeft
<1>2. PICK n : n = Launched
  OBVIOUS
<1>3. pending_ts = n /\ n = Interval * (Len(printed) + 1) /\ n >= 1 /\ n <= Len(opens)
  <2>1. Taken = Len(printed) + 1
    BY <1>1 DEF Taken
  <2>2. Launched = Interval * (Len(printed) + 1)
    BY <2>1 DEF Launched
  <2>3. Launched >= 1
    BY <2>2, IntervalTypes
  <2> QED
    BY <1>1, <1>2, <2>2, <2>3, LaunchedBehind DEF ReportInv, IntervalInv, FinalPc
<1>4. ~CopyingOut
  <2>1. CASE PrintDrained
    BY <2>1 DEF PrintDrained, SnapshotsInTurn, IsSnap, SnapOps, CopyingOut, OpAt
  <2>2. CASE PrintPending
    BY <2>2, SyncEmpties DEF CopyingOut
  <2> QED
    BY <2>1, <2>2
<1>5. h_snap[pending] = Report!Row(n, n - Interval).cells
  BY <1>1, <1>2, <1>4 DEF ReportInv, SnapshotInv, LastRow, FinalPc
<1>6. [ts |-> pending_ts, cells |-> h_snap[pending]] = Report!Row(n, n - Interval)
  BY <1>3, <1>5 DEF Report!Row
<1> QED
  BY <1>1, <1>3, <1>6 DEF Report!ReportPeriodic

\* The last row is the final one.
LEMMA FinalReports ==
    ASSUME TypeInv, OrderInv, ReportInv, FinalPrint
    PROVE  Report!ReportFinal
<1>1. /\ pc = "final_print" /\ pc' = "done"
      /\ printed' = Append(printed, [ts |-> last_ts, cells |-> h_snap[0]])
      /\ UNCHANGED opens
  BY DEF FinalPrint, PrintRow
<1>2. LoopLeft /\ LoopLeft'
  BY <1>1 DEF LoopLeft
<1>3. Len(opens) = batches /\ last_ts = batches
  BY <1>1 DEF TypeInv, CountInv, InBatch, ReportInv, IntervalInv
<1>4. Interval * Len(printed) <= Len(opens) /\ Len(opens) < Interval * (Len(printed) + 1)
  BY <1>1, <1>3 DEF ReportInv, IntervalInv, FinalPc
<1>5. ~CopyingOut
  <2>1. Idle(0) /\ Idle(1)
    BY <1>1 DEF OrderInv, IdleAtEnd, SyncedPc, FinalPc
  <2> QED
    BY <2>1, IdleEmpty DEF CopyingOut, Stream
<1>6. h_snap[0] = Report!Row(Len(opens), Interval * Len(printed)).cells
  BY <1>1, <1>5 DEF ReportInv, FinalInv, FinalRow
<1>7. [ts |-> last_ts, cells |-> h_snap[0]] = Report!Row(Len(opens), Interval * Len(printed))
  BY <1>3, <1>6 DEF Report!Row
<1> QED
  BY <1>1, <1>2, <1>4, <1>7 DEF Report!ReportFinal

\* The other steps of the host end the feed, or nothing the report speaks of changes.
LEMMA OthersCloseOrStutter ==
    ASSUME TypeInv, Host, ~Fill, ~PrintDrained, ~PrintPending, ~FinalPrint
    PROVE  Report!Close \/ UNCHANGED Report!vars
<1>1. UNCHANGED <<opens, printed>>
  BY DEF Host, Acquire, FeedEnds, WaitForBarrier, WaitBeforeReset, Reset, CopyIn, Decode,
     Aggregate, WaitBeforeSnapshot, Drain, TakeSnapshot, CopyOut, NextBatch, SyncStreams,
     FinalSnapshot, FinalCopyOut, FinalSync
<1>2. LoopLeft => LoopLeft'
  BY DEF Host, Acquire, FeedEnds, WaitForBarrier, WaitBeforeReset, Reset, CopyIn, Decode,
     Aggregate, WaitBeforeSnapshot, Drain, TakeSnapshot, CopyOut, NextBatch, SyncStreams,
     FinalSnapshot, FinalCopyOut, FinalSync, LoopLeft
<1>3. LoopLeft \in BOOLEAN /\ LoopLeft' \in BOOLEAN
  BY DEF LoopLeft
<1> QED
  BY <1>1, <1>2, <1>3 DEF Report!Close, Report!vars

\* run_gpu prints exactly the rows promised, in order, each once and with every batch
\* counted once in the right window, however the streams run.
THEOREM ImplementsReport == Spec => ReportsAsPromised
<1>1. Init => Report!Init
  BY DEF Init, Report!Init, LoopLeft
<1>2. TypeInv /\ OrderInv /\ SnapshotsInTurn /\ ReportInv /\ [Next]_vars
        => [Report!Next]_(Report!vars)
  <2> SUFFICES ASSUME TypeInv, OrderInv, SnapshotsInTurn, ReportInv, [Next]_vars
               PROVE  [Report!Next]_(Report!vars)
    OBVIOUS
  <2>1. CASE UNCHANGED vars
    BY <2>1 DEF vars, Report!vars, LoopLeft
  <2>2. CASE Host
    BY <2>2, FillAccepts, PrintReports, FinalReports, OthersCloseOrStutter DEF Report!Next
  <2>3. ASSUME NEW x \in Stream, Device(x) PROVE UNCHANGED Report!vars
    BY <2>3, DeviceInFlight DEF hostSide, Report!vars, LoopLeft
  <2> QED
    BY <2>1, <2>2, <2>3 DEF Next, Terminated
<1> QED
  BY <1>1, <1>2, ReportInvariance, PTL DEF Spec, ReportsAsPromised, Report!Spec

==============================================================================
