---------------------------- MODULE FeedRunProofs ----------------------------
(***************************************************************************)
(* For every feed, every batch size, interval and limit of messages: the   *)
(* rows of a run count exactly the messages since the last market open,    *)
(* wherever batches end, and its statistics are exact.                     *)
(***************************************************************************)
EXTENDS FeedRun, BatchAssemblerProofs

USE OptionsAssumption

-----------------------------------------------------------------------------
(***************************************************************************)
(* What one message does to a batch.                                       *)
(***************************************************************************)

\* It is copied into the next slot.
Shipped ==
    /\ shippable' = shippable \cup {parsed + 1}
    /\ \E s \in SlotType : s.at = parsed + 1 /\ slots' = Append(slots, s)
    /\ UNCHANGED <<filling, reset_vwap, pending_reset_, symbols, opens, listings>>

\* It is a market open.
Opened ==
    /\ opens' = opens \cup {parsed + 1}
    /\ FlagsOrCuts
    /\ UNCHANGED <<slots, symbols, shippable, listings>>

\* It names the symbol.
Listed ==
    /\ listings' = listings \cup {parsed + 1}
    /\ symbols' = parsed + 1
    /\ UNCHANGED <<filling, slots, reset_vwap, pending_reset_, shippable, opens>>

\* It is of no interest.
Passed == UNCHANGED <<filling, slots, reset_vwap, pending_reset_, symbols, shippable, opens, listings>>

\* The four sets of the feed, for a message of a given kind.
LEMMA FeedStep ==
    ASSUME NEW m \in Message, Parse(m)
    PROVE  /\ parsed' = parsed + 1 /\ ended' = ended
           /\ shippable' = IF gpu_relevant(m) /\ ~TooLong(m) THEN shippable \cup {parsed + 1} ELSE shippable
           /\ opens' = IF Open(m) THEN opens \cup {parsed + 1} ELSE opens
           /\ listings' = IF m.type = "R" THEN listings \cup {parsed + 1} ELSE listings
BY DEF Parse, FeedAfter

\* A message that is shipped is for the GPU and fits its slot.
LEMMA ShippedStep ==
    ASSUME TypeInv, Room, NEW m \in Message, Parse(m), NEW tag \in Side \cup {NoSide}, Ship(m, tag),
           gpu_relevant(m), ~TooLong(m), m.type \notin {"R", "S"}
    PROVE  Shipped
<1>1. FeedType /\ FillType
  BY TypeParts
<1>2. parsed' = parsed + 1 /\ parsed' \in 1..MaxParsed
  BY <1>1, ParseType
<1>3. [at |-> parsed', msg |-> m, tag |-> tag] \in SlotType
  BY <1>2 DEF SlotType
<1>4. slots' = Append(slots, [at |-> parsed', msg |-> m, tag |-> tag])
  BY DEF Ship
<1>5. \E s \in SlotType : s.at = parsed + 1 /\ slots' = Append(slots, s)
  BY <1>2, <1>3, <1>4
<1>6. shippable' = shippable \cup {parsed + 1} /\ opens' = opens /\ listings' = listings
  BY FeedStep DEF Open
<1> QED
  BY <1>5, <1>6 DEF Ship, Shipped

\* An iteration of fill does one of the four.
LEMMA MessageStep ==
    ASSUME TypeInv, Iterate
    PROVE  /\ filling /\ Len(slots) < BATCH_MSGS
           /\ parsed' = parsed + 1 /\ ended' = ended
           /\ Shipped \/ Opened \/ Listed \/ Passed
<1>1. Room
  BY DEF Iterate
<1>2. PICK m \in Message :
        /\ Parse(m)
        /\ \/ StockDirectory(m) \/ SystemEvent(m) \/ Skip(m)
           \/ AddOrder(m) \/ OrderCancel(m) \/ OrderDelete(m)
           \/ OrderReplace(m) \/ OrderReplaceUnresolved(m) \/ Trade(m)
  BY DEF Iterate
<1>3. parsed' = parsed + 1 /\ ended' = ended
  BY <1>2, FeedStep
<1>4. CASE StockDirectory(m)
  <2>1. Listed
    BY <1>2, <1>4, FeedStep DEF StockDirectory, Listed, Update, gpu_relevant, Open
  <2> QED BY <1>1, <1>3, <2>1 DEF Room
<1>5. CASE SystemEvent(m)
  <2>1. Opened \/ Passed
    BY <1>2, <1>5, FeedStep DEF SystemEvent, Opened, Passed, gpu_relevant
  <2> QED BY <1>1, <1>3, <2>1 DEF Room
<1>6. CASE Skip(m)
  <2>1. Passed
    BY <1>2, <1>6, FeedStep DEF Skip, fillVars, Passed, Open
  <2> QED BY <1>1, <1>3, <2>1 DEF Room
<1>7. CASE AddOrder(m) \/ OrderCancel(m) \/ OrderDelete(m) \/ OrderReplaceUnresolved(m) \/ Trade(m)
  <2>1. m.type \in {"A", "X", "D", "U"} \/ (m.type = "P" /\ ~TooLong(m))
    BY <1>7 DEF AddOrder, OrderCancel, OrderDelete, OrderReplaceUnresolved, Trade
  <2>2. gpu_relevant(m) /\ ~TooLong(m) /\ m.type \notin {"R", "S"}
    BY <2>1 DEF gpu_relevant, TooLong
  <2>3. Ship(m, NoSide)
    BY <1>7 DEF AddOrder, OrderCancel, OrderDelete, OrderReplaceUnresolved, Trade
  <2>4. Shipped
    BY <1>1, <1>2, <2>2, <2>3, ShippedStep
  <2> QED BY <1>1, <1>3, <2>4 DEF Room
<1>8. CASE OrderReplace(m)
  <2>1. gpu_relevant(m) /\ ~TooLong(m) /\ m.type \notin {"R", "S"}
    BY <1>8 DEF OrderReplace, gpu_relevant, TooLong
  <2>2. PICK o \in orders : Ship(m, o.side)
    BY <1>8 DEF OrderReplace, Stored
  <2>3. o.side \in Side \cup {NoSide}
    BY DEF TypeInv, TypeOK, Order
  <2>4. Shipped
    BY <1>1, <1>2, <2>1, <2>2, <2>3, ShippedStep
  <2> QED BY <1>1, <1>3, <2>4 DEF Room
<1> QED
  BY <1>2, <1>4, <1>5, <1>6, <1>7, <1>8

-----------------------------------------------------------------------------
(***************************************************************************)
(* The type invariant.                                                     *)
(***************************************************************************)

Cell     == [Number -> Nat]
SnapType == [ts : Nat, sums : Cell, window : Cell]
RowType  == [ts : Nat, sums : Cell, window : Cell, name : Nat]

DriverType ==
    /\ gpu \in BOOLEAN
    /\ pc \in {"fill", "filling", "filled", "snapshot", "next_batch", "final", "done"}
    /\ sums \in Cell /\ window \in Cell
    /\ last_ts \in 0..parsed
    /\ batches \in Nat /\ shipped_msgs \in Nat /\ snapshots \in Nat
    /\ pending \in Seq(SnapType) /\ Len(pending) <= 1
    /\ rows \in Seq(RowType)
    /\ filling <=> pc = "filling"

RunType == TypeInv /\ DriverType

-----------------------------------------------------------------------------
(***************************************************************************)
(* The batch at hand.                                                      *)
(***************************************************************************)

\* fill has the batch, or has had it and it is not aggregated yet.
InHand == pc \in {"filling", "filled"}

Numbers == {slots[k].at : k \in DOMAIN slots}

\* The slots are in the order of the feed, and those at hand are all the
\* messages for the GPU since the last batch.
SlotsInv ==
    /\ \A k, l \in DOMAIN slots : k < l => slots[k].at < slots[l].at
    /\ {i \in shippable : last_ts < i} = IF InHand THEN Numbers ELSE {}
    /\ last_ts \in shippable \cup {0}
    /\ shippable \cap opens = {}

\* The market opens since the last batch.
Late == {o \in opens : last_ts < o}

(***************************************************************************)
(* They precede the batch at hand, which is then flagged, or follow it,    *)
(* and are then carried to the next one; none lies within it.              *)
(***************************************************************************)
OpensInv ==
    /\ pc = "filling" => ~pending_reset_
    /\ InHand =>
         /\ \A o \in Late : \A k, l \in DOMAIN slots : o < slots[k].at => o < slots[l].at
         /\ reset_vwap <=> \E o \in Late : \A k \in DOMAIN slots : o < slots[k].at
         /\ pending_reset_ <=> \E o \in Late : \E k \in DOMAIN slots : slots[k].at < o
    /\ pc \in {"fill", "snapshot", "next_batch"} => (pending_reset_ <=> Late # {})

BatchInv == SlotsInv /\ OpensInv

\* What the type invariant says of the numbers of the feed.
LEMMA Counted ==
    ASSUME RunType
    PROVE  /\ parsed \in Nat /\ last_ts \in Nat /\ last_ts <= parsed
           /\ shippable \subseteq Nat /\ opens \subseteq Nat /\ listings \subseteq Nat
           /\ \A i \in shippable \cup opens \cup listings : i >= 1 /\ i <= parsed
           /\ Len(slots) \in Nat /\ DOMAIN slots = 1..Len(slots)
           /\ \A k \in DOMAIN slots : slots[k].at \in Nat
<1>1. slots \in Seq(SlotType)
  BY DEF RunType, TypeInv, TypeOK
<1>2. \A k \in DOMAIN slots : slots[k].at \in Nat
  <2>1. \A k \in DOMAIN slots : slots[k] \in SlotType
    BY <1>1
  <2>2. \A s \in SlotType : s.at \in Nat
    BY DEF SlotType
  <2> QED BY <2>1, <2>2
<1>3. Len(slots) \in Nat /\ DOMAIN slots = 1..Len(slots)
  BY <1>1
<1>4. parsed \in Nat /\ last_ts \in Nat /\ last_ts <= parsed
  BY DEF RunType, DriverType, TypeInv, TypeOK
<1>5. \A i \in shippable \cup opens \cup listings : i \in Nat /\ i >= 1 /\ i <= parsed
  BY <1>4 DEF RunType, TypeInv, TypeOK
<1> QED
  BY <1>2, <1>3, <1>4, <1>5

\* The messages at hand are in the feed.
LEMMA SlotNumbers ==
    ASSUME RunType, SlotsInv, InHand, NEW k \in DOMAIN slots
    PROVE  slots[k].at \in shippable /\ last_ts < slots[k].at
BY DEF SlotsInv, Numbers

\* A message that fill copies extends the batch.
LEMMA ShippedBatch ==
    ASSUME RunType, BatchInv, pc = "filling", parsed' = parsed + 1, Shipped, ~pending_reset_,
           pc' = "filling", last_ts' = last_ts
    PROVE  BatchInv'
<1> DEFINE n == Len(slots)
<1>1. PICK s \in SlotType : s.at = parsed + 1 /\ slots' = Append(slots, s)
  BY DEF Shipped
<1>2. slots \in Seq(SlotType)
  BY DEF RunType, TypeInv, TypeOK
<1>3. /\ n \in Nat /\ DOMAIN slots = 1..n /\ DOMAIN slots' = 1..n+1
      /\ \A k \in 1..n : slots'[k] = slots[k]
      /\ slots'[n+1] = s
  BY <1>1, <1>2
<1>4. InHand /\ InHand'
  BY DEF InHand
<1>5. \A k \in 1..n : slots[k].at \in shippable /\ last_ts < slots[k].at /\ slots[k].at < parsed + 1
  BY <1>3, <1>4, SlotNumbers, Counted DEF BatchInv
<1>6. shippable' = shippable \cup {parsed + 1} /\ opens' = opens
  BY DEF Shipped
<1>7. \A k, l \in 1..n : k < l => slots[k].at < slots[l].at
  BY <1>3 DEF BatchInv, SlotsInv
<1>8. \A k, l \in 1..n+1 : k < l => slots'[k].at < slots'[l].at
  <2> HIDE DEF n
  <2> QED BY <1>1, <1>3, <1>5, <1>7
<1>9. Numbers' = Numbers \cup {parsed + 1}
  <2>1. Numbers' = {slots'[k].at : k \in 1..n+1} /\ Numbers = {slots[k].at : k \in 1..n}
    BY <1>3 DEF Numbers
  <2>2. 1..n+1 = 1..n \cup {n+1}
    BY <1>3
  <2> HIDE DEF n
  <2> QED BY <1>1, <1>3, <2>1, <2>2
<1>10. {i \in shippable' : last_ts < i} = {i \in shippable : last_ts < i} \cup {parsed + 1}
  BY <1>6, Counted
<1>11. parsed + 1 \notin opens
  BY Counted
<1>12. SlotsInv'
  BY <1>3, <1>4, <1>6, <1>8, <1>9, <1>10, <1>11 DEF BatchInv, SlotsInv
<1>13. Late' = Late
  BY <1>6 DEF Late
<1>14. \A o \in Late : o \in Nat /\ o < parsed + 1 /\ o < s.at
  BY <1>1, Counted DEF Late
<1>15. \A o \in Late : \A k \in 1..n : ~(slots[k].at < o) /\ slots[k].at # o
  <2>1. \A o \in Late : \A k \in 1..n : ~(slots[k].at < o)
    BY <1>3, <1>4 DEF BatchInv, OpensInv
  <2>2. \A o \in Late : o \notin shippable
    BY DEF Late, BatchInv, SlotsInv
  <2> QED BY <1>5, <2>1, <2>2
<1>16. \A o \in Late : \A k \in 1..n+1 : o < slots'[k].at
  <2>1. \A o \in Late : \A k \in 1..n : o < slots[k].at
    BY <1>3, <1>14, <1>15, Counted
  <2> HIDE DEF n
  <2> QED BY <1>3, <1>14, <2>1
<1>17. \A o \in Late : \A k \in 1..n+1 : ~(slots'[k].at < o)
  <2>1. \A k \in 1..n+1 : slots'[k].at \in Nat
    <3>1. \A k \in 1..n : slots[k].at \in Nat
      BY <1>3, Counted
    <3>2. s.at \in Nat
      BY <1>1, Counted
    <3> HIDE DEF n
    <3> QED BY <1>3, <3>1, <3>2
  <2> QED BY <1>14, <1>16, <2>1
<1>18. reset_vwap' = reset_vwap /\ pending_reset_' = pending_reset_
  BY DEF Shipped
<1>19. reset_vwap <=> Late # {}
  <2>1. reset_vwap <=> \E o \in Late : \A k \in 1..n : o < slots[k].at
    BY <1>3, <1>4 DEF BatchInv, OpensInv
  <2>2. \A o \in Late : \A k \in 1..n : o < slots[k].at
    BY <1>3, <1>14, <1>15, Counted
  <2> QED BY <2>1, <2>2
<1>20. OpensInv'
  <2>1. \A o \in Late' : \A k \in DOMAIN slots' : o < slots'[k].at /\ ~(slots'[k].at < o)
    BY <1>3, <1>13, <1>16, <1>17
  <2>2. reset_vwap' <=> \E o \in Late' : \A k \in DOMAIN slots' : o < slots'[k].at
    BY <1>13, <1>18, <1>19, <2>1
  <2>3. ~pending_reset_'
    BY <1>18
  <2> QED
    BY <2>1, <2>2, <2>3 DEF OpensInv
<1> QED
  BY <1>12, <1>20 DEF BatchInv

\* A market open flags an empty batch, and cuts any other.
LEMMA OpenedBatch ==
    ASSUME RunType, BatchInv, pc = "filling", filling, parsed' = parsed + 1, Opened,
           pc' = IF filling' THEN "filling" ELSE "filled", last_ts' = last_ts
    PROVE  BatchInv'
<1> DEFINE n == Len(slots)
<1>1. /\ opens' = opens \cup {parsed + 1} /\ slots' = slots /\ shippable' = shippable
  BY DEF Opened
<1>2. InHand /\ InHand' /\ ~pending_reset_
  BY DEF InHand, BatchInv, OpensInv
<1>3. parsed + 1 \notin shippable
  BY Counted
<1>4. SlotsInv'
  BY <1>1, <1>2, <1>3 DEF BatchInv, SlotsInv, Numbers
<1>5. Late' = Late \cup {parsed + 1}
  BY <1>1, Counted DEF Late
<1>6. \A k \in DOMAIN slots : slots[k].at \in Nat /\ slots[k].at < parsed + 1
  BY <1>2, SlotNumbers, Counted DEF BatchInv
<1>7. \A o \in Late : \A k, l \in DOMAIN slots : o < slots[k].at => o < slots[l].at
  BY <1>2 DEF BatchInv, OpensInv
<1>8. reset_vwap <=> \E o \in Late : \A k \in DOMAIN slots : o < slots[k].at
  BY <1>2 DEF BatchInv, OpensInv
<1>9. \A o \in Late' : \A k, l \in DOMAIN slots' : o < slots'[k].at => o < slots'[l].at
  BY <1>1, <1>5, <1>6, <1>7
<1>10. CASE slots = <<>>
  <2>1. reset_vwap' = TRUE /\ pending_reset_' = pending_reset_ /\ filling' = filling
    BY <1>10 DEF Opened, FlagsOrCuts
  <2>2. DOMAIN slots' = {}
    BY <1>1, <1>10
  <2>3. reset_vwap' <=> \E o \in Late' : \A k \in DOMAIN slots' : o < slots'[k].at
    BY <1>5, <2>1, <2>2
  <2>4. ~pending_reset_' /\ pc' = "filling"
    BY <1>2, <2>1
  <2>5. pending_reset_' <=> \E o \in Late' : \E k \in DOMAIN slots' : slots'[k].at < o
    BY <2>2, <2>4
  <2>6. OpensInv'
    BY <1>9, <2>3, <2>4, <2>5 DEF OpensInv
  <2> QED
    BY <1>4, <2>6 DEF BatchInv
<1>11. CASE slots # <<>>
  <2>1. pending_reset_' = TRUE /\ filling' = FALSE /\ reset_vwap' = reset_vwap
    BY <1>11 DEF Opened, FlagsOrCuts
  <2>2. pc' = "filled"
    BY <2>1
  <2>3. slots \in Seq(SlotType)
    BY DEF RunType, TypeInv, TypeOK
  <2>4. 1 \in DOMAIN slots
    BY <1>11, <2>3
  <2>5. reset_vwap' <=> \E o \in Late' : \A k \in DOMAIN slots' : o < slots'[k].at
    BY <1>1, <1>5, <1>6, <1>8, <2>1, <2>4, Counted
  <2>6. pending_reset_' <=> \E o \in Late' : \E k \in DOMAIN slots' : slots'[k].at < o
    BY <1>1, <1>5, <1>6, <2>1, <2>4
  <2>7. OpensInv'
    BY <1>9, <2>2, <2>5, <2>6 DEF OpensInv
  <2> QED
    BY <1>4, <2>7 DEF BatchInv
<1> QED
  BY <1>10, <1>11

\* A step that touches neither the batch nor the feed's messages for it, and
\* leaves the batch in hand if it was, or out of hand.
LEMMA QuietBatch ==
    ASSUME BatchInv,
           UNCHANGED <<slots, reset_vwap, pending_reset_, shippable, opens, last_ts>>,
           \/ InHand /\ InHand' /\ (pc' = "filling" => ~pending_reset_)
           \/ ~InHand /\ ~InHand' /\ (pc' \in {"fill", "snapshot", "next_batch"}
                                        => pc \in {"fill", "snapshot", "next_batch"})
    PROVE  BatchInv'
<1>1. SlotsInv'
  BY DEF BatchInv, SlotsInv, Numbers
<1>2. Late' = Late
  BY DEF Late
<1>3. OpensInv'
  BY <1>2 DEF BatchInv, OpensInv, InHand
<1> QED
  BY <1>1, <1>3 DEF BatchInv

\* fill takes over the open that was carried.
LEMMA FillBatch ==
    ASSUME RunType, BatchInv, Fill
    PROVE  BatchInv'
<1>1. /\ slots' = <<>> /\ reset_vwap' = pending_reset_ /\ pending_reset_' = FALSE
      /\ UNCHANGED <<shippable, opens, last_ts>> /\ pc = "fill" /\ pc' = "filling"
  BY DEF Fill, Call, feedVars
<1>2. DOMAIN slots' = {} /\ Numbers' = {}
  BY <1>1 DEF Numbers
<1>3. ~InHand /\ InHand'
  BY <1>1 DEF InHand
<1>4. SlotsInv'
  BY <1>1, <1>2, <1>3 DEF BatchInv, SlotsInv
<1>5. Late' = Late /\ (reset_vwap' <=> Late # {})
  BY <1>1 DEF Late, BatchInv, OpensInv
<1>6. OpensInv'
  BY <1>1, <1>2, <1>5 DEF OpensInv
<1> QED
  BY <1>4, <1>6 DEF BatchInv

\* The batch runs out, or is full.
LEMMA EndsBatch ==
    ASSUME RunType, BatchInv, pc = "filling", Return \/ StreamEnds, last_ts' = last_ts,
           pc' = IF filling' THEN "filling" ELSE "filled"
    PROVE  BatchInv'
<1>1. /\ UNCHANGED <<slots, reset_vwap, pending_reset_, shippable, opens>> /\ filling' = FALSE
  BY DEF Return, StreamEnds, feedVars
<1> QED
  BY <1>1, QuietBatch DEF InHand

\* Aggregating the batch brings last_ts to its last message; the opens after
\* that are the ones that were carried.
LEMMA AggregateBatch ==
    ASSUME RunType, BatchInv, Aggregate
    PROVE  /\ BatchInv'
           /\ Len(slots) \in DOMAIN slots /\ last_ts' = slots[Len(slots)].at
           /\ last_ts < last_ts' /\ last_ts' \in shippable
           /\ \A k \in DOMAIN slots : slots[k].at <= last_ts'
<1> DEFINE n == Len(slots)
<1>1. /\ pc = "filled" /\ slots # <<>> /\ last_ts' = slots[n].at
      /\ UNCHANGED <<slots, reset_vwap, pending_reset_, shippable, opens>>
      /\ pc' \in {"snapshot", "next_batch"}
  BY DEF Aggregate, assemblerVars, fillVars, feedVars
<1>2. slots \in Seq(SlotType)
  BY DEF RunType, TypeInv, TypeOK
<1>3. n \in Nat /\ n \in DOMAIN slots /\ DOMAIN slots = 1..n
  BY <1>1, <1>2
<1>4. InHand /\ ~InHand'
  BY <1>1 DEF InHand
<1>5. \A k \in DOMAIN slots : slots[k].at \in shippable /\ last_ts < slots[k].at /\ slots[k].at \in Nat
  BY <1>4, SlotNumbers, Counted DEF BatchInv
<1>6. last_ts' \in Nat /\ last_ts < last_ts' /\ last_ts' \in shippable /\ last_ts \in Nat
  BY <1>1, <1>3, <1>5, Counted
<1>7. \A k \in DOMAIN slots : slots[k].at <= last_ts'
  <2>1. ASSUME NEW k \in DOMAIN slots PROVE slots[k].at <= slots[n].at
    <3>1. CASE k = n
      BY <1>3, <1>5, <3>1
    <3>2. CASE k < n
      BY <1>3, <1>5, <3>2 DEF BatchInv, SlotsInv
    <3> QED BY <1>3, <3>1, <3>2
  <2> QED BY <1>1, <2>1
<1>8. {i \in shippable : last_ts' < i} = {}
  <2>1. \A i \in shippable : last_ts < i => i \in Numbers
    BY <1>4 DEF BatchInv, SlotsInv
  <2>2. \A i \in shippable : last_ts < i => i <= last_ts' /\ i \in Nat
    BY <1>7, <2>1, Counted DEF Numbers
  <2>3. \A i \in shippable : ~(last_ts' < i)
    BY <1>6, <2>2, Counted
  <2> QED BY <2>3
<1>9. SlotsInv'
  BY <1>1, <1>4, <1>6, <1>8 DEF BatchInv, SlotsInv
<1>10. pending_reset_ <=> \E o \in Late : \E k \in DOMAIN slots : slots[k].at < o
  BY <1>4 DEF BatchInv, OpensInv
<1>11. \A o \in opens : o \in Nat /\ o # last_ts' /\ \A k \in DOMAIN slots : o # slots[k].at
  BY <1>5, <1>6, Counted DEF BatchInv, SlotsInv
<1>12. \A o \in Late : (\E k \in DOMAIN slots : slots[k].at < o) <=> last_ts' < o
  <2> SUFFICES ASSUME NEW o \in Late, NEW k \in DOMAIN slots, slots[k].at < o PROVE last_ts' < o
    BY <1>1, <1>3
  <2>1. o \in opens /\ o \in Nat
    BY <1>11 DEF Late
  <2>2. ~(o < slots[k].at)
    BY <1>5, <2>1
  <2>3. ~(o < slots[n].at)
    BY <1>3, <1>4, <2>2 DEF BatchInv, OpensInv
  <2> QED
    BY <1>1, <1>6, <1>11, <2>1, <2>3
<1>13. \A o : o \in Late' <=> o \in Late /\ last_ts' < o
  <2>1. \A o \in opens : last_ts' < o => last_ts < o
    BY <1>6, <1>11
  <2> QED BY <1>1, <2>1 DEF Late
<1>14. pending_reset_' <=> Late' # {}
  BY <1>1, <1>10, <1>12, <1>13
<1>15. OpensInv'
  BY <1>1, <1>4, <1>14 DEF OpensInv
<1> QED
  BY <1>1, <1>3, <1>6, <1>7, <1>9, <1>15 DEF BatchInv

-----------------------------------------------------------------------------
(***************************************************************************)
(* The cells and the rows.                                                 *)
(***************************************************************************)

\* Since, of any set of messages and of opens.
SinceOf(ship, open, from, ts) ==
    [i \in Number |->
        IF /\ i \in ship /\ from < i /\ i <= ts
           /\ \A o \in open : ~(i < o /\ o < ts)
        THEN 1 ELSE 0]

RowsOK(ship, open, rs) ==
    \A k \in DOMAIN rs :
        /\ rs[k].sums = SinceOf(ship, open, 0, rs[k].ts)
        /\ rs[k].window = SinceOf(ship, open, IF k = 1 THEN 0 ELSE rs[k-1].ts, rs[k].ts)

\* The timestamp of the last row, and of the last snapshot.
LastOf(rs)      == IF rs = <<>> THEN 0 ELSE rs[Len(rs)].ts
TakenTs(rs, pd) == IF pd = <<>> THEN LastOf(rs) ELSE pd[1].ts

PendingOK(ship, open, rs, pd) ==
    pd # <<>> =>
        /\ pd[1].sums = SinceOf(ship, open, 0, pd[1].ts)
        /\ pd[1].window = SinceOf(ship, open, LastOf(rs), pd[1].ts)

TimesOK(rs, pd, ts) ==
    /\ \A k \in DOMAIN rs : rs[k].ts <= ts
    /\ pd # <<>> => pd[1].ts <= ts

CellsInv ==
    /\ sums = SinceOf(shippable, opens, 0, last_ts)
    /\ window = SinceOf(shippable, opens, TakenTs(rows, pending), last_ts)
    /\ TimesOK(rows, pending, last_ts)
    /\ RowsOK(shippable, opens, rows)
    /\ PendingOK(shippable, opens, rows, pending)

\* A set of messages of the first p, and the same after the next message.
Grows(p, set, set2) == set \subseteq 1..p /\ (set2 = set \/ set2 = set \cup {p + 1})

\* What the rows count does not change with the messages that come later.
LEMMA SinceStable ==
    ASSUME NEW p \in Nat, NEW ship, NEW ship2, NEW open, NEW open2,
           Grows(p, ship, ship2), Grows(p, open, open2),
           NEW ts \in Nat, ts <= p
    PROVE  \A from : SinceOf(ship2, open2, from, ts) = SinceOf(ship, open, from, ts)
<1> SUFFICES ASSUME NEW from PROVE SinceOf(ship2, open2, from, ts) = SinceOf(ship, open, from, ts)
  OBVIOUS
<1>1. \A i \in Number : i \in Nat
  BY NumbersAssumption DEF Number
<1>2. \A i \in Number : i <= ts => (i \in ship2 <=> i \in ship)
  BY <1>1 DEF Grows
<1>3. \A i \in Number : \A o \in open2 : i < o /\ o < ts => o \in open
  BY <1>1 DEF Grows
<1>4. open \subseteq open2
  BY DEF Grows
<1>5. ASSUME NEW i \in Number
      PROVE  (/\ i \in ship2 /\ from < i /\ i <= ts /\ \A o \in open2 : ~(i < o /\ o < ts))
             <=> (/\ i \in ship /\ from < i /\ i <= ts /\ \A o \in open : ~(i < o /\ o < ts))
  BY <1>2, <1>3, <1>4
<1> QED
  BY <1>5 DEF SinceOf

\* Nor do the rows and the snapshot at hand.
LEMMA RowsStable ==
    ASSUME NEW p \in Nat, NEW ship, NEW ship2, NEW open, NEW open2,
           Grows(p, ship, ship2), Grows(p, open, open2),
           NEW rs \in Seq(RowType), NEW pd \in Seq(SnapType), NEW ts \in Nat, ts <= p,
           TimesOK(rs, pd, ts), RowsOK(ship, open, rs), PendingOK(ship, open, rs, pd)
    PROVE  RowsOK(ship2, open2, rs) /\ PendingOK(ship2, open2, rs, pd)
<1>1. \A t \in Nat : t <= p => \A from : SinceOf(ship2, open2, from, t) = SinceOf(ship, open, from, t)
  BY SinceStable
<1>2. \A k \in DOMAIN rs : rs[k].ts \in Nat /\ rs[k].ts <= p
  <2>1. \A k \in DOMAIN rs : rs[k] \in RowType
    OBVIOUS
  <2>2. \A k \in DOMAIN rs : rs[k].ts \in Nat
    BY <2>1 DEF RowType
  <2> QED BY <2>2 DEF TimesOK
<1>3. pd # <<>> => pd[1].ts \in Nat /\ pd[1].ts <= p
  <2>1. pd # <<>> => pd[1] \in SnapType
    OBVIOUS
  <2>2. pd # <<>> => pd[1].ts \in Nat
    BY <2>1 DEF SnapType
  <2> QED BY <2>2 DEF TimesOK
<1>4. RowsOK(ship2, open2, rs)
  BY <1>1, <1>2 DEF RowsOK
<1>5. PendingOK(ship2, open2, rs, pd)
  BY <1>1, <1>3 DEF PendingOK
<1> QED
  BY <1>4, <1>5

\* How often a message is in the batch at hand.
LEMMA Hits ==
    ASSUME RunType, SlotsInv, NEW i
    PROVE  Cardinality({k \in DOMAIN slots : slots[k].at = i}) = IF i \in Numbers THEN 1 ELSE 0
<1> DEFINE hit == {k \in DOMAIN slots : slots[k].at = i}
<1>1. CASE i \in Numbers
  <2>1. PICK k \in DOMAIN slots : slots[k].at = i
    BY <1>1 DEF Numbers
  <2>2. \A l \in DOMAIN slots : slots[l].at = i => l = k
    BY <2>1, Counted DEF SlotsInv
  <2>3. hit = {k}
    BY <2>1, <2>2
  <2> QED BY <1>1, <2>3, FS_Singleton
<1>2. CASE i \notin Numbers
  <2>1. hit = {}
    BY <1>2 DEF Numbers
  <2> QED BY <1>2, <2>1, FS_EmptySet
<1> QED
  BY <1>1, <1>2

\* A cell that is up to date is so after the batch, flagged or not.
LEMMA AggregatedCell ==
    ASSUME RunType, BatchInv, Aggregate,
           NEW from \in Nat, from <= last_ts,
           NEW cell, cell = SinceOf(shippable, opens, from, last_ts),
           NEW ts, ts = last_ts'
    PROVE  FlagFirst(cell) = SinceOf(shippable, opens, from, ts)
<1> DEFINE base == IF reset_vwap THEN EmptyCell ELSE cell
<1>1. /\ Len(slots) \in DOMAIN slots /\ ts = slots[Len(slots)].at
      /\ last_ts < ts /\ ts \in Nat /\ last_ts \in Nat
      /\ \A k \in DOMAIN slots : slots[k].at \in Nat /\ slots[k].at <= ts
  BY AggregateBatch, Counted
<1>2. InHand /\ SlotsInv
  BY DEF Aggregate, InHand, BatchInv
<1>3. \A i \in shippable : last_ts < i <=> i \in Numbers
  BY <1>2 DEF SlotsInv
<1>4. Numbers \subseteq shippable /\ \A i \in Numbers : i <= ts /\ last_ts < i
  BY <1>1, <1>2, SlotNumbers DEF Numbers
<1>5. \A i \in Number : i \in Nat
  BY NumbersAssumption DEF Number
<1>6. \A o \in opens : o \in Nat /\ o >= 1 /\ o # last_ts
  <2>1. \A o \in opens : o \in Nat /\ o >= 1
    BY Counted
  <2> QED BY <1>2, <2>1 DEF SlotsInv
<1>7. ASSUME NEW o \in opens, last_ts < o, o < ts
      PROVE  reset_vwap /\ \A k \in DOMAIN slots : o < slots[k].at
  <2>1. o \in Late
    BY <1>7 DEF Late
  <2>2. \A k \in DOMAIN slots : o < slots[k].at
    BY <1>1, <1>2, <1>7, <2>1 DEF BatchInv, OpensInv
  <2> QED BY <1>2, <2>1, <2>2 DEF BatchInv, OpensInv
<1>8. ASSUME reset_vwap
      PROVE  \E o \in opens : last_ts < o /\ o < ts
  BY <1>1, <1>2, <1>8 DEF BatchInv, OpensInv, Late
<1>9. ASSUME NEW i \in Number
      PROVE  base[i] + Cardinality({k \in DOMAIN slots : slots[k].at = i})
             = SinceOf(shippable, opens, from, ts)[i]
  <2>0. SinceOf(shippable, opens, from, ts)[i]
        = IF /\ i \in shippable /\ from < i /\ i <= ts
             /\ \A o \in opens : ~(i < o /\ o < ts) THEN 1 ELSE 0
    BY DEF SinceOf
  <2>1. cell[i] = IF /\ i \in shippable /\ from < i /\ i <= last_ts
                     /\ \A o \in opens : ~(i < o /\ o < last_ts) THEN 1 ELSE 0
    BY DEF SinceOf
  <2>2. i \in Nat /\ EmptyCell[i] = 0
    BY <1>5 DEF EmptyCell
  <2>3. CASE i <= last_ts
    <3>1. i \notin Numbers
      BY <1>1, <1>4, <2>2, <2>3
    <3>2. Cardinality({k \in DOMAIN slots : slots[k].at = i}) = 0
      BY <1>2, <3>1, Hits
    <3>3. CASE reset_vwap
      <4>1. PICK o \in opens : last_ts < o /\ o < ts
        BY <1>8, <3>3
      <4>2. i < o
        BY <1>1, <1>6, <2>2, <2>3, <4>1
      <4> QED
        BY <2>0, <2>2, <3>2, <3>3, <4>1, <4>2
    <3>4. CASE ~reset_vwap
      <4>1. \A o \in opens : o < ts => o < last_ts
        BY <1>1, <1>6, <1>7, <3>4
      <4>2. \A o \in opens : o < last_ts => o < ts
        BY <1>1, <1>6
      <4>3. i <= ts
        BY <1>1, <2>2, <2>3
      <4>4. base[i] = SinceOf(shippable, opens, from, ts)[i]
        BY <2>0, <2>1, <2>3, <3>4, <4>1, <4>2, <4>3
      <4>5. base[i] \in {0, 1}
        BY <2>1, <3>4
      <4> QED
        BY <3>2, <4>4, <4>5
    <3> QED BY <3>3, <3>4
  <2>4. CASE ~(i <= last_ts)
    <3>1. base[i] = 0
      BY <2>1, <2>2, <2>4
    <3>2. last_ts < i /\ from < i
      BY <1>1, <2>2, <2>4
    <3>3. CASE i \in Numbers
      <4>1. i \in shippable /\ i <= ts
        BY <1>4, <3>3
      <4>2. \A o \in opens : ~(i < o /\ o < ts)
        <5> SUFFICES ASSUME NEW o \in opens, i < o, o < ts PROVE FALSE
          OBVIOUS
        <5>1. last_ts < o
          BY <1>1, <1>6, <2>2, <3>2
        <5>2. o < i
          BY <1>7, <3>3, <5>1 DEF Numbers
        <5> QED BY <1>6, <2>2, <5>2
      <4>3. Cardinality({k \in DOMAIN slots : slots[k].at = i}) = 1
        BY <1>2, <3>3, Hits
      <4> QED BY <2>0, <3>1, <3>2, <4>1, <4>2, <4>3
    <3>4. CASE i \notin Numbers
      <4>1. i \notin shippable
        BY <1>3, <3>2, <3>4
      <4>2. Cardinality({k \in DOMAIN slots : slots[k].at = i}) = 0
        BY <1>2, <3>4, Hits
      <4> QED BY <2>0, <3>1, <4>1, <4>2
    <3> QED BY <3>3, <3>4
  <2> QED BY <1>1, <2>2, <2>3, <2>4
<1>10. SinceOf(shippable, opens, from, ts)
       = [i \in Number |-> SinceOf(shippable, opens, from, ts)[i]]
  BY DEF SinceOf
<1>11. FlagFirst(cell) = [i \in Number |-> base[i] + Cardinality({k \in DOMAIN slots : slots[k].at = i})]
  BY DEF FlagFirst, Aggregated
<1> HIDE DEF base
<1> QED
  BY <1>9, <1>10, <1>11

-----------------------------------------------------------------------------
(***************************************************************************)
(* Printing.                                                               *)
(***************************************************************************)

NamesOK(lst, rs) ==
    \A k \in DOMAIN rs : \A i \in lst : i <= rs[k].ts => i <= rs[k].name

\* Rows as they should be, none later than ts.
RowsFine(ship, open, lst, ts, rs) ==
    /\ rs \in Seq(RowType)
    /\ RowsOK(ship, open, rs)
    /\ \A k \in DOMAIN rs : rs[k].ts <= ts
    /\ NamesOK(lst, rs)

\* A row is added that counts from the last one on.
LEMMA RowAdded ==
    ASSUME NEW ship, NEW open, NEW lst, NEW ts, NEW rs, RowsFine(ship, open, lst, ts, rs),
           NEW row \in RowType, row.ts <= ts,
           row.sums = SinceOf(ship, open, 0, row.ts),
           row.window = SinceOf(ship, open, LastOf(rs), row.ts),
           \A i \in lst : i <= row.ts => i <= row.name
    PROVE  /\ RowsFine(ship, open, lst, ts, Append(rs, row))
           /\ LastOf(Append(rs, row)) = row.ts
           /\ Len(Append(rs, row)) = Len(rs) + 1
<1> DEFINE n == Len(rs)
           new == Append(rs, row)
<1>1. rs \in Seq(RowType)
  BY DEF RowsFine
<1>2. /\ n \in Nat /\ DOMAIN rs = 1..n /\ DOMAIN new = 1..n+1 /\ new \in Seq(RowType)
      /\ Len(new) = n + 1 /\ new # <<>>
      /\ \A k \in 1..n : new[k] = rs[k]
      /\ new[n+1] = row
  BY <1>1
<1>3. \A k \in 1..n+1 : k \in 1..n \/ k = n + 1
  BY <1>2
<1>4. (IF n + 1 = 1 THEN 0 ELSE new[n].ts) = LastOf(rs)
  <2>1. CASE n = 0
    <3>1. rs = <<>>
      BY <1>1, <1>2, <2>1
    <3> QED BY <2>1, <3>1 DEF LastOf
  <2>2. CASE n # 0
    <3>1. rs # <<>> /\ n \in 1..n /\ n + 1 # 1
      BY <1>1, <1>2, <2>2
    <3> QED BY <1>2, <3>1 DEF LastOf
  <2> QED BY <2>1, <2>2
<1>5. RowsOK(ship, open, new)
  <2>1. ASSUME NEW k \in 1..n
        PROVE  /\ new[k].sums = SinceOf(ship, open, 0, new[k].ts)
               /\ new[k].window = SinceOf(ship, open, IF k = 1 THEN 0 ELSE new[k-1].ts, new[k].ts)
    <3>1. k # 1 => new[k-1] = rs[k-1]
      BY <1>2
    <3>2. new[k] = rs[k] /\ k \in DOMAIN rs
      BY <1>2
    <3> HIDE DEF new, n
    <3> QED BY <3>1, <3>2 DEF RowsFine, RowsOK
  <2>2. /\ new[n+1].sums = SinceOf(ship, open, 0, new[n+1].ts)
        /\ new[n+1].window = SinceOf(ship, open, IF n+1 = 1 THEN 0 ELSE new[n+1-1].ts, new[n+1].ts)
    <3>1. n + 1 - 1 = n
      BY <1>2
    <3>2. new[n+1] = row
      BY <1>2
    <3> HIDE DEF new, n
    <3> QED BY <1>4, <3>1, <3>2
  <2> HIDE DEF new, n
  <2> QED BY <1>2, <1>3, <2>1, <2>2 DEF RowsOK
<1>6. \A k \in DOMAIN new : new[k].ts <= ts
  <2>1. \A k \in 1..n : rs[k].ts <= ts
    BY <1>2 DEF RowsFine
  <2> HIDE DEF new, n
  <2> QED BY <1>2, <1>3, <2>1
<1>7. NamesOK(lst, new)
  <2>1. \A k \in 1..n : \A i \in lst : i <= rs[k].ts => i <= rs[k].name
    BY <1>2 DEF RowsFine, NamesOK
  <2> HIDE DEF new, n
  <2> QED BY <1>2, <1>3, <2>1 DEF NamesOK
<1>8. LastOf(new) = row.ts
  <2> HIDE DEF new, n
  <2> QED BY <1>2 DEF LastOf
<1> QED
  BY <1>2, <1>5, <1>6, <1>7, <1>8 DEF RowsFine

\* The symbol table names every symbol listed so far.
NamesInv ==
    /\ \A i \in listings : i <= symbols
    /\ NamesOK(listings, rows)

\* An empty batch is the end of the stream.
EndInv ==
    /\ pc = "filled" /\ slots = <<>> => ended
    /\ ReadsToTheEnd

StatsInv ==
    /\ Cardinality(shippable) = shipped_msgs + (IF InHand THEN Len(slots) ELSE 0)
    /\ snapshots + (IF pc = "snapshot" THEN 1 ELSE 0)
         = batches \div Interval + (IF pc = "done" THEN 1 ELSE 0)
    /\ Len(rows) + Len(pending) = snapshots
    /\ pending # <<>> => gpu /\ pc # "done"

RunInv == RunType /\ BatchInv /\ CellsInv /\ NamesInv /\ EndInv /\ StatsInv

\* The rows so far are as they should be.
LEMMA RowsSoFar ==
    ASSUME RunInv
    PROVE  RowsFine(shippable, opens, listings, last_ts, rows)
BY DEF RunInv, RunType, DriverType, CellsInv, TimesOK, NamesInv, RowsFine

\* A snapshot taken now.
LEMMA TakenType ==
    ASSUME RunInv
    PROVE  /\ Taken \in SnapType /\ Taken.ts = last_ts /\ Taken.sums = sums /\ Taken.window = window
           /\ Printed(Taken) \in RowType
           /\ Printed(Taken).ts = last_ts /\ Printed(Taken).sums = sums
           /\ Printed(Taken).window = window /\ Printed(Taken).name = symbols
<1>1. last_ts \in Nat /\ sums \in Cell /\ window \in Cell
  BY Counted DEF RunInv, RunType, DriverType
<1>2. symbols \in Nat
  BY DEF RunInv, RunType, TypeInv, TypeOK
<1> QED
  BY <1>1, <1>2 DEF Taken, Printed, SnapType, RowType

\* The rows with the snapshot at hand printed.
LEMMA PendingPrinted ==
    ASSUME RunInv
    PROVE  /\ RowsFine(shippable, opens, listings, last_ts, rows \o PrintPending)
           /\ LastOf(rows \o PrintPending) = TakenTs(rows, pending)
           /\ Len(rows \o PrintPending) = Len(rows) + Len(pending)
<1>1. pending \in Seq(SnapType) /\ Len(pending) <= 1 /\ rows \in Seq(RowType)
  BY DEF RunInv, RunType, DriverType
<1>2. RowsFine(shippable, opens, listings, last_ts, rows)
  BY RowsSoFar
<1>3. CASE pending = <<>>
  <2>1. PrintPending = <<>>
    BY <1>3 DEF PrintPending
  <2>2. rows \o PrintPending = rows /\ Len(pending) = 0 /\ Len(rows) \in Nat
    BY <1>1, <1>3, <2>1
  <2> QED
    BY <1>2, <1>3, <2>2 DEF TakenTs
<1>4. CASE pending # <<>>
  <2>1. Len(pending) = 1 /\ DOMAIN pending = 1..1 /\ pending[1] \in SnapType
    <3>1. Len(pending) \in Nat /\ Len(pending) # 0
      BY <1>1, <1>4
    <3>2. Len(pending) = 1
      BY <1>1, <3>1
    <3> QED BY <1>1, <3>2
  <2> DEFINE row == Printed(pending[1])
  <2>2. symbols \in Nat
    BY DEF RunInv, RunType, TypeInv, TypeOK
  <2>3. /\ row \in RowType /\ row.ts = pending[1].ts /\ row.sums = pending[1].sums
        /\ row.window = pending[1].window /\ row.name = symbols
    BY <2>1, <2>2 DEF Printed, SnapType, RowType
  <2>4. rows \o PrintPending = Append(rows, row)
    <3>1. PrintPending = <<row>>
      BY <2>1 DEF PrintPending
    <3> HIDE DEF row
    <3> QED BY <1>1, <2>3, <3>1
  <2>5. row.ts <= last_ts
    BY <1>4, <2>3 DEF RunInv, CellsInv, TimesOK
  <2>6. /\ row.sums = SinceOf(shippable, opens, 0, row.ts)
        /\ row.window = SinceOf(shippable, opens, LastOf(rows), row.ts)
    BY <1>4, <2>3 DEF RunInv, CellsInv, PendingOK
  <2>7. \A i \in listings : i <= row.name
    BY <2>3 DEF RunInv, NamesInv
  <2> HIDE DEF row
  <2>8. /\ RowsFine(shippable, opens, listings, last_ts, Append(rows, row))
        /\ LastOf(Append(rows, row)) = row.ts
        /\ Len(Append(rows, row)) = Len(rows) + 1
    BY <1>2, <2>3, <2>5, <2>6, <2>7, RowAdded
  <2> QED
    BY <1>4, <2>1, <2>3, <2>4, <2>8 DEF TakenTs
<1> QED
  BY <1>3, <1>4

\* Nothing is counted in an empty window.
LEMMA EmptyWindow ==
    ASSUME NEW ship, NEW open, NEW ts \in Nat
    PROVE  EmptyCell = SinceOf(ship, open, ts, ts)
<1>1. \A i \in Number : i \in Nat /\ ~(ts < i /\ i <= ts)
  BY NumbersAssumption DEF Number
<1> QED
  BY <1>1 DEF EmptyCell, SinceOf

-----------------------------------------------------------------------------
(***************************************************************************)
(* The steps.                                                              *)
(***************************************************************************)

\* The assembler moves only by its own steps.
LEMMA TypeInvKept == TypeInv /\ [RunNext]_vars => TypeInv'
<1>1. [RunNext]_vars => [Next]_assemblerVars
  BY DEF RunNext, Fill, Filling, Aggregate, NothingFilled, Snapshot, TakeSnapshot, NextBatch,
         FinalSnapshot, Terminated, vars, Next
<1> QED
  BY <1>1, NextType

\* The feed goes on: the rows stay as they should be.
LEMMA CellsKept ==
    ASSUME RunInv, Grows(parsed, shippable, shippable'), Grows(parsed, opens, opens'),
           UNCHANGED <<sums, window, last_ts, pending, rows>>
    PROVE  CellsInv'
<1> DEFINE ship2 == shippable'
           open2 == opens'
<1>1. /\ parsed \in Nat /\ last_ts \in Nat /\ last_ts <= parsed
      /\ rows \in Seq(RowType) /\ pending \in Seq(SnapType)
  BY Counted DEF RunInv, RunType, DriverType
<1>2. CellsInv
  BY DEF RunInv
<1>3. RowsOK(shippable, opens, rows) /\ PendingOK(shippable, opens, rows, pending)
      /\ TimesOK(rows, pending, last_ts)
  BY <1>2 DEF CellsInv
<1>4. Grows(parsed, shippable, ship2) /\ Grows(parsed, opens, open2)
  OBVIOUS
<1> HIDE DEF ship2, open2
<1>5. RowsOK(ship2, open2, rows) /\ PendingOK(ship2, open2, rows, pending)
  BY <1>1, <1>3, <1>4, RowsStable
<1>6. \A from : SinceOf(ship2, open2, from, last_ts) = SinceOf(shippable, opens, from, last_ts)
  BY <1>1, <1>4, SinceStable
<1>7. /\ sums = SinceOf(ship2, open2, 0, last_ts)
      /\ window = SinceOf(ship2, open2, TakenTs(rows, pending), last_ts)
  BY <1>2, <1>6 DEF CellsInv
<1> QED
  BY <1>3, <1>5, <1>7 DEF ship2, open2, CellsInv, TakenTs, LastOf, TimesOK, RowsOK, PendingOK

\* Nor do later listings change them.
LEMMA NamesKept ==
    ASSUME RunInv, \A i \in listings' : i \in listings \/ i = parsed + 1,
           \A i \in listings' : i <= symbols', UNCHANGED rows
    PROVE  NamesInv'
<1>1. parsed \in Nat /\ last_ts \in Nat /\ last_ts <= parsed /\ rows \in Seq(RowType)
  BY Counted DEF RunInv, RunType, DriverType
<1>2. \A k \in DOMAIN rows : rows[k].ts \in Nat /\ rows[k].ts <= last_ts
  <2>1. \A k \in DOMAIN rows : rows[k] \in RowType
    BY <1>1
  <2>2. \A k \in DOMAIN rows : rows[k].ts \in Nat
    BY <2>1 DEF RowType
  <2> QED BY <2>2 DEF RunInv, CellsInv, TimesOK
<1>3. \A k \in DOMAIN rows : ~(parsed + 1 <= rows[k].ts)
  BY <1>1, <1>2
<1>4. NamesOK(listings', rows)
  BY <1>3 DEF RunInv, NamesInv, NamesOK
<1> QED
  BY <1>4 DEF NamesInv, NamesOK

\* The messages for the GPU can be counted.
LEMMA ShippableFinite ==
    ASSUME RunType
    PROVE  IsFiniteSet(shippable) /\ Cardinality(shippable) \in Nat
<1>1. IsFiniteSet(1..parsed)
  BY Counted, FS_Interval
<1>2. shippable \subseteq 1..parsed
  BY DEF RunType, TypeInv, TypeOK
<1> QED
  BY <1>1, <1>2, FS_Subset, FS_CardinalityType

\* A call of fill begins.
LEMMA FillInv == RunInv /\ TypeInv' /\ Fill => RunInv'
<1> SUFFICES ASSUME RunInv, TypeInv', Fill PROVE RunInv'
  OBVIOUS
<1>0. RunType /\ BatchInv /\ CellsInv /\ NamesInv /\ EndInv /\ StatsInv
  BY DEF RunInv
<1>1. /\ pc = "fill" /\ pc' = "filling" /\ slots' = <<>> /\ filling' = TRUE
      /\ UNCHANGED <<gpu, sums, window, last_ts, batches, shipped_msgs, snapshots, pending, rows>>
      /\ UNCHANGED <<parsed, ended, shippable, opens, listings, symbols>>
  BY DEF Fill, Call, feedVars
<1>2. RunType'
  BY <1>0, <1>1 DEF RunType, DriverType
<1>3. BatchInv'
  BY <1>0, FillBatch
<1>4. CellsInv'
  <2>1. Grows(parsed, shippable, shippable') /\ Grows(parsed, opens, opens')
    BY <1>0, <1>1 DEF Grows, RunType, TypeInv, TypeOK
  <2> QED BY <1>1, <2>1, CellsKept
<1>5. NamesInv'
  BY <1>0, <1>1, NamesKept DEF NamesInv
<1>6. EndInv'
  BY <1>1 DEF EndInv, ReadsToTheEnd
<1>7. StatsInv'
  <2>1. ~InHand /\ Len(slots') = 0
    BY <1>1 DEF InHand
  <2> QED BY <1>0, <1>1, <2>1, ShippableFinite DEF StatsInv, InHand, RunType, DriverType
<1> QED
  BY <1>2, <1>3, <1>4, <1>5, <1>6, <1>7 DEF RunInv

\* fill takes a message, or returns.
LEMMA FillingInv == RunInv /\ TypeInv' /\ Filling => RunInv'
<1> SUFFICES ASSUME RunInv, TypeInv', Filling PROVE RunInv'
  OBVIOUS
<1>0. RunType /\ BatchInv /\ CellsInv /\ NamesInv /\ EndInv /\ StatsInv
  BY DEF RunInv
<1>1. /\ pc = "filling" /\ pc' = IF filling' THEN "filling" ELSE "filled"
      /\ UNCHANGED <<gpu, sums, window, last_ts, batches, shipped_msgs, snapshots, pending, rows>>
      /\ filling /\ InFill
  BY <1>0 DEF Filling, RunType, DriverType
<1>2. parsed' \in {parsed, parsed + 1} /\ filling' \in BOOLEAN
  <2>1. CASE Return \/ StreamEnds
    BY <2>1 DEF Return, StreamEnds, feedVars
  <2>2. CASE Iterate
    BY <1>0, <2>2, MessageStep DEF RunType, TypeInv, TypeOK
  <2>3. filling' \in BOOLEAN
    BY DEF TypeInv, TypeOK
  <2> QED BY <1>1, <2>1, <2>2, <2>3 DEF InFill
<1>3. RunType'
  <2>1. last_ts' \in 0..parsed'
    BY <1>0, <1>1, <1>2, Counted
  <2>2. filling' <=> pc' = "filling"
    BY <1>1, <1>2
  <2> QED BY <1>0, <1>1, <2>1, <2>2 DEF RunType, DriverType
<1>4. InHand /\ InHand'
  BY <1>1 DEF InHand
<1>5. CASE Return \/ StreamEnds
  <2>1. /\ UNCHANGED <<slots, symbols, parsed, shippable, opens, listings>> /\ filling' = FALSE
    BY <1>5 DEF Return, StreamEnds, feedVars
  <2>2. BatchInv'
    BY <1>0, <1>1, <1>5, EndsBatch
  <2>3. CellsInv'
    <3>1. Grows(parsed, shippable, shippable') /\ Grows(parsed, opens, opens')
      BY <1>0, <2>1 DEF Grows, RunType, TypeInv, TypeOK
    <3> QED BY <1>1, <3>1, CellsKept
  <2>4. NamesInv'
    BY <1>0, <1>1, <2>1, NamesKept DEF NamesInv
  <2>5. slots' = <<>> => ended'
    <3>1. CASE Return
      <4>1. Len(slots) # 0
        BY <3>1, NumbersAssumption DEF Return
      <4> QED BY <2>1, <4>1
    <3>2. CASE StreamEnds
      BY <3>2 DEF StreamEnds
    <3> QED BY <1>5, <3>1, <3>2
  <2>6. EndInv'
    BY <1>1, <2>1, <2>5 DEF EndInv, ReadsToTheEnd
  <2>7. StatsInv'
    BY <1>0, <1>1, <1>4, <2>1 DEF StatsInv
  <2> QED
    BY <1>3, <2>2, <2>3, <2>4, <2>6, <2>7 DEF RunInv
<1>6. CASE Iterate
  <2>1. parsed' = parsed + 1 /\ ended' = ended /\ (Shipped \/ Opened \/ Listed \/ Passed)
    BY <1>0, <1>6, MessageStep DEF RunType
  <2>2. Grows(parsed, shippable, shippable') /\ Grows(parsed, opens, opens')
    BY <1>0, <2>1 DEF Grows, RunType, TypeInv, TypeOK, Shipped, Opened, Listed, Passed
  <2>3. CellsInv'
    BY <1>1, <2>2, CellsKept
  <2>4. BatchInv'
    <3>1. ~pending_reset_
      BY <1>0, <1>1 DEF BatchInv, OpensInv
    <3>2. CASE Shipped
      BY <1>0, <1>1, <2>1, <3>1, <3>2, ShippedBatch DEF Shipped
    <3>3. CASE Opened
      BY <1>0, <1>1, <2>1, <3>3, OpenedBatch
    <3>4. CASE Listed \/ Passed
      BY <1>0, <1>1, <1>4, <3>1, <3>4, QuietBatch DEF Listed, Passed
    <3> QED BY <2>1, <3>2, <3>3, <3>4
  <2>5. NamesInv'
    <3>1. \A i \in listings' : i \in listings \/ i = parsed + 1
      BY <2>1 DEF Shipped, Opened, Listed, Passed
    <3>2. CASE Listed
      <4>1. \A i \in listings' : i <= symbols'
        BY <1>0, <3>2, Counted DEF Listed
      <4> QED BY <1>1, <3>1, <4>1, NamesKept
    <3>3. CASE Shipped \/ Opened \/ Passed
      <4>1. listings' = listings /\ symbols' = symbols
        BY <3>3 DEF Shipped, Opened, Passed
      <4> QED BY <1>0, <1>1, <3>1, <4>1, NamesKept DEF NamesInv
    <3> QED BY <2>1, <3>2, <3>3
  <2>6. EndInv'
    <3>1. filling' = FALSE => slots' # <<>>
      BY <1>1, <2>1 DEF Shipped, Opened, Listed, Passed, FlagsOrCuts
    <3> QED BY <1>1, <1>2, <3>1 DEF EndInv, ReadsToTheEnd
  <2>7. Cardinality(shippable') = shipped_msgs' + Len(slots')
    <3>1. /\ Cardinality(shippable) = shipped_msgs + Len(slots)
          /\ shipped_msgs \in Nat /\ Len(slots) \in Nat /\ slots \in Seq(SlotType)
      BY <1>0, <1>4, Counted DEF StatsInv, RunType, DriverType, TypeInv, TypeOK
    <3>2. CASE Shipped
      <4>1. Len(slots') = Len(slots) + 1
        BY <3>1, <3>2 DEF Shipped
      <4>2. parsed + 1 \notin shippable
        BY <1>0, Counted
      <4>3. Cardinality(shippable') = Cardinality(shippable) + 1
        BY <1>0, <3>2, <4>2, ShippableFinite, FS_AddElement DEF Shipped
      <4> QED BY <1>1, <3>1, <4>1, <4>3
    <3>3. CASE Opened \/ Listed \/ Passed
      BY <1>1, <3>1, <3>3 DEF Opened, Listed, Passed
    <3> QED BY <2>1, <3>2, <3>3
  <2>8. StatsInv'
    <3>1. pc' \in {"filling", "filled"}
      BY <1>1
    <3> QED BY <1>0, <1>1, <1>4, <2>7, <3>1 DEF StatsInv
  <2> QED
    BY <1>3, <2>3, <2>4, <2>5, <2>6, <2>8 DEF RunInv
<1> QED
  BY <1>1, <1>5, <1>6 DEF InFill

\* When a batch completes an interval.
LEMMA IntervalsDone ==
    ASSUME NEW b \in Nat
    PROVE  (b + 1) \div Interval
             = b \div Interval + (IF (b + 1) % Interval = 0 THEN 1 ELSE 0)
<1> DEFINE q == b \div Interval
           r == b % Interval
<1>1. b = Interval * q + r /\ r \in 0..Interval-1 /\ q \in Int
  OBVIOUS
<1>2. (Interval * q + r + 1) \div Interval = IF r = Interval - 1 THEN q + 1 ELSE q
  <2> HIDE DEF q, r
  <2> QED BY <1>1
<1>3. (Interval * q + r + 1) % Interval = 0 <=> r = Interval - 1
  <2> HIDE DEF q, r
  <2> QED BY <1>1
<1> QED
  BY <1>1, <1>2, <1>3

\* The batch is aggregated.
LEMMA AggregateInv == RunInv /\ TypeInv' /\ Aggregate => RunInv'
<1> SUFFICES ASSUME RunInv, TypeInv', Aggregate PROVE RunInv'
  OBVIOUS
<1>0. RunType /\ BatchInv /\ CellsInv /\ NamesInv /\ EndInv /\ StatsInv
  BY DEF RunInv
<1>1. /\ pc = "filled" /\ batches' = batches + 1 /\ shipped_msgs' = shipped_msgs + Len(slots)
      /\ pc' = IF batches' % Interval = 0 THEN "snapshot" ELSE "next_batch"
      /\ sums' = FlagFirst(sums) /\ window' = FlagFirst(window)
      /\ UNCHANGED <<gpu, snapshots, pending, rows>>
      /\ UNCHANGED <<filling, slots, parsed, ended, shippable, opens, listings, symbols>>
  BY DEF Aggregate, CountMsgs, assemblerVars, fillVars, feedVars
<1>2. /\ last_ts \in Nat /\ last_ts' \in Nat /\ last_ts < last_ts' /\ last_ts' <= parsed
      /\ Len(slots) \in Nat
  BY <1>0, AggregateBatch, Counted
<1>3. InHand /\ ~InHand'
  BY <1>1 DEF InHand
<1>4. TakenTs(rows, pending) \in Nat /\ TakenTs(rows, pending) <= last_ts
  <2>1. rows \in Seq(RowType) /\ pending \in Seq(SnapType)
    BY <1>0 DEF RunType, DriverType
  <2>2. CASE pending # <<>>
    <3>1. pending[1] \in SnapType
      BY <2>1, <2>2
    <3>2. pending[1].ts \in Nat
      BY <3>1 DEF SnapType
    <3> QED BY <1>0, <2>2, <3>2 DEF TakenTs, CellsInv, TimesOK
  <2>3. CASE pending = <<>> /\ rows # <<>>
    <3>1. Len(rows) \in DOMAIN rows /\ rows[Len(rows)] \in RowType
      BY <2>1, <2>3
    <3>2. rows[Len(rows)].ts \in Nat
      BY <3>1 DEF RowType
    <3> QED BY <1>0, <2>3, <3>1, <3>2 DEF TakenTs, LastOf, CellsInv, TimesOK
  <2>4. CASE pending = <<>> /\ rows = <<>>
    BY <1>2, <2>4 DEF TakenTs, LastOf
  <2> QED BY <2>2, <2>3, <2>4
<1>5. /\ sums' = SinceOf(shippable, opens, 0, last_ts')
      /\ window' = SinceOf(shippable, opens, TakenTs(rows, pending), last_ts')
  <2>1. /\ sums = SinceOf(shippable, opens, 0, last_ts)
        /\ window = SinceOf(shippable, opens, TakenTs(rows, pending), last_ts)
    BY <1>0 DEF CellsInv
  <2>2. FlagFirst(sums) = SinceOf(shippable, opens, 0, last_ts')
    BY <1>0, <1>2, <2>1, AggregatedCell
  <2>3. FlagFirst(window) = SinceOf(shippable, opens, TakenTs(rows, pending), last_ts')
    BY <1>0, <1>4, <2>1, AggregatedCell
  <2> QED BY <1>1, <2>2, <2>3
<1>6. \A from, ts : SinceOf(shippable, opens, from, ts) \in Cell
  BY DEF SinceOf, Cell
<1>7. RunType'
  <2>1. last_ts' \in 0..parsed'
    BY <1>1, <1>2
  <2>2. shipped_msgs' \in Nat /\ batches' \in Nat
    BY <1>0, <1>1, <1>2 DEF RunType, DriverType
  <2>3. pc' \in {"snapshot", "next_batch"}
    BY <1>1
  <2> QED BY <1>0, <1>1, <1>5, <1>6, <2>1, <2>2, <2>3 DEF RunType, DriverType
<1>8. BatchInv'
  BY <1>0, AggregateBatch
<1>9. CellsInv'
  <2>1. RowsOK(shippable, opens, rows) /\ PendingOK(shippable, opens, rows, pending)
        /\ TimesOK(rows, pending, last_ts)
    BY <1>0 DEF CellsInv
  <2>2. TimesOK(rows, pending, last_ts')
    <3>1. rows \in Seq(RowType) /\ pending \in Seq(SnapType)
      BY <1>0 DEF RunType, DriverType
    <3>2. \A k \in DOMAIN rows : rows[k].ts \in Nat
      <4>1. \A k \in DOMAIN rows : rows[k] \in RowType
        BY <3>1
      <4> QED BY <4>1 DEF RowType
    <3>3. pending # <<>> => pending[1].ts \in Nat
      <4>1. pending # <<>> => pending[1] \in SnapType
        BY <3>1
      <4> QED BY <4>1 DEF SnapType
    <3> QED BY <1>2, <2>1, <3>2, <3>3 DEF TimesOK
  <2> QED BY <1>1, <1>5, <2>1, <2>2 DEF CellsInv, TakenTs, LastOf, TimesOK, RowsOK, PendingOK
<1>10. NamesInv'
  BY <1>0, <1>1, NamesKept DEF NamesInv
<1>11. EndInv'
  BY <1>1 DEF EndInv, ReadsToTheEnd
<1>12. StatsInv'
  <2>1. /\ batches \in Nat /\ snapshots \in Nat /\ shipped_msgs \in Nat
    BY <1>0 DEF RunType, DriverType
  <2>2. batches' \div Interval = batches \div Interval + (IF pc' = "snapshot" THEN 1 ELSE 0)
    BY <1>1, <2>1, IntervalsDone
  <2>3. snapshots = batches \div Interval
    <3>1. batches \div Interval \in Int
      BY <2>1
    <3> QED BY <1>0, <1>1, <2>1, <3>1 DEF StatsInv
  <2>4. Cardinality(shippable) = shipped_msgs + Len(slots)
    BY <1>0, <1>3 DEF StatsInv
  <2>5. Cardinality(shippable') = shipped_msgs' + (IF InHand' THEN Len(slots') ELSE 0)
    BY <1>1, <1>2, <1>3, <2>1, <2>4
  <2>6. pc' # "done"
    BY <1>1
  <2> QED BY <1>0, <1>1, <2>1, <2>2, <2>3, <2>5, <2>6 DEF StatsInv
<1> QED
  BY <1>7, <1>8, <1>9, <1>10, <1>11, <1>12 DEF RunInv

\* A step of the driver that only moves pc: the end of the stream, or the end
\* of the loop body.
LEMMA MoveInv == RunInv /\ TypeInv' /\ (NothingFilled \/ NextBatch) => RunInv'
<1> SUFFICES ASSUME RunInv, TypeInv', NothingFilled \/ NextBatch PROVE RunInv'
  OBVIOUS
<1>0. RunType /\ BatchInv /\ CellsInv /\ NamesInv /\ EndInv /\ StatsInv
  BY DEF RunInv
<1>1. /\ UNCHANGED <<gpu, sums, window, last_ts, batches, shipped_msgs, snapshots, pending, rows>>
      /\ UNCHANGED <<filling, slots, reset_vwap, pending_reset_, symbols>>
      /\ UNCHANGED <<parsed, ended, shippable, opens, listings>>
      /\ \/ pc = "filled" /\ slots = <<>> /\ pc' = "final"
         \/ pc = "next_batch" /\ pc' = IF MaxMsgs > 0 /\ parsed >= MaxMsgs THEN "final" ELSE "fill"
  BY DEF NothingFilled, NextBatch, assemblerVars, fillVars, feedVars
<1>2. pc' \in {"final", "fill"} /\ pc \in {"filled", "next_batch"}
  BY <1>1
<1>3. RunType'
  BY <1>0, <1>1, <1>2 DEF RunType, DriverType
<1>4. BatchInv'
  <2>1. CASE pc = "filled"
    <3>1. InHand /\ ~InHand' /\ Numbers = {} /\ pc' = "final"
      BY <1>1, <2>1 DEF InHand, Numbers
    <3>2. SlotsInv'
      BY <1>0, <1>1, <3>1 DEF BatchInv, SlotsInv
    <3>3. OpensInv'
      BY <3>1 DEF OpensInv, InHand
    <3> QED BY <3>2, <3>3 DEF BatchInv
  <2>2. CASE pc = "next_batch"
    BY <1>0, <1>1, <1>2, <2>2, QuietBatch DEF InHand
  <2> QED BY <1>2, <2>1, <2>2
<1>5. CellsInv'
  BY <1>0, <1>1 DEF CellsInv, TakenTs, LastOf, TimesOK, RowsOK, PendingOK
<1>6. NamesInv'
  BY <1>0, <1>1 DEF NamesInv, NamesOK
<1>7. EndInv'
  BY <1>0, <1>1 DEF EndInv, ReadsToTheEnd
<1>8. StatsInv'
  <2>1. ~InHand' /\ (IF InHand THEN Len(slots) ELSE 0) = 0
    BY <1>1, <1>2 DEF InHand
  <2> QED BY <1>0, <1>1, <1>2, <2>1 DEF StatsInv
<1> QED
  BY <1>3, <1>4, <1>5, <1>6, <1>7, <1>8 DEF RunInv

\* What a snapshot leaves alone.
LEMMA SnapshotRest ==
    ASSUME RunInv, TypeInv', TakeSnapshot,
           \/ pc = "snapshot" /\ pc' = "next_batch"
           \/ pc = "final" /\ pc' = "done"
    PROVE  /\ UNCHANGED <<shippable, opens, listings, symbols, last_ts, sums>>
           /\ window' = EmptyCell /\ window' \in Cell
           /\ snapshots' = snapshots + 1 /\ snapshots \in Nat /\ snapshots' \in Nat
           /\ BatchInv' /\ EndInv' /\ last_ts' \in 0..parsed'
           /\ (filling' <=> pc' = "filling")
           /\ Cardinality(shippable') = shipped_msgs' + (IF InHand' THEN Len(slots') ELSE 0)
           /\ snapshots' + (IF pc' = "snapshot" THEN 1 ELSE 0)
                = batches' \div Interval + (IF pc' = "done" THEN 1 ELSE 0)
<1>0. RunType /\ BatchInv /\ CellsInv /\ NamesInv /\ EndInv /\ StatsInv
  BY DEF RunInv
<1>1. /\ UNCHANGED <<gpu, sums, last_ts, batches, shipped_msgs>>
      /\ UNCHANGED <<filling, slots, reset_vwap, pending_reset_, symbols>>
      /\ UNCHANGED <<parsed, ended, shippable, opens, listings>>
      /\ window' = EmptyCell /\ snapshots' = snapshots + 1
  BY DEF TakeSnapshot, assemblerVars, fillVars, feedVars
<1>2. ~InHand /\ ~InHand'
  BY DEF InHand
<1>3. BatchInv'
  BY <1>0, <1>1, <1>2, QuietBatch
<1>4. EndInv'
  BY <1>0, <1>1 DEF EndInv, ReadsToTheEnd
<1>5. EmptyCell \in Cell
  BY DEF EmptyCell, Cell
<1>6. snapshots \in Nat /\ batches \in Nat /\ last_ts \in 0..parsed /\ (filling <=> pc = "filling")
  BY <1>0 DEF RunType, DriverType
<1>7. batches \div Interval \in Int
  BY <1>6
<1>8. snapshots' + (IF pc' = "snapshot" THEN 1 ELSE 0)
        = batches' \div Interval + (IF pc' = "done" THEN 1 ELSE 0)
  BY <1>0, <1>1, <1>6, <1>7 DEF StatsInv
<1>9. Cardinality(shippable') = shipped_msgs' + (IF InHand' THEN Len(slots') ELSE 0)
  BY <1>0, <1>1, <1>2 DEF StatsInv
<1> QED
  BY <1>1, <1>3, <1>4, <1>5, <1>6, <1>8, <1>9

\* The rows after a snapshot, and the snapshot held back, are as they should be.
LEMMA RowsAfter ==
    ASSUME RunInv, UNCHANGED <<shippable, opens, listings, symbols, last_ts, sums>>,
           RowsFine(shippable, opens, listings, last_ts, rows'),
           PendingOK(shippable, opens, rows', pending'),
           window' = EmptyCell, TakenTs(rows', pending') = last_ts,
           pending' # <<>> => pending'[1].ts <= last_ts
    PROVE  CellsInv' /\ NamesInv'
<1>1. last_ts \in Nat
  BY Counted DEF RunInv
<1>2. window' = SinceOf(shippable, opens, last_ts, last_ts)
  BY <1>1, EmptyWindow
<1>3. sums = SinceOf(shippable, opens, 0, last_ts)
  BY DEF RunInv, CellsInv
<1>4. CellsInv'
  BY <1>2, <1>3 DEF CellsInv, RowsFine, TimesOK, TakenTs, LastOf, RowsOK, PendingOK
<1>5. NamesInv'
  BY DEF RunInv, NamesInv, NamesOK, RowsFine
<1> QED
  BY <1>4, <1>5

\* A periodic snapshot: the CPU's is printed at once, the GPU's next time.
LEMMA SnapshotInv == RunInv /\ TypeInv' /\ Snapshot => RunInv'
<1> SUFFICES ASSUME RunInv, TypeInv', Snapshot PROVE RunInv'
  OBVIOUS
<1>0. RunType /\ BatchInv /\ CellsInv /\ NamesInv /\ EndInv /\ StatsInv
  BY DEF RunInv
<1>1. pc = "snapshot" /\ pc' = "next_batch" /\ TakeSnapshot
  BY DEF Snapshot
<1>2. /\ UNCHANGED <<shippable, opens, listings, symbols, last_ts, sums>>
      /\ window' = EmptyCell /\ window' \in Cell
      /\ snapshots' = snapshots + 1 /\ snapshots \in Nat /\ snapshots' \in Nat
      /\ BatchInv' /\ EndInv' /\ last_ts' \in 0..parsed'
      /\ (filling' <=> pc' = "filling")
      /\ Cardinality(shippable') = shipped_msgs' + (IF InHand' THEN Len(slots') ELSE 0)
      /\ snapshots' + (IF pc' = "snapshot" THEN 1 ELSE 0)
           = batches' \div Interval + (IF pc' = "done" THEN 1 ELSE 0)
  BY <1>1, SnapshotRest
<1>3. UNCHANGED <<gpu, batches, shipped_msgs>>
  BY <1>1 DEF TakeSnapshot
<1>4. /\ last_ts \in Nat /\ rows \in Seq(RowType) /\ pending \in Seq(SnapType)
      /\ Len(rows) \in Nat /\ Len(pending) \in Nat
      /\ sums = SinceOf(shippable, opens, 0, last_ts)
      /\ window = SinceOf(shippable, opens, TakenTs(rows, pending), last_ts)
  BY <1>0, Counted DEF CellsInv, RunType, DriverType
<1>5. ASSUME /\ RowsFine(shippable, opens, listings, last_ts, rows')
             /\ pending' \in Seq(SnapType) /\ Len(pending') <= 1
             /\ PendingOK(shippable, opens, rows', pending')
             /\ TakenTs(rows', pending') = last_ts
             /\ pending' # <<>> => pending'[1].ts <= last_ts /\ gpu
             /\ Len(rows') + Len(pending') = snapshots + 1
      PROVE  RunInv'
  <2>1. CellsInv' /\ NamesInv'
    BY <1>2, <1>5, RowsAfter
  <2>2. rows' \in Seq(RowType)
    BY <1>5 DEF RowsFine
  <2>3. RunType'
    BY <1>0, <1>1, <1>2, <1>3, <1>5, <2>2 DEF RunType, DriverType
  <2>4. StatsInv'
    BY <1>1, <1>2, <1>3, <1>5 DEF StatsInv
  <2> QED BY <1>2, <2>1, <2>3, <2>4 DEF RunInv
<1>6. CASE gpu
  <2>1. rows' = rows \o PrintPending /\ pending' = <<Taken>>
    BY <1>6 DEF Snapshot
  <2>2. /\ RowsFine(shippable, opens, listings, last_ts, rows')
        /\ LastOf(rows') = TakenTs(rows, pending)
        /\ Len(rows') = Len(rows) + Len(pending)
    BY <2>1, PendingPrinted
  <2>3. /\ Taken \in SnapType /\ Taken.ts = last_ts /\ Taken.sums = sums /\ Taken.window = window
    BY TakenType
  <2>4. /\ pending' \in Seq(SnapType) /\ Len(pending') = 1 /\ pending' # <<>>
        /\ pending'[1] = Taken
    BY <2>1, <2>3
  <2>5. PendingOK(shippable, opens, rows', pending')
    BY <1>4, <2>2, <2>3, <2>4 DEF PendingOK
  <2>6. TakenTs(rows', pending') = last_ts
    BY <2>3, <2>4 DEF TakenTs
  <2>7. Len(rows') + Len(pending') = snapshots + 1
    BY <1>0, <1>2, <1>4, <2>2, <2>4 DEF StatsInv
  <2> QED BY <1>4, <1>5, <1>6, <2>2, <2>3, <2>4, <2>5, <2>6, <2>7
<1>7. CASE ~gpu
  <2>1. rows' = Append(rows, Printed(Taken)) /\ pending' = pending /\ pending = <<>>
    BY <1>0, <1>7 DEF Snapshot, StatsInv
  <2>2. /\ Printed(Taken) \in RowType
        /\ Printed(Taken).ts = last_ts /\ Printed(Taken).sums = sums
        /\ Printed(Taken).window = window /\ Printed(Taken).name = symbols
    BY TakenType
  <2>3. LastOf(rows) = TakenTs(rows, pending)
    BY <2>1 DEF TakenTs
  <2>4. /\ RowsFine(shippable, opens, listings, last_ts, rows')
        /\ LastOf(rows') = last_ts
        /\ Len(rows') = Len(rows) + 1
    BY <1>0, <1>4, <2>1, <2>2, <2>3, RowsSoFar, RowAdded DEF NamesInv
  <2>5. TakenTs(rows', pending') = last_ts
    BY <2>1, <2>4 DEF TakenTs
  <2>6. Len(rows') + Len(pending') = snapshots + 1
    BY <1>0, <1>2, <1>4, <2>1, <2>4 DEF StatsInv
  <2>7. pending' \in Seq(SnapType) /\ Len(pending') <= 1
    BY <2>1
  <2> QED BY <1>5, <2>1, <2>4, <2>5, <2>6, <2>7 DEF PendingOK
<1> QED
  BY <1>6, <1>7

\* The final snapshot, after the one held back.
LEMMA FinalInv == RunInv /\ TypeInv' /\ FinalSnapshot => RunInv'
<1> SUFFICES ASSUME RunInv, TypeInv', FinalSnapshot PROVE RunInv'
  OBVIOUS
<1>0. RunType /\ BatchInv /\ CellsInv /\ NamesInv /\ EndInv /\ StatsInv
  BY DEF RunInv
<1>1. /\ pc = "final" /\ pc' = "done" /\ TakeSnapshot /\ pending' = <<>>
      /\ rows' = (rows \o PrintPending) \o <<Printed(Taken)>>
  BY DEF FinalSnapshot
<1>2. /\ UNCHANGED <<shippable, opens, listings, symbols, last_ts, sums>>
      /\ window' = EmptyCell /\ window' \in Cell
      /\ snapshots' = snapshots + 1 /\ snapshots \in Nat /\ snapshots' \in Nat
      /\ BatchInv' /\ EndInv' /\ last_ts' \in 0..parsed'
      /\ (filling' <=> pc' = "filling")
      /\ Cardinality(shippable') = shipped_msgs' + (IF InHand' THEN Len(slots') ELSE 0)
      /\ snapshots' + (IF pc' = "snapshot" THEN 1 ELSE 0)
           = batches' \div Interval + (IF pc' = "done" THEN 1 ELSE 0)
  BY <1>1, SnapshotRest
<1>3. UNCHANGED <<gpu, batches, shipped_msgs>>
  BY <1>1 DEF TakeSnapshot
<1>4. /\ last_ts \in Nat /\ Len(rows) \in Nat /\ Len(pending) \in Nat
      /\ sums = SinceOf(shippable, opens, 0, last_ts)
      /\ window = SinceOf(shippable, opens, TakenTs(rows, pending), last_ts)
  BY <1>0, Counted DEF CellsInv, RunType, DriverType
<1> DEFINE printed == rows \o PrintPending
<1>5. /\ RowsFine(shippable, opens, listings, last_ts, printed)
      /\ LastOf(printed) = TakenTs(rows, pending)
      /\ Len(printed) = Len(rows) + Len(pending)
  BY PendingPrinted
<1>6. /\ Printed(Taken) \in RowType
      /\ Printed(Taken).ts = last_ts /\ Printed(Taken).sums = sums
      /\ Printed(Taken).window = window /\ Printed(Taken).name = symbols
  BY TakenType
<1> HIDE DEF printed
<1>7. printed \in Seq(RowType)
  BY <1>5 DEF RowsFine
<1>8. rows' = Append(printed, Printed(Taken))
  <2>1. rows' = printed \o <<Printed(Taken)>>
    BY <1>1 DEF printed
  <2> QED BY <1>6, <1>7, <2>1
<1>9. /\ RowsFine(shippable, opens, listings, last_ts, rows')
      /\ LastOf(rows') = last_ts
      /\ Len(rows') = Len(printed) + 1
  BY <1>0, <1>4, <1>5, <1>6, <1>8, RowAdded DEF NamesInv
<1>10. TakenTs(rows', pending') = last_ts
  BY <1>1, <1>9 DEF TakenTs
<1>11. CellsInv' /\ NamesInv'
  BY <1>1, <1>2, <1>9, <1>10, RowsAfter DEF PendingOK
<1>12. rows' \in Seq(RowType) /\ pending' \in Seq(SnapType) /\ Len(pending') = 0
  BY <1>1, <1>9 DEF RowsFine
<1>13. RunType'
  BY <1>0, <1>1, <1>2, <1>3, <1>12 DEF RunType, DriverType
<1>14. Len(rows') + Len(pending') = snapshots'
  BY <1>0, <1>2, <1>4, <1>5, <1>9, <1>12 DEF StatsInv
<1>15. StatsInv'
  BY <1>1, <1>2, <1>3, <1>14 DEF StatsInv
<1> QED
  BY <1>2, <1>11, <1>13, <1>15 DEF RunInv

\* Nothing happens.
LEMMA StutterInv == RunInv /\ TypeInv' /\ UNCHANGED vars => RunInv'
<1> SUFFICES ASSUME RunInv, TypeInv', UNCHANGED vars PROVE RunInv'
  OBVIOUS
<1>0. RunType /\ BatchInv /\ CellsInv /\ NamesInv /\ EndInv /\ StatsInv
  BY DEF RunInv
<1>1. /\ UNCHANGED <<gpu, pc, sums, window, last_ts, batches, shipped_msgs, snapshots, pending, rows>>
      /\ UNCHANGED <<filling, slots, reset_vwap, pending_reset_, symbols>>
      /\ UNCHANGED <<parsed, ended, shippable, opens, listings>>
  BY DEF vars, driverVars, assemblerVars, fillVars, feedVars
<1>2. RunType'
  BY <1>0, <1>1 DEF RunType, DriverType
<1>3. SlotsInv' /\ OpensInv'
  BY <1>0, <1>1 DEF BatchInv, SlotsInv, OpensInv, Late, InHand, Numbers
<1>4. CellsInv'
  BY <1>0, <1>1 DEF CellsInv, TakenTs, LastOf, TimesOK, RowsOK, PendingOK
<1>5. NamesInv' /\ EndInv'
  BY <1>0, <1>1 DEF NamesInv, NamesOK, EndInv, ReadsToTheEnd
<1>6. StatsInv'
  BY <1>0, <1>1 DEF StatsInv, InHand
<1> QED
  BY <1>2, <1>3, <1>4, <1>5, <1>6 DEF RunInv, BatchInv

\* Every step keeps the invariant.
LEMMA StepInv == RunInv /\ [RunNext]_vars => RunInv'
<1> SUFFICES ASSUME RunInv, [RunNext]_vars PROVE RunInv'
  OBVIOUS
<1>1. TypeInv'
  BY TypeInvKept DEF RunInv, RunType
<1> QED
  BY <1>1, FillInv, FillingInv, AggregateInv, MoveInv, SnapshotInv, FinalInv, StutterInv
     DEF RunNext, Terminated

\* The invariant holds at the start.
LEMMA StartInv == Init => RunInv
<1> SUFFICES ASSUME Init PROVE RunInv
  OBVIOUS
<1>1. AssemblerInit /\ TypeInv
  BY InitType DEF Init
<1>2. /\ slots = <<>> /\ shippable = {} /\ opens = {} /\ listings = {} /\ parsed = 0
      /\ filling = FALSE /\ pending_reset_ = FALSE
  BY <1>1 DEF AssemblerInit, FeedInit
<1>3. /\ gpu \in BOOLEAN /\ pc = "fill" /\ sums = EmptyCell /\ window = EmptyCell
      /\ last_ts = 0 /\ batches = 0 /\ shipped_msgs = 0 /\ snapshots = 0
      /\ pending = <<>> /\ rows = <<>>
  BY DEF Init
<1>4. EmptyCell \in Cell
  BY DEF EmptyCell, Cell
<1>5. RunType
  <2>1. /\ pending \in Seq(SnapType) /\ Len(pending) = 0 /\ rows \in Seq(RowType)
        /\ Len(rows) = 0
    BY <1>3
  <2>2. last_ts \in 0..parsed
    BY <1>2, <1>3
  <2> QED BY <1>1, <1>2, <1>3, <1>4, <2>1, <2>2 DEF RunType, DriverType
<1>6. ~InHand /\ DOMAIN slots = {} /\ Late = {}
  BY <1>2, <1>3 DEF InHand, Late
<1>7. BatchInv
  BY <1>2, <1>3, <1>6 DEF BatchInv, SlotsInv, OpensInv
<1>8. CellsInv
  <2>1. EmptyCell = SinceOf(shippable, opens, 0, 0)
    BY EmptyWindow
  <2>2. TakenTs(rows, pending) = 0
    BY <1>3 DEF TakenTs, LastOf
  <2>3. DOMAIN rows = {}
    BY <1>3
  <2> QED BY <1>3, <2>1, <2>2, <2>3 DEF CellsInv, TimesOK, RowsOK, PendingOK
<1>9. NamesInv /\ EndInv
  BY <1>2, <1>3 DEF NamesInv, NamesOK, EndInv, ReadsToTheEnd
<1>10. StatsInv
  <2>1. Cardinality(shippable) = 0
    BY <1>2, FS_EmptySet
  <2>2. 0 \div Interval = 0
    OBVIOUS
  <2> QED BY <1>3, <1>6, <2>1, <2>2 DEF StatsInv
<1> QED
  BY <1>5, <1>7, <1>8, <1>9, <1>10 DEF RunInv

\* The invariant holds throughout a run.
LEMMA RunInvariance == RunSpec => []RunInv
BY StartInv, StepInv, PTL DEF RunSpec

-----------------------------------------------------------------------------
(***************************************************************************)
(* How late the names of the rows are.                                     *)
(***************************************************************************)

\* A row was printed by now, and not after a message for the GPU later than
\* the one it waited for.
BoundInv ==
    \A k \in DOMAIN rows :
        /\ rows[k].name <= parsed
        /\ \A j \in shippable : PrintedAt(k) < j => rows[k].name < j

\* Messages that come later change nothing.
LEMMA BoundKept ==
    ASSUME RunInv, BoundInv, UNCHANGED <<gpu, pending, rows>>,
           parsed' \in {parsed, parsed + 1},
           \A j \in shippable' : j \in shippable \/ j = parsed + 1
    PROVE  BoundInv'
<1>1. parsed \in Nat /\ rows \in Seq(RowType)
  BY Counted DEF RunInv, RunType, DriverType
<1>2. \A k \in DOMAIN rows : PrintedAt(k)' = PrintedAt(k)
  BY DEF PrintedAt
<1>3. \A k \in DOMAIN rows : rows[k].name \in Nat
  <2>1. \A k \in DOMAIN rows : rows[k] \in RowType
    BY <1>1
  <2> QED BY <2>1 DEF RowType
<1> QED
  BY <1>1, <1>2, <1>3 DEF BoundInv

\* Rows are printed after every message for the GPU so far.
LEMMA BoundRows ==
    ASSUME RunInv, BoundInv, ~InHand, UNCHANGED <<parsed, shippable>>,
           \A k \in DOMAIN rows' :
             \/ /\ k \in DOMAIN rows /\ rows'[k] = rows[k]
                /\ PrintedAt(k)' = PrintedAt(k)
             \/ k \in DOMAIN rows /\ rows'[k] = rows[k] /\ PrintedAt(k)' = last_ts
             \/ rows'[k].name = symbols /\ PrintedAt(k)' = last_ts
    PROVE  BoundInv'
<1>1. \A j \in shippable : ~(last_ts < j)
  BY DEF RunInv, BatchInv, SlotsInv
<1>2. symbols <= parsed
  BY DEF RunInv, RunType, TypeInv, TypeOK
<1> QED
  BY <1>1, <1>2 DEF BoundInv

\* The rows with the snapshot at hand printed, one by one.
LEMMA PendingRows ==
    ASSUME RunInv
    PROVE  /\ Len(rows) \in Nat /\ rows \in Seq(RowType) /\ rows \o PrintPending \in Seq(RowType)
           /\ \A k \in DOMAIN rows : (rows \o PrintPending)[k] = rows[k]
           /\ pending = <<>> => Len(rows \o PrintPending) = Len(rows)
           /\ pending # <<>> =>
                /\ Len(rows \o PrintPending) = Len(rows) + 1
                /\ (rows \o PrintPending)[Len(rows) + 1].ts = pending[1].ts
                /\ (rows \o PrintPending)[Len(rows) + 1].name = symbols
<1>1. /\ pending \in Seq(SnapType) /\ Len(pending) <= 1
      /\ rows \in Seq(RowType) /\ Len(rows) \in Nat
  BY DEF RunInv, RunType, DriverType
<1>2. rows \o PrintPending \in Seq(RowType) /\ Len(rows \o PrintPending) = Len(rows) + Len(pending)
  BY PendingPrinted DEF RowsFine
<1>3. CASE pending = <<>>
  <2>1. PrintPending = <<>>
    BY <1>3 DEF PrintPending
  <2>2. rows \o PrintPending = rows
    BY <1>1, <2>1
  <2> QED
    BY <1>1, <1>3, <2>2
<1>4. CASE pending # <<>>
  <2>1. Len(pending) = 1 /\ DOMAIN pending = 1..1
    <3> DEFINE n == Len(pending)
    <3>1. n \in Nat /\ n # 0 /\ n <= 1
      BY <1>1, <1>4
    <3> HIDE DEF n
    <3>2. n = 1
      BY <3>1
    <3> QED BY <1>1, <3>2 DEF n
  <2> DEFINE row == Printed(pending[1])
  <2>2. row.ts = pending[1].ts /\ row.name = symbols
    BY DEF Printed
  <2>3. PrintPending = <<row>>
    BY <2>1 DEF PrintPending
  <2> HIDE DEF row
  <2>4. /\ \A k \in DOMAIN rows : (rows \o <<row>>)[k] = rows[k]
        /\ (rows \o <<row>>)[Len(rows) + 1] = row
    BY <1>1
  <2> QED
    BY <1>1, <1>2, <1>4, <2>1, <2>2, <2>3, <2>4
<1> QED
  BY <1>3, <1>4

\* A row is printed at once, or one snapshot later.
LEMMA BoundSnapshot == RunInv /\ BoundInv /\ Snapshot => BoundInv'
<1> SUFFICES ASSUME RunInv, BoundInv, Snapshot PROVE BoundInv'
  OBVIOUS
<1>1. /\ ~InHand /\ UNCHANGED <<parsed, shippable, gpu>>
      /\ IF gpu
         THEN rows' = rows \o PrintPending /\ pending' = <<Taken>>
         ELSE rows' = Append(rows, Printed(Taken)) /\ UNCHANGED pending
  BY DEF Snapshot, TakeSnapshot, InHand, assemblerVars, feedVars
<1>2. Printed(Taken).ts = last_ts /\ Printed(Taken).name = symbols /\ Taken.ts = last_ts
  BY TakenType
<1>3. rows \in Seq(RowType) /\ Len(rows) \in Nat
  BY PendingRows
<1>4. CASE ~gpu
  <2>1. \A k \in DOMAIN rows' :
          \/ k \in DOMAIN rows /\ rows'[k] = rows[k]
          \/ rows'[k] = Printed(Taken)
    BY <1>1, <1>3, <1>4
  <2>2. \A k \in DOMAIN rows' : PrintedAt(k)' = rows'[k].ts
    BY <1>1, <1>4 DEF PrintedAt
  <2>3. \A k \in DOMAIN rows : PrintedAt(k) = rows[k].ts
    BY <1>4 DEF PrintedAt
  <2> QED
    BY <1>1, <1>2, <2>1, <2>2, <2>3, BoundRows
<1>5. CASE gpu
  <2>1. rows' = rows \o PrintPending /\ pending' # <<>> /\ pending'[1].ts = last_ts /\ gpu'
    <3>1. rows' = rows \o PrintPending /\ pending' = <<Taken>>
      BY <1>1, <1>5
    <3>2. gpu'
      BY <1>1, <1>5
    <3>3. pending' # <<>> /\ pending'[1] = Taken
      BY <3>1
    <3> QED
      BY <1>2, <3>1, <3>2, <3>3
  <2> SUFFICES ASSUME NEW k \in DOMAIN rows'
               PROVE  \/ /\ k \in DOMAIN rows /\ rows'[k] = rows[k]
                         /\ PrintedAt(k)' = PrintedAt(k)
                      \/ k \in DOMAIN rows /\ rows'[k] = rows[k] /\ PrintedAt(k)' = last_ts
                      \/ rows'[k].name = symbols /\ PrintedAt(k)' = last_ts
    BY <1>1, BoundRows
  <2>2. /\ k \in Nat /\ k <= Len(rows') /\ k >= 1
        /\ k \in DOMAIN rows <=> k <= Len(rows)
    BY <1>3, <2>1, PendingRows
  <2>3. CASE k < Len(rows)
    <3>1. k + 1 \in DOMAIN rows /\ k < Len(rows')
      BY <1>3, <2>1, <2>2, <2>3, PendingRows
    <3>2. rows'[k] = rows[k] /\ rows'[k+1] = rows[k+1]
      BY <2>1, <2>2, <2>3, <3>1, PendingRows
    <3> QED
      BY <1>5, <2>1, <2>2, <2>3, <3>1, <3>2 DEF PrintedAt
  <2>4. CASE k = Len(rows)
    <3>1. rows'[k] = rows[k] /\ k \in DOMAIN rows
      BY <2>1, <2>2, <2>4, PendingRows
    <3>2. CASE pending = <<>>
      <4>1. Len(rows') = Len(rows)
        BY <2>1, <3>2, PendingRows
      <4> QED
        BY <2>1, <2>4, <3>1, <4>1 DEF PrintedAt
    <3>3. CASE pending # <<>>
      <4>1. Len(rows') = Len(rows) + 1 /\ rows'[k+1].ts = pending[1].ts
        BY <2>1, <2>4, <3>3, PendingRows
      <4>2. PrintedAt(k) = pending[1].ts /\ PrintedAt(k)' = pending[1].ts
        BY <1>3, <1>5, <2>1, <2>4, <3>3, <4>1 DEF PrintedAt
      <4> QED
        BY <3>1, <4>2
    <3> QED
      BY <3>2, <3>3
  <2>5. CASE k > Len(rows)
    <3>1. pending # <<>> /\ k = Len(rows) + 1 /\ Len(rows') = k
      BY <1>3, <2>1, <2>2, <2>5, PendingRows
    <3>2. rows'[k].name = symbols
      BY <2>1, <3>1, PendingRows
    <3> QED
      BY <2>1, <3>1, <3>2 DEF PrintedAt
  <2> QED
    BY <1>3, <2>2, <2>3, <2>4, <2>5
<1> QED
  BY <1>4, <1>5

\* The last row follows the snapshot held back.
LEMMA BoundFinal == RunInv /\ BoundInv /\ FinalSnapshot => BoundInv'
<1> SUFFICES ASSUME RunInv, BoundInv, FinalSnapshot PROVE BoundInv'
  OBVIOUS
<1> DEFINE mid == rows \o PrintPending
<1>1. /\ ~InHand /\ UNCHANGED <<parsed, shippable, gpu>>
      /\ rows' = mid \o <<Printed(Taken)>> /\ pending' = <<>>
  BY DEF FinalSnapshot, TakeSnapshot, InHand, assemblerVars, feedVars
<1>2. Printed(Taken).ts = last_ts /\ Printed(Taken).name = symbols
  BY TakenType
<1>3. /\ rows \in Seq(RowType) /\ Len(rows) \in Nat /\ mid \in Seq(RowType)
      /\ \A k \in DOMAIN rows : mid[k] = rows[k]
      /\ pending = <<>> => Len(mid) = Len(rows)
      /\ pending # <<>> => /\ Len(mid) = Len(rows) + 1
                           /\ mid[Len(rows) + 1].ts = pending[1].ts
                           /\ mid[Len(rows) + 1].name = symbols
  BY PendingRows
<1>4. pending # <<>> => gpu
  BY DEF RunInv, StatsInv
<1> HIDE DEF mid
<1>5. /\ Len(mid) \in Nat /\ Len(rows') = Len(mid) + 1 /\ DOMAIN rows' = 1..(Len(mid) + 1)
      /\ \A k \in DOMAIN mid : rows'[k] = mid[k]
      /\ rows'[Len(mid) + 1] = Printed(Taken)
  BY <1>1, <1>3
<1> SUFFICES ASSUME NEW k \in DOMAIN rows'
             PROVE  \/ /\ k \in DOMAIN rows /\ rows'[k] = rows[k]
                       /\ PrintedAt(k)' = PrintedAt(k)
                    \/ k \in DOMAIN rows /\ rows'[k] = rows[k] /\ PrintedAt(k)' = last_ts
                    \/ rows'[k].name = symbols /\ PrintedAt(k)' = last_ts
  BY <1>1, BoundRows
<1>6. k \in Nat /\ k >= 1 /\ k <= Len(mid) + 1
  BY <1>5
<1>7. CASE k = Len(mid) + 1
  <2>1. PrintedAt(k)' = last_ts
    BY <1>1, <1>2, <1>5, <1>7 DEF PrintedAt
  <2> QED
    BY <1>2, <1>5, <1>7, <2>1
<1>8. CASE k <= Len(rows)
  <2>1. k \in DOMAIN rows /\ k \in DOMAIN mid /\ k < Len(rows')
    BY <1>3, <1>5, <1>6, <1>8
  <2>2. rows'[k] = rows[k]
    BY <1>3, <1>5, <2>1
  <2>3. CASE ~gpu
    BY <1>1, <2>1, <2>2, <2>3 DEF PrintedAt
  <2>4. CASE gpu
    <3>1. PrintedAt(k)' = rows'[k+1].ts
      BY <1>1, <2>1, <2>4 DEF PrintedAt
    <3>2. CASE k < Len(rows)
      <4>1. k + 1 \in DOMAIN rows /\ k + 1 \in DOMAIN mid
        BY <1>3, <1>6, <3>2
      <4>2. rows'[k+1] = rows[k+1]
        BY <1>3, <1>5, <4>1
      <4> QED
        BY <2>1, <2>2, <2>4, <3>1, <3>2, <4>2 DEF PrintedAt
    <3>3. CASE k = Len(rows) /\ pending # <<>>
      <4>1. k + 1 \in DOMAIN mid /\ mid[k+1].ts = pending[1].ts
        BY <1>3, <1>6, <3>3
      <4>2. rows'[k+1].ts = pending[1].ts
        BY <1>5, <4>1
      <4> QED
        BY <1>3, <2>1, <2>2, <2>4, <3>1, <3>3, <4>2 DEF PrintedAt
    <3>4. CASE k = Len(rows) /\ pending = <<>>
      <4>1. rows'[k+1] = Printed(Taken)
        BY <1>3, <1>5, <3>4
      <4> QED
        BY <1>2, <2>1, <2>2, <3>1, <4>1
    <3> QED
      BY <1>3, <1>6, <1>8, <3>2, <3>3, <3>4
  <2> QED
    BY <2>3, <2>4
<1>9. CASE k > Len(rows) /\ k <= Len(mid)
  <2>1. pending # <<>> /\ k = Len(rows) + 1 /\ k = Len(mid) /\ gpu
    BY <1>3, <1>4, <1>6, <1>9
  <2>2. k \in DOMAIN mid /\ rows'[k] = mid[k] /\ rows'[k].name = symbols
    BY <1>3, <1>5, <1>6, <1>9, <2>1
  <2>3. PrintedAt(k)' = rows'[k+1].ts
    BY <1>1, <1>5, <1>6, <2>1 DEF PrintedAt
  <2>4. rows'[k+1] = Printed(Taken)
    BY <1>5, <2>1
  <2> QED
    BY <1>2, <2>2, <2>3, <2>4
<1> QED
  BY <1>3, <1>5, <1>6, <1>7, <1>8, <1>9

\* Every step keeps the bound.
LEMMA BoundStep == RunInv /\ BoundInv /\ [RunNext]_vars => BoundInv'
<1> SUFFICES ASSUME RunInv, BoundInv, [RunNext]_vars PROVE BoundInv'
  OBVIOUS
<1>1. CASE Fill
  BY <1>1, BoundKept DEF Fill, Call, feedVars
<1>2. CASE Filling
  <2>1. UNCHANGED <<gpu, pending, rows>> /\ InFill
    BY <1>2 DEF Filling
  <2>2. CASE Return \/ StreamEnds
    BY <2>1, <2>2, BoundKept DEF Return, StreamEnds, feedVars
  <2>3. CASE Iterate
    <3>1. parsed' = parsed + 1 /\ (Shipped \/ Opened \/ Listed \/ Passed)
      BY <2>3, MessageStep DEF RunInv, RunType
    <3>2. \A j \in shippable' : j \in shippable \/ j = parsed + 1
      BY <3>1 DEF Shipped, Opened, Listed, Passed
    <3> QED
      BY <2>1, <3>1, <3>2, BoundKept
  <2> QED
    BY <2>1, <2>2, <2>3 DEF InFill
<1>3. CASE Aggregate \/ NothingFilled \/ NextBatch
  BY <1>3, BoundKept DEF Aggregate, NothingFilled, NextBatch, assemblerVars, feedVars
<1>4. CASE UNCHANGED vars
  BY <1>4, BoundKept DEF vars, driverVars, assemblerVars, feedVars
<1> QED
  BY <1>1, <1>2, <1>3, <1>4, BoundSnapshot, BoundFinal DEF RunNext, Terminated

\* No row is printed at first.
LEMMA BoundStart == Init => BoundInv
<1> SUFFICES ASSUME Init PROVE BoundInv
  OBVIOUS
<1>1. rows = <<>>
  BY DEF Init
<1> QED
  BY <1>1 DEF BoundInv

-----------------------------------------------------------------------------
\* Every row of either driver counts exactly the messages since the last market
\* open, and in its window those since the row before, each once.
THEOREM RowsAreExact == RunSpec => []RowsExact
<1>1. RunInv => RowsExact
  BY DEF RunInv, CellsInv, RowsOK, SinceOf, RowsExact, Since
<1> QED
  BY <1>1, RunInvariance, PTL

\* No row carries a name older than its timestamp, nor one newer than the
\* snapshot at which it is printed.
THEOREM NamesAreCurrent == RunSpec => []NamesCurrent
<1>1. RunInv /\ BoundInv => NamesCurrent
  BY DEF RunInv, NamesInv, NamesOK, BoundInv, NamesCurrent
<1> QED
  BY <1>1, BoundStart, BoundStep, RunInvariance, PTL DEF RunSpec

\* A run ends with its feed or with its limit, at no market open before.
THEOREM FeedIsReadToTheEnd == RunSpec => []ReadsToTheEnd
<1>1. RunInv => ReadsToTheEnd
  BY DEF RunInv, EndInv
<1> QED
  BY <1>1, RunInvariance, PTL

\* The statistics of a run agree with its feed and its rows.
THEOREM StatisticsAreExact == RunSpec => []StatsExact
<1>1. RunInv => StatsExact
  <2> SUFFICES ASSUME RunInv, pc = "done" PROVE /\ shipped_msgs = Cardinality(shippable)
                                               /\ snapshots = batches \div Interval + 1
                                               /\ Len(rows) = snapshots
    BY DEF StatsExact
  <2>1. RunType /\ StatsInv /\ ~InHand
    BY DEF RunInv, InHand
  <2>2. /\ shipped_msgs \in Nat /\ snapshots \in Nat /\ batches \in Nat
        /\ rows \in Seq(RowType) /\ Len(rows) \in Nat
    BY <2>1 DEF RunType, DriverType
  <2>3. pending = <<>> /\ Len(pending) = 0
    BY <2>1 DEF StatsInv
  <2>4. batches \div Interval \in Int
    BY <2>2
  <2> QED BY <2>1, <2>2, <2>3, <2>4 DEF StatsInv
<1> QED
  BY <1>1, RunInvariance, PTL

=============================================================================
