--------------------------- MODULE OrderHashProofs ---------------------------
(***************************************************************************)
(* Proofs about OrderHash, for every capacity, every set of references and *)
(* every hash function.                                                    *)
(*                                                                         *)
(* The invariant says what is true of the probe sequences while erase_at   *)
(* runs: an entry may be cut off from its home bucket by the hole and by   *)
(* nothing else (Chains), and not if the scan has already passed it        *)
(* (ScannedClear).  When the scan meets an empty slot, an entry it has not *)
(* passed would need that slot occupied to be cut off by the hole.         *)
(***************************************************************************)
EXTENDS OrderHash, FiniteSetTheorems, TLAPS

\* The buckets the scan of erase_at has passed: the cyclic interval (hole, i].
Scanned(p) ==
    IF hole <= i THEN hole < p /\ p <= i ELSE hole < p \/ p <= i

Chains ==
    \A p \in Bucket : Occupied(p) =>
        \A k \in Bucket : InInterval(k, home[slots[p].ref], p) =>
            Occupied(k) \/ (pc = "shift" /\ k = hole)

ScannedClear ==
    pc = "shift" =>
        /\ ~Occupied(hole)
        /\ \A p \in Bucket : Occupied(p) /\ Scanned(p) => ~ThroughHole(p)

Inv == TypeOK /\ UniqueRefs /\ Chains /\ ScannedClear

-----------------------------------------------------------------------------
(***************************************************************************)
(* The arithmetic of cyclic intervals.                                     *)
(***************************************************************************)

\* Of two buckets, one comes before the other in a probe from a.
LEMMA ProbeOrder ==
    ASSUME NEW a \in Bucket, NEW p \in Bucket, NEW q \in Bucket, p # q
    PROVE  InInterval(p, a, q) \/ InInterval(q, a, p)
BY CapacityAssumption DEF Bucket, InInterval

\* What a probe meets before h it also meets before any s beyond h.
LEMMA ProbePrefix ==
    ASSUME NEW a \in Bucket, NEW h \in Bucket, NEW s \in Bucket, NEW k \in Bucket,
           InInterval(h, a, s), InInterval(k, a, h)
    PROVE  InInterval(k, a, s) /\ k # h /\ k # s
BY CapacityAssumption DEF Bucket, InInterval

\* The next bucket is a bucket.
LEMMA SuccInBucket ==
    ASSUME NEW p \in Bucket
    PROVE  Succ(p) \in Bucket
BY CapacityAssumption DEF Bucket, Succ

\* A probe that meets the hole before p, where the scan has not passed p, meets
\* the bucket the scan is about to look at too, unless it is p or the hole.
LEMMA ScanFront ==
    ASSUME TypeOK, NEW a \in Bucket, NEW p \in Bucket,
           InInterval(hole, a, p), ~Scanned(p), p # Succ(i)
    PROVE  Succ(i) = hole \/ InInterval(Succ(i), a, p)
BY CapacityAssumption DEF Bucket, InInterval, Succ, Scanned, TypeOK

\* The scan that has come around to the hole has passed every other bucket.
LEMMA ScanRound ==
    ASSUME TypeOK, NEW p \in Bucket, Succ(i) = hole, p # hole
    PROVE  Scanned(p)
BY CapacityAssumption DEF Bucket, Succ, Scanned, TypeOK

\* The scan passes one bucket per step.
LEMMA ScanStep ==
    ASSUME TypeOK, NEW p \in Bucket, Succ(i) # hole, hole' = hole, i' = Succ(i),
           Scanned(p)'
    PROVE  Scanned(p) \/ p = Succ(i)
BY CapacityAssumption DEF Bucket, Succ, Scanned, TypeOK

\* An empty slot is told apart by its reference.
LEMMA EmptyIsNoOrder == Empty \notin Order /\ Empty.ref = NoRef
BY NoRefAssumption DEF Empty, Order

\* An occupied slot holds an order with a reference.
LEMMA OccupiedRef ==
    ASSUME TypeOK, NEW p \in Bucket
    PROVE  /\ Occupied(p) <=> slots[p].ref # NoRef
           /\ Occupied(p) => /\ slots[p] \in Order
                             /\ slots[p].ref \in Refs
                             /\ slots[p].shares \in Shares
                             /\ home[slots[p].ref] \in Bucket
BY NoRefAssumption DEF TypeOK, Occupied, Order, Empty

-----------------------------------------------------------------------------
(***************************************************************************)
(* Each kind of step preserves the invariant.                              *)
(***************************************************************************)

\* Between calls the invariant says that every stored order is found.
LEMMA InvReachable ==
    ASSUME Inv
    PROVE  EveryOrderReachable
<1> SUFFICES ASSUME pc = "idle", NEW p \in Bucket, Occupied(p)
             PROVE  EndsAt(slots[p].ref, p)
  BY DEF EveryOrderReachable
<1>1. slots[p].ref \in Refs /\ home[slots[p].ref] \in Bucket
  BY OccupiedRef DEF Inv
<1> SUFFICES ASSUME NEW k \in Bucket, InInterval(k, home[slots[p].ref], p)
             PROVE  slots[k].ref \notin {slots[p].ref, NoRef}
  BY DEF EndsAt
<1>2. k # p
  BY <1>1, CapacityAssumption DEF InInterval, Bucket
<1>3. Occupied(k)
  BY DEF Inv, Chains
<1> QED
  BY <1>2, <1>3, OccupiedRef DEF Inv, UniqueRefs

\* The empty table satisfies the invariant.
LEMMA InitInv == Init => Inv
<1> SUFFICES ASSUME Init PROVE Inv
  OBVIOUS
<1>1. TypeOK
  BY CapacityAssumption DEF Init, TypeOK, Bucket, Reply
<1>2. \A p \in Bucket : ~Occupied(p)
  BY DEF Init, Occupied
<1> QED
  BY <1>1, <1>2 DEF Init, Inv, UniqueRefs, Chains, ScannedClear

\* A step that leaves the slots and the locals of erase_at alone.
LEMMA SameSlotsInv ==
    ASSUME Inv, TypeOK', UNCHANGED <<home, slots, pc, hole, i>>
    PROVE  Inv'
BY DEF Inv, UniqueRefs, Chains, ScannedClear, Scanned, ThroughHole, InInterval, Occupied

\* A free slot where the probe for r ends is a slot for a reference not stored.
LEMMA FreshRef ==
    ASSUME Inv, pc = "idle", NEW r \in Refs, NEW p \in Bucket,
           EndsAt(r, p), ~Holds(p, r), NEW q \in Bucket
    PROVE  ~Occupied(p) /\ slots[q].ref # r
<1>1. ~Occupied(p)
  BY OccupiedRef DEF EndsAt, Holds, Inv
<1>2. ASSUME slots[q].ref = r PROVE FALSE
  <2>1. Occupied(q) /\ p # q
    BY <1>2, <1>1, NoRefAssumption DEF Occupied, Empty
  <2>2. EndsAt(r, q)
    BY <2>1, <1>2, InvReachable DEF EveryOrderReachable
  <2>3. ~InInterval(p, home[r], q)
    BY <2>2, <1>1 DEF EndsAt, Occupied, Empty
  <2>4. ~InInterval(q, home[r], p)
    BY <1>2 DEF EndsAt
  <2>5. home[r] \in Bucket
    BY DEF Inv, TypeOK
  <2> QED
    BY <2>1, <2>3, <2>4, <2>5, ProbeOrder
<1> QED
  BY <1>1, <1>2

\* insert keeps it: the slot taken is where the probe ended.
LEMMA InsertNewInv ==
    ASSUME Inv, pc = "idle", NEW r \in Refs, NEW n \in Shares, InsertNew(r, n)
    PROVE  Inv'
<1>1. PICK p \in Bucket :
        /\ EndsAt(r, p) /\ ~Holds(p, r)
        /\ slots' = [slots EXCEPT ![p] = [ref |-> r, shares |-> n]]
  BY DEF InsertNew
<1>2. home' = home /\ pc' = "idle"
  BY DEF InsertNew
<1>3. TypeOK'
  <2>1. slots' \in [Bucket -> Order \cup {Empty}]
    BY <1>1 DEF Inv, TypeOK, Order
  <2>2. size_' \in 0 .. Capacity \div 2
    BY CapacityAssumption DEF InsertNew, Full, Inv, TypeOK
  <2>3. reply' \in Reply
    BY DEF InsertNew, Returns, Reply
  <2> QED
    BY <2>1, <2>2, <2>3 DEF InsertNew, Inv, TypeOK
<1>4. /\ \A q \in Bucket : slots[q].ref # r
      /\ ~Occupied(p)
  BY <1>1, FreshRef
<1>5. /\ slots'[p] = [ref |-> r, shares |-> n]
      /\ \A q \in Bucket \ {p} : slots'[q] = slots[q]
  BY <1>1 DEF Inv, TypeOK
<1>6. /\ Occupied(p)'
      /\ \A q \in Bucket \ {p} : Occupied(q)' <=> Occupied(q)
  BY <1>5, NoRefAssumption DEF Occupied, Empty
<1>7. UniqueRefs'
  BY <1>4, <1>5, <1>6 DEF Inv, UniqueRefs
<1>8. Chains'
  <2> SUFFICES ASSUME NEW q \in Bucket, Occupied(q)',
                      NEW k \in Bucket, InInterval(k, home[slots'[q].ref], q)
               PROVE  Occupied(k)'
    BY <1>2 DEF Chains, InInterval
  <2>1. CASE q = p
    BY <2>1, <1>1, <1>5, <1>6, OccupiedRef DEF EndsAt, Inv
  <2>2. CASE q # p
    BY <2>2, <1>2, <1>5, <1>6 DEF Inv, Chains
  <2> QED
    BY <2>1, <2>2
<1> QED
  BY <1>2, <1>3, <1>7, <1>8 DEF Inv, ScannedClear

\* A partial cancel keeps it: the order stays where it is.
LEMMA ReducePartInv ==
    ASSUME Inv, pc = "idle", NEW r \in Refs, NEW n \in Shares, ReducePart(r, n)
    PROVE  Inv'
<1>1. PICK p \in Bucket :
        /\ Holds(p, r) /\ ~TakesAll(p, n)
        /\ slots' = [slots EXCEPT ![p].shares = @ - n]
  BY DEF ReducePart
<1>2. Occupied(p)
  BY <1>1, NoRefAssumption DEF Holds, Occupied, Empty
<1>3. slots'[p] \in Order /\ slots'[p].ref = slots[p].ref
  <2>1. slots[p] \in Order
    BY <1>2, OccupiedRef DEF Inv
  <2>2. slots'[p] = [slots[p] EXCEPT !.shares = @ - n]
    BY <1>1 DEF Inv, TypeOK
  <2>3. slots[p].shares - n \in Shares
    BY <1>1, <2>1, MaxSharesAssumption DEF TakesAll, Order, Shares
  <2> QED
    BY <2>1, <2>2, <2>3 DEF Order
<1>4. \A q \in Bucket \ {p} : slots'[q] = slots[q]
  BY <1>1 DEF Inv, TypeOK
<1>5. TypeOK'
  <2>1. slots' \in [Bucket -> Order \cup {Empty}]
    BY <1>1, <1>3, <1>4 DEF Inv, TypeOK
  <2>2. reply' \in Reply
    BY DEF ReducePart, Returns, Reply
  <2> QED
    BY <2>1, <2>2 DEF ReducePart, Inv, TypeOK
<1>6. \A q \in Bucket : /\ slots'[q].ref = slots[q].ref
                        /\ Occupied(q)' <=> Occupied(q)
  BY <1>2, <1>3, <1>4, EmptyIsNoOrder DEF Occupied
<1> QED
  BY <1>5, <1>6
     DEF ReducePart, Inv, UniqueRefs, Chains, ScannedClear, InInterval

\* Emptying a slot opens the hole and starts the scan.
LEMMA EraseAtInv ==
    ASSUME Inv, pc = "idle", NEW p \in Bucket, Occupied(p), EraseAt(p), home' = home,
           size_ # 0, reply' \in Reply
    PROVE  Inv'
<1>1. /\ slots'[p] = Empty
      /\ \A q \in Bucket \ {p} : slots'[q] = slots[q]
  BY DEF EraseAt, Inv, TypeOK
<1>2. /\ ~Occupied(p)'
      /\ \A q \in Bucket \ {p} : Occupied(q)' <=> Occupied(q)
  BY <1>1 DEF Occupied
<1>3. TypeOK'
  <2>1. slots' \in [Bucket -> Order \cup {Empty}]
    BY DEF EraseAt, Inv, TypeOK
  <2>2. size_' \in 0 .. Capacity \div 2
    BY CapacityAssumption DEF EraseAt, Inv, TypeOK
  <2> QED
    BY <2>1, <2>2 DEF EraseAt, Inv, TypeOK
<1>4. UniqueRefs'
  BY <1>1, <1>2, OccupiedRef, EmptyIsNoOrder DEF Inv, UniqueRefs
<1>5. Chains'
  BY <1>1, <1>2 DEF EraseAt, Inv, Chains, InInterval
<1>6. ScannedClear'
  <2>1. \A q \in Bucket : ~Scanned(q)'
    BY CapacityAssumption DEF EraseAt, Scanned, Bucket
  <2> QED
    BY <1>2, <2>1 DEF EraseAt, ScannedClear
<1> QED
  BY <1>3, <1>4, <1>5, <1>6 DEF Inv

\* A scan that meets an empty slot has repaired every probe.
LEMMA ShiftDoneInv ==
    ASSUME Inv, pc = "shift", ShiftDone, UNCHANGED <<home, size_, reply>>
    PROVE  Inv'
<1>1. TypeOK'
  BY CapacityAssumption DEF ShiftDone, Inv, TypeOK, Bucket
<1>2. \A q \in Bucket : Occupied(q)' <=> Occupied(q)
  BY DEF ShiftDone, Occupied
<1>3. \A p \in Bucket : Occupied(p) => ~ThroughHole(p)
  <2> SUFFICES ASSUME NEW p \in Bucket, Occupied(p), ThroughHole(p)
               PROVE  FALSE
    OBVIOUS
  <2>1. /\ p # hole /\ p # Succ(i)
        /\ ~Scanned(p)
    BY DEF Inv, ScannedClear, ShiftDone
  <2>2. home[slots[p].ref] \in Bucket /\ Succ(i) \in Bucket
    BY OccupiedRef, SuccInBucket DEF Inv, TypeOK
  <2>3. Succ(i) # hole
    BY <2>1, ScanRound DEF Inv
  <2>4. InInterval(Succ(i), home[slots[p].ref], p)
    BY <2>1, <2>2, <2>3, ScanFront DEF Inv, ThroughHole
  <2> QED
    BY <2>2, <2>3, <2>4 DEF Inv, Chains, ShiftDone
<1>4. Chains'
  BY <1>2, <1>3 DEF ShiftDone, Inv, Chains, ThroughHole, InInterval
<1> QED
  BY <1>1, <1>2, <1>4 DEF ShiftDone, Inv, UniqueRefs, ScannedClear

\* An entry that is skipped is reached without the hole.
LEMMA ShiftSkipInv ==
    ASSUME Inv, pc = "shift", ShiftSkip, UNCHANGED <<home, size_, reply>>
    PROVE  Inv'
<1>1. TypeOK'
  BY SuccInBucket DEF ShiftSkip, Inv, TypeOK
<1>2. \A q \in Bucket : Occupied(q)' <=> Occupied(q)
  BY DEF ShiftSkip, Occupied
<1>3. Succ(i) # hole
  BY DEF ShiftSkip, Inv, ScannedClear
<1>4. \A p \in Bucket : Scanned(p)' => Scanned(p) \/ p = Succ(i)
  BY <1>3, ScanStep DEF ShiftSkip, Inv
<1>5. ScannedClear'
  BY <1>4 DEF ShiftSkip, Inv, ScannedClear, ThroughHole, InInterval, Occupied
<1> QED
  BY <1>1, <1>2, <1>5 DEF ShiftSkip, Inv, UniqueRefs, Chains, InInterval

\* An entry that is moved is reached at the hole, and leaves the next hole.
LEMMA ShiftMoveInv ==
    ASSUME Inv, pc = "shift", ShiftMove, UNCHANGED <<home, size_, reply>>
    PROVE  Inv'
<1>1. PICK h \in Bucket, s \in Bucket : h = hole /\ s = Succ(i)
  BY SuccInBucket DEF Inv, TypeOK
<1>2. /\ Occupied(s) /\ ~Occupied(h) /\ ThroughHole(s)
      /\ pc' = "shift" /\ home' = home /\ hole' = s /\ i' = s
  BY <1>1 DEF ShiftMove, Inv, ScannedClear
<1>3. /\ slots'[h] = slots[s]
      /\ slots'[s] = Empty
      /\ \A q \in Bucket \ {h, s} : slots'[q] = slots[q]
  BY <1>1, <1>2 DEF ShiftMove, Inv, TypeOK
<1>4. TypeOK'
  BY <1>1 DEF ShiftMove, Inv, TypeOK
<1>5. /\ Occupied(h)' /\ ~Occupied(s)'
      /\ \A q \in Bucket \ {h, s} : Occupied(q)' <=> Occupied(q)
  BY <1>2, <1>3 DEF Occupied
<1>6. UniqueRefs'
  BY <1>2, <1>3, <1>5, OccupiedRef, EmptyIsNoOrder DEF Inv, UniqueRefs
<1>7. Chains'
  <2> SUFFICES ASSUME NEW p \in Bucket, Occupied(p)',
                      NEW k \in Bucket, InInterval(k, home[slots'[p].ref], p),
                      k # s
               PROVE  Occupied(k)'
    BY <1>2 DEF Chains, InInterval
  <2>1. CASE p = h
    <3>1. home[slots[s].ref] \in Bucket
      BY <1>2, OccupiedRef DEF Inv
    <3>2. InInterval(k, home[slots[s].ref], s) /\ k # h
      BY <1>1, <1>2, <1>3, <2>1, <3>1, ProbePrefix DEF ThroughHole
    <3> QED
      BY <1>1, <1>2, <1>5, <3>2 DEF Inv, Chains
  <2>2. CASE p # h
    BY <1>1, <1>2, <1>3, <1>5, <2>2 DEF Inv, Chains
  <2> QED
    BY <2>1, <2>2
<1>8. ScannedClear'
  <2>1. \A q \in Bucket : ~Scanned(q)'
    BY <1>2, CapacityAssumption DEF Scanned, Bucket
  <2> QED
    BY <1>2, <1>3, <2>1 DEF ScannedClear, Occupied
<1> QED
  BY <1>4, <1>6, <1>7, <1>8 DEF Inv

-----------------------------------------------------------------------------
(***************************************************************************)
(* size_ is the number of occupied slots: each step changes both alike.    *)
(***************************************************************************)
OccupiedSlots == {p \in Bucket : Occupied(p)}

\* The occupied slots can be counted.
LEMMA OccupiedFinite ==
    /\ IsFiniteSet(OccupiedSlots)
    /\ Cardinality(OccupiedSlots) \in Nat
<1>1. IsFiniteSet(Bucket)
  BY CapacityAssumption, FS_Interval DEF Bucket
<1>2. OccupiedSlots \subseteq Bucket
  BY DEF OccupiedSlots
<1> QED
  BY <1>1, <1>2, FS_Subset, FS_CardinalityType

\* size_ is not decremented below zero.
LEMMA SizePositive ==
    ASSUME SizeExact, NEW p \in Bucket, Occupied(p)
    PROVE  size_ # 0
BY OccupiedFinite, FS_EmptySet DEF SizeExact, OccupiedSlots

\* The size stays exact if the occupied slots stay the same.
LEMMA SameSize ==
    ASSUME SizeExact, size_' = size_, OccupiedSlots' = OccupiedSlots
    PROVE  SizeExact'
BY DEF SizeExact, OccupiedSlots

\* insert counts the slot it fills.
LEMMA InsertNewSize ==
    ASSUME Inv, SizeExact, pc = "idle", NEW r \in Refs, NEW n \in Shares,
           InsertNew(r, n)
    PROVE  SizeExact'
<1>1. PICK p \in Bucket :
        /\ EndsAt(r, p) /\ ~Holds(p, r)
        /\ slots' = [slots EXCEPT ![p] = [ref |-> r, shares |-> n]]
  BY DEF InsertNew
<1>2. ~Occupied(p)
  BY <1>1, FreshRef
<1>3. OccupiedSlots' = OccupiedSlots \cup {p} /\ p \notin OccupiedSlots
  BY <1>1, <1>2, NoRefAssumption DEF OccupiedSlots, Occupied, Empty, Inv, TypeOK
<1>4. Cardinality(OccupiedSlots') = Cardinality(OccupiedSlots) + 1
  BY <1>3, OccupiedFinite, FS_AddElement
<1> QED
  BY <1>4 DEF SizeExact, OccupiedSlots, InsertNew

\* erase_at uncounts the slot it empties.
LEMMA EraseAtSize ==
    ASSUME Inv, SizeExact, NEW p \in Bucket, Occupied(p), EraseAt(p)
    PROVE  SizeExact'
<1>1. OccupiedSlots' = OccupiedSlots \ {p} /\ p \in OccupiedSlots
  BY DEF EraseAt, OccupiedSlots, Occupied, Inv, TypeOK
<1>2. Cardinality(OccupiedSlots') = Cardinality(OccupiedSlots) - 1
  BY <1>1, OccupiedFinite, FS_RemoveElement
<1> QED
  BY <1>2 DEF SizeExact, OccupiedSlots, EraseAt

\* A move empties one slot and fills another.
LEMMA ShiftMoveSize ==
    ASSUME Inv, SizeExact, pc = "shift", ShiftMove, size_' = size_
    PROVE  SizeExact'
<1>1. PICK h \in Bucket, s \in Bucket : h = hole /\ s = Succ(i)
  BY SuccInBucket DEF Inv, TypeOK
<1>2. h \notin OccupiedSlots /\ s \in OccupiedSlots
  BY <1>1 DEF ShiftMove, Inv, ScannedClear, OccupiedSlots
<1>3. OccupiedSlots' = (OccupiedSlots \ {s}) \cup {h}
  BY <1>1, <1>2 DEF ShiftMove, OccupiedSlots, Occupied, Inv, TypeOK
<1>4. /\ IsFiniteSet(OccupiedSlots \ {s})
      /\ Cardinality(OccupiedSlots \ {s}) = Cardinality(OccupiedSlots) - 1
  BY <1>2, OccupiedFinite, FS_RemoveElement
<1>5. Cardinality(OccupiedSlots') = Cardinality(OccupiedSlots \ {s}) + 1
  BY <1>2, <1>3, <1>4, FS_AddElement
<1>6. Cardinality(OccupiedSlots') = Cardinality(OccupiedSlots)
  BY <1>4, <1>5, OccupiedFinite
<1> QED
  BY <1>6 DEF SizeExact, OccupiedSlots

-----------------------------------------------------------------------------
(***************************************************************************)
(* The specification.                                                      *)
(***************************************************************************)
LEMMA InitSize == Init => SizeExact
<1> SUFFICES ASSUME Init PROVE SizeExact
  OBVIOUS
<1>1. OccupiedSlots = {}
  BY DEF Init, OccupiedSlots, Occupied
<1> QED
  BY <1>1, FS_EmptySet DEF Init, SizeExact, OccupiedSlots

\* Answers are replies.
LEMMA ReturnsReply ==
    ASSUME NEW op \in {"insert", "reduce", "erase"}, NEW r \in Refs,
           NEW ok \in BOOLEAN, Returns(op, r, ok)
    PROVE  reply' \in Reply
BY DEF Returns, Reply

\* A call that only answers.
LEMMA AnswerInv ==
    ASSUME Inv, SizeExact, reply' \in Reply,
           UNCHANGED <<home, slots, size_, pc, hole, i>>
    PROVE  Inv' /\ SizeExact'
<1>1. TypeOK'
  BY DEF Inv, TypeOK
<1>2. OccupiedSlots' = OccupiedSlots
  BY DEF OccupiedSlots, Occupied
<1> QED
  BY <1>1, <1>2, SameSlotsInv, SameSize

\* reduce and erase of a stored order keep the invariant.
LEMMA EraseInv ==
    ASSUME Inv, SizeExact, pc = "idle", NEW r \in Refs, home' = home,
           NEW op \in {"reduce", "erase"}, Returns(op, r, TRUE),
           \E p \in Bucket : Holds(p, r) /\ EraseAt(p)
    PROVE  Inv' /\ SizeExact'
<1>1. PICK p \in Bucket : Holds(p, r) /\ EraseAt(p)
  OBVIOUS
<1>2. Occupied(p)
  BY <1>1, NoRefAssumption DEF Holds, Occupied, Empty
<1>3. reply' \in Reply
  BY DEF Returns, Reply
<1> QED
  BY <1>1, <1>2, <1>3, EraseAtInv, EraseAtSize, SizePositive

\* Every call keeps the invariant.
LEMMA CallInv ==
    ASSUME Inv, SizeExact, Call
    PROVE  Inv' /\ SizeExact'
<1>1. PICK r \in Refs :
         \/ InsertRefused(r) \/ InsertDuplicate(r)
         \/ Find(r) \/ Erase(r) \/ Unknown("reduce", r) \/ Unknown("erase", r)
         \/ \E n \in Shares : InsertNew(r, n) \/ ReducePart(r, n) \/ ReduceAll(r, n)
  BY DEF Call
<1>2. pc = "idle"
  BY DEF Call
<1>3. CASE InsertRefused(r) \/ InsertDuplicate(r)
  <2>1. reply' \in Reply
    BY <1>3, ReturnsReply DEF InsertRefused, InsertDuplicate
  <2> QED
    BY <1>3, <2>1, AnswerInv DEF InsertRefused, InsertDuplicate
<1>4. CASE Find(r)
  <2>1. PICK p \in Bucket :
          reply' = [op |-> "find", ref |-> r,
                    found |-> IF Holds(p, r) THEN {slots[p]} ELSE {}]
    BY <1>4 DEF Find
  <2>2. Holds(p, r) => slots[p] \in Order
    BY NoRefAssumption DEF Holds, Inv, TypeOK, Empty
  <2>3. reply' \in Reply
    BY <2>1, <2>2 DEF Reply
  <2> QED
    BY <1>4, <2>3, AnswerInv DEF Find
<1>5. CASE Unknown("reduce", r) \/ Unknown("erase", r)
  <2>1. reply' \in Reply
    BY <1>5, ReturnsReply DEF Unknown
  <2> QED
    BY <1>5, <2>1, AnswerInv DEF Unknown
<1>6. CASE Erase(r)
  BY <1>2, <1>6, EraseInv DEF Erase
<1>7. ASSUME NEW n \in Shares, InsertNew(r, n)
      PROVE  Inv' /\ SizeExact'
  BY <1>2, <1>7, InsertNewInv, InsertNewSize
<1>8. ASSUME NEW n \in Shares, ReducePart(r, n)
      PROVE  Inv' /\ SizeExact'
  <2>1. PICK p \in Bucket :
          Holds(p, r) /\ slots' = [slots EXCEPT ![p].shares = @ - n]
    BY <1>8 DEF ReducePart
  <2>2. slots[p] \in Order /\ slots[p].ref = r
    BY <2>1, NoRefAssumption DEF Holds, Inv, TypeOK, Empty
  <2>3. slots'[p].ref = r
    BY <2>1, <2>2 DEF Inv, TypeOK, Order
  <2>4. OccupiedSlots' = OccupiedSlots
    BY <2>1, <2>2, <2>3, NoRefAssumption
       DEF OccupiedSlots, Occupied, Inv, TypeOK, Empty
  <2> QED
    BY <1>2, <1>8, <2>4, ReducePartInv, SameSize DEF ReducePart
<1>9. ASSUME NEW n \in Shares, ReduceAll(r, n)
      PROVE  Inv' /\ SizeExact'
  BY <1>2, <1>9, EraseInv DEF ReduceAll
<1> QED
  BY <1>1, <1>3, <1>4, <1>5, <1>6, <1>7, <1>8, <1>9

\* Every step of a shift keeps the invariant.
LEMMA ShiftInv ==
    ASSUME Inv, SizeExact, Shift
    PROVE  Inv' /\ SizeExact'
<1>1. pc = "shift" /\ UNCHANGED <<home, size_, reply>>
  BY DEF Shift
<1>2. CASE ShiftDone
  <2>1. OccupiedSlots' = OccupiedSlots
    BY <1>2 DEF ShiftDone, OccupiedSlots, Occupied
  <2> QED
    BY <1>1, <1>2, <2>1, ShiftDoneInv, SameSize
<1>3. CASE ShiftSkip
  <2>1. OccupiedSlots' = OccupiedSlots
    BY <1>3 DEF ShiftSkip, OccupiedSlots, Occupied
  <2> QED
    BY <1>1, <1>3, <2>1, ShiftSkipInv, SameSize
<1>4. CASE ShiftMove
  BY <1>1, <1>4, ShiftMoveInv, ShiftMoveSize
<1> QED
  BY <1>2, <1>3, <1>4 DEF Shift

\* The invariant holds in every reachable state.
THEOREM Invariance == Spec => [](Inv /\ SizeExact)
<1>1. Init => Inv /\ SizeExact
  BY InitInv, InitSize
<1>2. Inv /\ SizeExact /\ [Next]_vars => (Inv /\ SizeExact)'
  <2> SUFFICES ASSUME Inv, SizeExact, [Next]_vars
               PROVE  Inv' /\ SizeExact'
    OBVIOUS
  <2>1. CASE Call
    BY <2>1, CallInv
  <2>2. CASE Shift
    BY <2>2, ShiftInv
  <2>3. CASE UNCHANGED vars
    <3>1. reply' \in Reply
      BY <2>3 DEF vars, Inv, TypeOK
    <3> QED
      BY <2>3, <3>1, AnswerInv DEF vars
  <2> QED
    BY <2>1, <2>2, <2>3 DEF Next
<1> QED
  BY <1>1, <1>2, PTL DEF Spec

\* The variables of OrderHash keep their types; size_ never exceeds half the
\* capacity.
THEOREM TypeCorrect == Spec => []TypeOK
BY Invariance, PTL DEF Inv

\* order_hash.hpp's erase_at never loses an order: between calls, find, reduce
\* and erase reach every stored order from its home bucket.
THEOREM OrdersStayReachable == Spec => []EveryOrderReachable
<1>1. Inv => EveryOrderReachable
  BY InvReachable
<1> QED
  BY <1>1, Invariance, PTL

\* insert never stores a reference twice, and shifting never duplicates one.
THEOREM RefsStayUnique == Spec => []UniqueRefs
BY Invariance, PTL DEF Inv

\* size_ always counts the occupied slots, so the load limit is the real load.
THEOREM SizeStaysExact == Spec => []SizeExact
BY Invariance, PTL

\* At least one slot is always empty, so every probe meets one.
THEOREM ProbesComeToAnEnd == Spec => []ProbesEnd
<1>1. TypeOK /\ SizeExact => ProbesEnd
  <2> SUFFICES ASSUME TypeOK, SizeExact, Capacity > 1, \A p \in Bucket : Occupied(p)
               PROVE  FALSE
    BY DEF ProbesEnd
  <2>1. {p \in Bucket : Occupied(p)} = Bucket
    OBVIOUS
  <2>2. Cardinality(Bucket) = Capacity
    BY CapacityAssumption, FS_Interval DEF Bucket
  <2>3. size_ = Capacity
    BY <2>1, <2>2 DEF SizeExact
  <2>4. size_ <= Capacity \div 2
    BY DEF TypeOK
  <2> QED
    BY <2>3, <2>4, CapacityAssumption
<1> QED
  BY <1>1, TypeCorrect, SizeStaysExact, PTL

-----------------------------------------------------------------------------
(***************************************************************************)
(* erase_at comes to its end.                                              *)
(*                                                                         *)
(* The slots the scan has passed are occupied.  If the first empty slot    *)
(* ahead of it were the hole, all slots but the hole would be, which the   *)
(* load limit excludes; so the slot the scan is headed for is one that no  *)
(* move fills.                                                             *)
(***************************************************************************)
ScanInv ==
    pc = "shift" =>
        /\ \A p \in Bucket : Scanned(p) => Occupied(p)
        /\ size_ < Capacity \div 2

\* The order of the numbers is well founded, said of a set.
LEMMA LeastElement ==
    ASSUME NEW T \in SUBSET Nat, T # {}
    PROVE  \E k \in T : \A m \in T : k <= m
<1>1. PICK k \in T : \A m \in T : ~ (<<m, k>> \in OpToRel(<, Nat))
  BY NatLessThanWellFounded, WFMin, Zenon
<1>2. \A m \in T : m \in Nat /\ k \in Nat
  OBVIOUS
<1>3. \A m \in T : m < k => <<m, k>> \in OpToRel(<, Nat)
  BY <1>2, Zenon DEF OpToRel
<1>4. \A m \in T : ~(m < k)
  BY <1>1, <1>3, Zenon
<1> QED
  BY <1>2, <1>4

\* The slots ahead are all the slots, each once, the next one first.
LEMMA AheadOfScan ==
    ASSUME i \in Bucket
    PROVE  /\ \A d \in 1..Capacity : Ahead(d) \in Bucket
           /\ \A p \in Bucket : \E d \in 1..Capacity : p = Ahead(d)
           /\ \A d, e \in 1..Capacity : Ahead(d) = Ahead(e) => d = e
           /\ Ahead(1) = Succ(i)
<1>1. \A d \in 1..Capacity : Ahead(d) \in Bucket
  BY CapacityAssumption DEF Ahead, Bucket
<1>2. ASSUME NEW p \in Bucket PROVE \E d \in 1..Capacity : p = Ahead(d)
  <2>1. CASE p > i
    <3>1. p - i \in 1..Capacity /\ p = Ahead(p - i)
      BY <2>1, CapacityAssumption DEF Ahead, Bucket
    <3> QED
      BY <3>1
  <2>2. CASE p <= i
    <3>1. p - i + Capacity \in 1..Capacity /\ p = Ahead(p - i + Capacity)
      BY <2>2, CapacityAssumption DEF Ahead, Bucket
    <3> QED
      BY <3>1
  <2> QED
    BY <2>1, <2>2 DEF Bucket
<1>3. \A d, e \in 1..Capacity : Ahead(d) = Ahead(e) => d = e
  BY CapacityAssumption DEF Ahead, Bucket
<1>4. Ahead(1) = Succ(i)
  BY CapacityAssumption DEF Ahead, Succ, Bucket
<1> QED
  BY <1>1, <1>2, <1>3, <1>4

\* A step of the scan brings them one nearer.
LEMMA AheadNext ==
    ASSUME i \in Bucket, i' = Succ(i), NEW d \in 1..Capacity-1
    PROVE  Ahead(d)' = Ahead(d + 1)
BY CapacityAssumption DEF Ahead, Succ, Bucket

\* What lies beyond the hole, seen from the scan, has been passed.
LEMMA BeyondHole ==
    ASSUME i \in Bucket, hole \in Bucket, NEW d \in 1..Capacity, Ahead(d) = hole,
           NEW e \in 1..Capacity, e > d
    PROVE  Scanned(Ahead(e))
BY CapacityAssumption DEF Ahead, Scanned, Bucket

\* The scan is not headed for the hole.
LEMMA HoleNotAhead ==
    ASSUME Inv, SizeExact, ScanInv, pc = "shift", NEW d \in 1..Capacity, ScanEndsIn(d)
    PROVE  Ahead(d) # hole
<1> SUFFICES ASSUME Ahead(d) = hole PROVE FALSE
  OBVIOUS
<1>1. i \in Bucket /\ hole \in Bucket /\ ~Occupied(hole)
  BY DEF Inv, TypeOK, ScannedClear
<1>2. ASSUME NEW p \in Bucket, p # hole PROVE Occupied(p)
  <2>1. PICK e \in 1..Capacity : p = Ahead(e)
    BY <1>1, AheadOfScan
  <2>2. CASE e < d
    <3>1. e \in 1..d-1
      BY <2>2
    <3> QED
      BY <2>1, <3>1 DEF ScanEndsIn
  <2>3. CASE e > d
    BY <1>1, <2>1, <2>3, BeyondHole DEF ScanInv
  <2>4. e # d
    BY <1>2, <2>1
  <2> QED
    BY <2>2, <2>3, <2>4
<1>3. OccupiedSlots = Bucket \ {hole}
  BY <1>1, <1>2 DEF OccupiedSlots
<1>4. IsFiniteSet(Bucket) /\ Cardinality(Bucket) = Capacity
  BY CapacityAssumption, FS_Interval DEF Bucket
<1>5. Cardinality(OccupiedSlots) = Capacity - 1
  BY <1>1, <1>3, <1>4, FS_RemoveElement
<1>6. size_ = Capacity - 1 /\ size_ < Capacity \div 2
  BY <1>5 DEF SizeExact, OccupiedSlots, ScanInv
<1> QED
  BY <1>6, CapacityAssumption

\* The scan has an end ahead: if nothing else, the hole.
LEMMA ScanHasAnEnd ==
    ASSUME Inv, pc = "shift"
    PROVE  \E d \in 1..Capacity : ScanEndsIn(d)
<1> DEFINE Ends == {d \in 1..Capacity : ~Occupied(Ahead(d))}
<1>1. i \in Bucket /\ hole \in Bucket /\ ~Occupied(hole)
  BY DEF Inv, TypeOK, ScannedClear
<1>2. PICK h \in 1..Capacity : hole = Ahead(h)
  BY <1>1, AheadOfScan
<1>3. Ends # {} /\ Ends \in SUBSET Nat
  BY <1>1, <1>2
<1> HIDE DEF Ends
<1>4. PICK d \in Ends : \A m \in Ends : d <= m
  BY <1>3, LeastElement
<1> USE DEF Ends
<1>5. d \in 1..Capacity /\ ~Occupied(Ahead(d))
  BY <1>4
<1>6. ASSUME NEW e \in 1..d-1, ~Occupied(Ahead(e)) PROVE FALSE
  <2>1. e \in 1..Capacity /\ ~(d <= e)
    BY <1>5, CapacityAssumption
  <2>2. e \in Ends
    BY <1>6, <2>1
  <2> QED
    BY <1>4, <2>1, <2>2
<1> QED
  BY <1>5, <1>6 DEF ScanEndsIn

\* A step that passes a slot leaves the end where it is.
LEMMA ScanComesNearer ==
    ASSUME Inv, SizeExact, ScanInv, pc = "shift", ShiftSkip \/ ShiftMove,
           NEW d \in 1..Capacity, ScanEndsIn(d)
    PROVE  d # 1 /\ pc' = "shift" /\ ScanEndsIn(d - 1)'
<1>1. /\ i \in Bucket /\ hole \in Bucket /\ ~Occupied(hole)
      /\ Occupied(Succ(i)) /\ i' = Succ(i) /\ pc' = "shift"
  BY DEF Inv, TypeOK, ScannedClear, ShiftSkip, ShiftMove
<1>2. Ahead(1) = Succ(i) /\ 1 \in 1..Capacity
  BY <1>1, AheadOfScan, CapacityAssumption
<1>3. d # 1
  BY <1>1, <1>2 DEF ScanEndsIn
<1>4. ASSUME NEW e \in 2..Capacity
      PROVE  /\ Ahead(e) \in Bucket /\ Ahead(e) # Succ(i)
             /\ Ahead(e - 1)' = Ahead(e)
  <2>1. e \in 1..Capacity /\ e # 1 /\ e - 1 \in 1..Capacity-1 /\ (e - 1) + 1 = e
    BY CapacityAssumption
  <2>2. Ahead(e) \in Bucket /\ Ahead(e) # Succ(i)
    BY <1>1, <1>2, <2>1, AheadOfScan
  <2>3. Ahead(e - 1)' = Ahead(e)
    BY <1>1, <2>1, AheadNext
  <2> QED
    BY <2>2, <2>3
<1>5. Ahead(d) # hole
  BY HoleNotAhead
<1>6. \A p \in Bucket \ {hole, Succ(i)} : slots'[p] = slots[p]
  BY DEF ShiftSkip, ShiftMove, Inv, TypeOK
<1>7. ~Occupied(Ahead(d - 1))'
  <2>1. PICK p \in Bucket : p = Ahead(d) /\ p # Succ(i) /\ p # hole /\ Ahead(d - 1)' = p
    BY <1>3, <1>4, <1>5
  <2> QED
    BY <1>6, <2>1 DEF ScanEndsIn, Occupied
<1>8. ASSUME NEW e \in 1..d-2 PROVE Occupied(Ahead(e))'
  <2>1. e + 1 \in 2..Capacity /\ e + 1 \in 1..d-1 /\ (e + 1) - 1 = e
    BY <1>3, CapacityAssumption
  <2>2. PICK p \in Bucket : p = Ahead(e + 1) /\ p # Succ(i) /\ Ahead(e)' = p
    BY <1>4, <2>1
  <2>3. Occupied(p)
    BY <2>1, <2>2 DEF ScanEndsIn
  <2> QED
    BY <1>1, <1>6, <2>2, <2>3 DEF Occupied
<1>9. (d - 1) - 1 = d - 2
  OBVIOUS
<1> QED
  BY <1>1, <1>3, <1>7, <1>8, <1>9 DEF ScanEndsIn

\* Every step keeps the passed slots occupied, and a place to spare.
LEMMA CallKeepsScan ==
    ASSUME Inv, SizeExact, Call
    PROVE  ScanInv'
<1>1. PICK r \in Refs :
         \/ InsertRefused(r) \/ InsertDuplicate(r)
         \/ Find(r) \/ Erase(r) \/ Unknown("reduce", r) \/ Unknown("erase", r)
         \/ \E n \in Shares : InsertNew(r, n) \/ ReducePart(r, n) \/ ReduceAll(r, n)
  BY DEF Call
<1>2. pc' = "shift" => \E p \in Bucket : Holds(p, r) /\ EraseAt(p)
  BY <1>1 DEF Call, InsertRefused, InsertDuplicate, Find, Erase, Unknown, InsertNew,
              ReducePart, ReduceAll
<1> SUFFICES ASSUME pc' = "shift"
             PROVE  (\A p \in Bucket : ~Scanned(p)') /\ size_' < Capacity \div 2
  BY DEF ScanInv
<1>3. PICK p \in Bucket : Holds(p, r) /\ EraseAt(p)
  BY <1>2
<1>4. \A q \in Bucket : ~Scanned(q)'
  BY <1>3, CapacityAssumption DEF EraseAt, Scanned, Bucket
<1>5. size_ # 0
  BY <1>3, SizePositive, NoRefAssumption DEF Holds, Occupied, Empty
<1> QED
  BY <1>3, <1>4, <1>5, CapacityAssumption DEF EraseAt, Inv, TypeOK

LEMMA ShiftKeepsScan ==
    ASSUME Inv, ScanInv, Shift
    PROVE  ScanInv'
<1>1. pc = "shift" /\ size_' = size_
  BY DEF Shift
<1>2. CASE ShiftDone
  BY <1>2 DEF ShiftDone, ScanInv
<1>3. CASE ShiftSkip
  <2>1. Succ(i) # hole /\ Occupied(Succ(i))
    BY <1>1, <1>3 DEF ShiftSkip, Inv, ScannedClear
  <2>2. \A p \in Bucket : Scanned(p)' => Scanned(p) \/ p = Succ(i)
    BY <1>3, <2>1, ScanStep DEF ShiftSkip, Inv
  <2> QED
    BY <1>1, <1>3, <2>1, <2>2 DEF ShiftSkip, ScanInv, Occupied
<1>4. CASE ShiftMove
  <2>1. \A p \in Bucket : ~Scanned(p)'
    BY <1>4, SuccInBucket, CapacityAssumption DEF ShiftMove, Scanned, Bucket, Inv, TypeOK
  <2> QED
    BY <1>1, <1>4, <2>1 DEF ShiftMove, ScanInv
<1> QED
  BY <1>2, <1>3, <1>4 DEF Shift

LEMMA ScanInvariance == Spec => [](Inv /\ SizeExact /\ ScanInv)
<1>1. Init => ScanInv
  BY DEF Init, ScanInv
<1>2. Inv /\ SizeExact /\ ScanInv /\ [Next]_vars => ScanInv'
  <2>1. ScanInv /\ UNCHANGED vars => ScanInv'
    BY DEF vars, ScanInv, Scanned, Occupied
  <2> QED
    BY <2>1, CallKeepsScan, ShiftKeepsScan DEF Next
<1> QED
  BY Invariance, <1>1, <1>2, PTL DEF Spec

\* A deletion with d - 1 occupied slots behind the one it scans from ends after d more
\* steps, for every table: the moves never fill the slot it is headed for.
THEOREM DeletionsCountDown == Spec => EraseCountsDown
<1> DEFINE CountsDown ==
      pc = "shift" =>
         \E d \in 1..Capacity :
             /\ ScanEndsIn(d)
             /\ IF d = 1 THEN pc' = "idle" ELSE pc' = "shift" /\ ScanEndsIn(d - 1)'
<1>1. Inv /\ SizeExact /\ ScanInv /\ [Next]_vars => [CountsDown]_vars
  <2> SUFFICES ASSUME Inv, SizeExact, ScanInv, Next, pc = "shift" PROVE CountsDown
    OBVIOUS
  <2>1. PICK d \in 1..Capacity : ScanEndsIn(d)
    BY ScanHasAnEnd
  <2>2. Shift
    BY DEF Next, Call
  <2>3. CASE ShiftDone
    <3>1. i \in Bucket
      BY DEF Inv, TypeOK
    <3>2. Ahead(1) = Succ(i) /\ ~Occupied(Ahead(1)) /\ pc' = "idle"
      BY <2>3, <3>1, AheadOfScan DEF ShiftDone
    <3>3. d = 1
      BY <2>1, <3>2 DEF ScanEndsIn
    <3> QED
      BY <2>1, <3>2, <3>3
  <2>4. CASE ShiftSkip \/ ShiftMove
    <3>1. d # 1 /\ pc' = "shift" /\ ScanEndsIn(d - 1)'
      BY <2>1, <2>4, ScanComesNearer
    <3> QED
      BY <2>1, <3>1
  <2> QED
    BY <2>2, <2>3, <2>4 DEF Shift
<1> QED
  BY ScanInvariance, <1>1, PTL DEF Spec, EraseCountsDown

-----------------------------------------------------------------------------
(***************************************************************************)
(* OrderHash implements OrderTable.                                        *)
(***************************************************************************)
Orders == {slots[p] : p \in {q \in Bucket : Occupied(q)}}
StoredOrders(r) == {o \in Orders : o.ref = r}

\* The set of orders, member by member.
LEMMA OrdersAre ==
    \A o : o \in Orders <=> \E p \in Bucket : Occupied(p) /\ o = slots[p]
BY DEF Orders

\* What a probe that ends at p says about the set of orders.
LEMMA ProbeFinds ==
    ASSUME Inv, pc = "idle", NEW r \in Refs, NEW p \in Bucket, EndsAt(r, p)
    PROVE  StoredOrders(r) = IF Holds(p, r) THEN {slots[p]} ELSE {}
<1>1. CASE Holds(p, r)
  <2>1. Occupied(p)
    BY <1>1, NoRefAssumption DEF Holds, Occupied, Empty
  <2>2. slots[p] \in Orders /\ slots[p].ref = r
    BY <1>1, <2>1, OrdersAre DEF Holds
  <2>3. ASSUME NEW o \in Orders, o.ref = r
        PROVE  o = slots[p]
    <3>1. PICK q \in Bucket : Occupied(q) /\ o = slots[q]
      BY <2>3, OrdersAre
    <3> QED
      BY <2>1, <2>2, <2>3, <3>1 DEF Inv, UniqueRefs
  <2> QED
    BY <1>1, <2>2, <2>3 DEF StoredOrders
<1>2. CASE ~Holds(p, r)
  <2>1. \A o \in Orders : o.ref # r
    BY <1>2, FreshRef, OrdersAre
  <2> QED
    BY <1>2, <2>1 DEF StoredOrders
<1> QED
  BY <1>1, <1>2

\* There are as many orders as occupied slots.
LEMMA OrdersCount ==
    ASSUME Inv, SizeExact
    PROVE  Cardinality(Orders) = size_
<1> DEFINE f == [p \in OccupiedSlots |-> slots[p]]
<1>1. f \in [OccupiedSlots -> Orders]
  BY OrdersAre DEF OccupiedSlots
<1>2. f \in Injection(OccupiedSlots, Orders)
  <2>1. \A p, q \in OccupiedSlots : f[p] = f[q] => p = q
    BY DEF OccupiedSlots, Inv, UniqueRefs
  <2> QED
    BY <1>1, <2>1 DEF Injection, IsInjective
<1>3. f \in Surjection(OccupiedSlots, Orders)
  <2>1. \A o \in Orders : \E p \in OccupiedSlots : f[p] = o
    BY OrdersAre DEF OccupiedSlots
  <2> QED
    BY <1>1, <2>1 DEF Surjection
<1>4. ExistsBijection(OccupiedSlots, Orders)
  BY <1>2, <1>3 DEF ExistsBijection, Bijection
<1> QED
  BY <1>4, OccupiedFinite, FS_Bijection DEF SizeExact, OccupiedSlots

\* The same after a step.
LEMMA OrdersWillBe ==
    \A o : o \in Orders' <=> \E p \in Bucket : slots'[p] # Empty /\ o = slots'[p]
BY DEF Orders, Occupied

\* What each change of the slots does to the set of orders.
LEMMA OrderAdded ==
    ASSUME TypeOK, NEW p \in Bucket, ~Occupied(p), NEW o, o # Empty,
           slots' = [slots EXCEPT ![p] = o]
    PROVE  Orders' = Orders \cup {o}
<1>1. /\ slots'[p] = o
      /\ \A q \in Bucket \ {p} : slots'[q] = slots[q]
  BY DEF TypeOK
<1>2. ASSUME NEW x \in Orders PROVE x \in Orders'
  <2>1. PICK q \in Bucket : Occupied(q) /\ x = slots[q]
    BY <1>2, OrdersAre
  <2> QED
    BY <1>1, <2>1, OrdersWillBe DEF Occupied
<1>3. o \in Orders'
  BY <1>1, OrdersWillBe
<1>4. ASSUME NEW x \in Orders', x # o PROVE x \in Orders
  <2>1. PICK q \in Bucket : slots'[q] # Empty /\ x = slots'[q]
    BY <1>4, OrdersWillBe
  <2> QED
    BY <1>1, <1>4, <2>1, OrdersAre DEF Occupied
<1> QED
  BY <1>2, <1>3, <1>4

\* Emptying a slot removes its order and no other.
LEMMA OrderRemoved ==
    ASSUME Inv, NEW p \in Bucket, Occupied(p), slots' = [slots EXCEPT ![p] = Empty]
    PROVE  Orders' = Orders \ {slots[p]}
<1>1. /\ slots'[p] = Empty
      /\ \A q \in Bucket \ {p} : slots'[q] = slots[q]
  BY DEF Inv, TypeOK
<1>2. ASSUME NEW x \in Orders, x # slots[p] PROVE x \in Orders'
  <2>1. PICK q \in Bucket : Occupied(q) /\ x = slots[q]
    BY <1>2, OrdersAre
  <2> QED
    BY <1>1, <1>2, <2>1, OrdersWillBe DEF Occupied
<1>3. ASSUME NEW x \in Orders' PROVE x \in Orders /\ x # slots[p]
  <2>1. PICK q \in Bucket : slots'[q] # Empty /\ x = slots'[q]
    BY <1>3, OrdersWillBe
  <2>2. q # p /\ Occupied(q) /\ x = slots[q]
    BY <1>1, <2>1 DEF Occupied
  <2> QED
    BY <2>2, OrdersAre DEF Inv, UniqueRefs
<1> QED
  BY <1>2, <1>3

\* A move leaves the set as it is.
LEMMA OrderMoved ==
    ASSUME Inv, ShiftMove, pc = "shift"
    PROVE  Orders' = Orders
<1>1. PICK h \in Bucket, s \in Bucket : h = hole /\ s = Succ(i)
  BY SuccInBucket DEF Inv, TypeOK
<1>2. Occupied(s) /\ ~Occupied(h)
  BY <1>1 DEF ShiftMove, Inv, ScannedClear
<1>3. /\ slots'[h] = slots[s]
      /\ slots'[s] = Empty
      /\ \A q \in Bucket \ {h, s} : slots'[q] = slots[q]
  BY <1>1, <1>2 DEF ShiftMove, Inv, TypeOK
<1>4. ASSUME NEW x \in Orders PROVE x \in Orders'
  <2>1. PICK q \in Bucket : Occupied(q) /\ x = slots[q]
    BY <1>4, OrdersAre
  <2> QED
    BY <1>2, <1>3, <2>1, OrdersWillBe DEF Occupied
<1>5. ASSUME NEW x \in Orders' PROVE x \in Orders
  <2>1. PICK q \in Bucket : slots'[q] # Empty /\ x = slots'[q]
    BY <1>5, OrdersWillBe
  <2> QED
    BY <1>2, <1>3, <2>1, OrdersAre DEF Occupied
<1> QED
  BY <1>4, <1>5

\* Rewriting an occupied slot replaces its order.
LEMMA OrderChanged ==
    ASSUME Inv, NEW p \in Bucket, Occupied(p), NEW o \in Order,
           slots' = [slots EXCEPT ![p] = o]
    PROVE  Orders' = (Orders \ {slots[p]}) \cup {o}
<1>1. /\ slots'[p] = o /\ o # Empty
      /\ \A q \in Bucket \ {p} : slots'[q] = slots[q]
  BY EmptyIsNoOrder DEF Inv, TypeOK
<1>2. ASSUME NEW x \in Orders, x # slots[p] PROVE x \in Orders'
  <2>1. PICK q \in Bucket : Occupied(q) /\ x = slots[q]
    BY <1>2, OrdersAre
  <2> QED
    BY <1>1, <1>2, <2>1, OrdersWillBe DEF Occupied
<1>3. o \in Orders'
  BY <1>1, OrdersWillBe
<1>4. ASSUME NEW x \in Orders', x # o PROVE x \in Orders /\ x # slots[p]
  <2>1. PICK q \in Bucket : slots'[q] # Empty /\ x = slots'[q]
    BY <1>4, OrdersWillBe
  <2>2. q # p /\ Occupied(q) /\ x = slots[q]
    BY <1>1, <1>4, <2>1 DEF Occupied
  <2> QED
    BY <2>2, OrdersAre DEF Inv, UniqueRefs
<1> QED
  BY <1>2, <1>3, <1>4

-----------------------------------------------------------------------------
(***************************************************************************)
(* Each step of OrderHash is a step of OrderTable or leaves it as it is.   *)
(***************************************************************************)
LEMMA TableCardinality == Table!Cardinality(Orders) = Cardinality(Orders)
BY DEF Cardinality, Table!Cardinality

\* Every call is the step OrderTable takes for it.
LEMMA CallSimulates ==
    ASSUME Inv, SizeExact, Call
    PROVE  Table!Next
<1>1. PICK r \in Refs :
         \/ InsertRefused(r) \/ InsertDuplicate(r)
         \/ Find(r) \/ Erase(r) \/ Unknown("reduce", r) \/ Unknown("erase", r)
         \/ \E n \in Shares : InsertNew(r, n) \/ ReducePart(r, n) \/ ReduceAll(r, n)
  BY DEF Call
<1>2. pc = "idle" /\ Cardinality(Orders) = size_
  BY OrdersCount DEF Call
<1>3. \A p \in Bucket : EndsAt(r, p) =>
        /\ StoredOrders(r) = IF Holds(p, r) THEN {slots[p]} ELSE {}
        /\ Holds(p, r) => Occupied(p) /\ slots[p] \in Order
  BY <1>2, ProbeFinds, OccupiedRef, NoRefAssumption DEF Holds, Occupied, Empty, Inv
<1>4. ASSUME slots' = slots PROVE Orders' = Orders
  BY <1>4 DEF Orders, Occupied
<1>5. CASE InsertRefused(r) \/ InsertDuplicate(r)
  <2>1. Returns("insert", r, FALSE) /\ Orders' = Orders
    BY <1>4, <1>5 DEF InsertRefused, InsertDuplicate
  <2>2. Cardinality(Orders) + 1 > Capacity \div 2 \/ StoredOrders(r) # {}
    BY <1>2, <1>3, <1>5 DEF InsertRefused, InsertDuplicate, Full
  <2>3. Table!Insert(r, 1)
    BY <2>1, <2>2, TableCardinality DEF Table!Insert, Table!Returns, Returns, Table!Stored,
       Orders, StoredOrders
  <2> QED
    BY <2>3, MaxSharesAssumption DEF Table!Next, Table!Shares
<1>6. CASE Find(r)
  <2>1. reply' = [op |-> "find", ref |-> r, found |-> StoredOrders(r)]
    BY <1>3, <1>6 DEF Find
  <2>2. Orders' = Orders
    BY <1>4, <1>6 DEF Find
  <2>3. Table!Find(r)
    BY <2>1, <2>2 DEF Table!Find, Table!Stored, Orders, StoredOrders
  <2> QED
    BY <2>3 DEF Table!Next
<1>7. CASE Unknown("erase", r)
  <2>1. Returns("erase", r, FALSE) /\ StoredOrders(r) = {} /\ Orders' = Orders
    BY <1>3, <1>4, <1>7 DEF Unknown
  <2>2. Table!Erase(r)
    BY <2>1 DEF Table!Erase, Table!Returns, Returns, Table!Stored, Orders, StoredOrders
  <2> QED
    BY <2>2 DEF Table!Next
<1>8. CASE Unknown("reduce", r)
  <2>1. Returns("reduce", r, FALSE) /\ StoredOrders(r) = {} /\ Orders' = Orders
    BY <1>3, <1>4, <1>8 DEF Unknown
  <2>2. Table!Reduce(r, 1)
    BY <2>1 DEF Table!Reduce, Table!Returns, Returns, Table!Stored, Orders, StoredOrders
  <2> QED
    BY <2>2, MaxSharesAssumption DEF Table!Next, Table!Shares
<1>9. CASE Erase(r)
  <2>1. PICK p \in Bucket : EndsAt(r, p) /\ Holds(p, r) /\ EraseAt(p)
    BY <1>9 DEF Erase
  <2>2. StoredOrders(r) = {slots[p]} /\ Orders' = Orders \ {slots[p]}
    BY <1>3, <2>1, OrderRemoved DEF EraseAt
  <2>3. Table!Erase(r)
    BY <1>9, <2>2 DEF Erase, Table!Erase, Table!Returns, Returns, Table!Stored,
       Orders, StoredOrders
  <2> QED
    BY <2>3 DEF Table!Next
<1>10. ASSUME NEW n \in Shares, InsertNew(r, n)
       PROVE  Table!Next
  <2>1. PICK p \in Bucket :
          /\ EndsAt(r, p) /\ ~Holds(p, r)
          /\ slots' = [slots EXCEPT ![p] = [ref |-> r, shares |-> n]]
    BY <1>10 DEF InsertNew
  <2>2. StoredOrders(r) = {} /\ ~Occupied(p)
    BY <1>2, <1>3, <2>1, FreshRef
  <2>3. [ref |-> r, shares |-> n] # Empty
    BY NoRefAssumption DEF Empty
  <2>4. Orders' = Orders \cup {[ref |-> r, shares |-> n]}
    BY <2>1, <2>2, <2>3, OrderAdded DEF Inv
  <2>5. ~(Cardinality(Orders) + 1 > Capacity \div 2)
    BY <1>2, <1>10 DEF InsertNew, Full
  <2>6. Table!Insert(r, n)
    BY <1>10, <2>2, <2>4, <2>5, TableCardinality
       DEF InsertNew, Table!Insert, Table!Returns, Returns, Table!Stored, Orders, StoredOrders
  <2> QED
    BY <2>6 DEF Table!Next, Table!Shares, Shares
<1>11. ASSUME NEW n \in Shares, ReducePart(r, n)
       PROVE  Table!Next
  <2>1. PICK p \in Bucket :
          /\ EndsAt(r, p) /\ Holds(p, r) /\ ~TakesAll(p, n)
          /\ slots' = [slots EXCEPT ![p].shares = @ - n]
    BY <1>11 DEF ReducePart
  <2> DEFINE o == [ref |-> slots[p].ref, shares |-> slots[p].shares - n]
  <2>2. StoredOrders(r) = {slots[p]} /\ Occupied(p) /\ slots[p] \in Order
    BY <1>3, <2>1
  <2>3. o \in Order /\ slots' = [slots EXCEPT ![p] = o]
    <3>1. slots[p].shares - n \in Shares
      BY <2>1, <2>2, MaxSharesAssumption DEF TakesAll, Order, Shares
    <3>2. [slots[p] EXCEPT !.shares = @ - n] = o
      BY <2>2 DEF Order
    <3> QED
      BY <2>1, <2>2, <3>1, <3>2 DEF Order
  <2>4. Orders' = (Orders \ {slots[p]}) \cup {o}
    BY <2>2, <2>3, OrderChanged
  <2>5. UNION {Table!Reduced(x, n) : x \in {slots[p]}} = {o}
    BY <2>1 DEF Table!Reduced, TakesAll
  <2>6. Table!Reduce(r, n)
    BY <1>11, <2>2, <2>4, <2>5 DEF ReducePart, Table!Reduce, Table!Returns, Returns,
       Table!Stored, Orders, StoredOrders
  <2> QED
    BY <2>6 DEF Table!Next, Table!Shares, Shares
<1>12. ASSUME NEW n \in Shares, ReduceAll(r, n)
       PROVE  Table!Next
  <2>1. PICK p \in Bucket :
          EndsAt(r, p) /\ Holds(p, r) /\ TakesAll(p, n) /\ EraseAt(p)
    BY <1>12 DEF ReduceAll
  <2>2. StoredOrders(r) = {slots[p]} /\ Orders' = Orders \ {slots[p]}
    BY <1>3, <2>1, OrderRemoved DEF EraseAt
  <2>3. UNION {Table!Reduced(x, n) : x \in {slots[p]}} = {}
    BY <2>1 DEF Table!Reduced, TakesAll
  <2>4. Table!Reduce(r, n)
    BY <1>12, <2>2, <2>3 DEF ReduceAll, Table!Reduce, Table!Returns, Returns,
       Table!Stored, Orders, StoredOrders
  <2> QED
    BY <2>4 DEF Table!Next, Table!Shares, Shares
<1> QED
  BY <1>1, <1>5, <1>6, <1>7, <1>8, <1>9, <1>10, <1>11, <1>12

\* A step of a shift is invisible to the caller.
LEMMA ShiftSimulates ==
    ASSUME Inv, Shift
    PROVE  UNCHANGED Table!vars
<1>1. pc = "shift" /\ reply' = reply
  BY DEF Shift
<1>2. Orders' = Orders
  BY <1>1, OrderMoved DEF Shift, ShiftDone, ShiftSkip, Orders, Occupied
<1> QED
  BY <1>1, <1>2 DEF Table!vars, Orders

\* Every run of OrderHash, seen as the set of orders in its slots and the
\* replies of its calls, is a run of OrderTable.
THEOREM ImplementsTable == Spec => TableAsPromised
<1>1. Init => Table!Init
  BY DEF Init, Table!Init, Occupied, NoReply, Table!NoReply
<1>2. Inv /\ SizeExact /\ [Next]_vars => [Table!Next]_(Table!vars)
  <2>1. CASE UNCHANGED vars
    BY <2>1 DEF vars, Table!vars, Occupied
  <2> QED
    BY <2>1, CallSimulates, ShiftSimulates DEF Next
<1> QED
  BY <1>1, <1>2, Invariance, PTL DEF Spec, TableAsPromised, Table!Spec
=============================================================================
