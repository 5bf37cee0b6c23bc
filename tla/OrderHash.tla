------------------------------ MODULE OrderHash ------------------------------
(***************************************************************************)
(* OrderHash (src/src/parser/order_hash.hpp): open addressing with linear  *)
(* probing and backward-shift deletion.                                    *)
(*                                                                         *)
(* A slot holds a reference and, of the order's data, the shares; price,   *)
(* locate and side travel with them.  The hash function is any function    *)
(* from references to buckets, chosen once.  A call is one action, except  *)
(* that erase_at takes one step per iteration of its scan.                 *)
(***************************************************************************)
EXTENDS Naturals, FiniteSets

CONSTANTS
    Refs,        \* order references
    NoRef,       \* 0: the reference of an empty slot
    Capacity,    \* mask_ + 1, a power of two, which makes "& mask_" a wrap
    MaxShares    \* bound on the shares of an order and of a cancel

ASSUME CapacityAssumption == Capacity \in Nat \ {0}
ASSUME MaxSharesAssumption == MaxShares \in Nat \ {0}
ASSUME NoRefAssumption == NoRef \notin Refs

Bucket == 0..Capacity-1
Shares == 1..MaxShares
Order  == [ref : Refs, shares : Shares]
Empty  == [ref |-> NoRef, shares |-> 0]

NoReply == [op |-> "none"]

VARIABLES
    home,        \* bucket(): the bucket each reference hashes to
    slots,       \* slots_
    size_,
    pc,          \* "idle", or "shift" while erase_at is running
    hole, i,     \* the locals of erase_at
    reply        \* the last call and what it returned

vars == <<home, slots, size_, pc, hole, i, reply>>

-----------------------------------------------------------------------------
\* (i + 1) & mask_
\* (Mutation: the last bucket is its own successor.)
SuccStuck(p) == IF p = Capacity - 1 THEN p ELSE p + 1
Succ(p) == IF p = Capacity - 1 THEN 0 ELSE p + 1

Occupied(p) == slots[p] # Empty

(***************************************************************************)
(* Is k in the cyclic probe interval [from, to)?  The condition of         *)
(* erase_at, which asks it of the hole.                                    *)
(***************************************************************************)
InInterval(k, from, to) ==
    IF from <= to THEN from <= k /\ k < to ELSE from <= k \/ k < to

(***************************************************************************)
(* A probe for r ends at p: at the first slot from home[r] on that is      *)
(* empty or holds r.  A probe that meets no such slot does not return.     *)
(***************************************************************************)
EndsAt(r, p) ==
    /\ slots[p].ref \in {r, NoRef}
    /\ \A k \in Bucket : InInterval(k, home[r], p) => slots[k].ref \notin {r, NoRef}

Holds(p, r) == slots[p].ref = r

Returns(op, r, ok) == reply' = [op |-> op, ref |-> r, ok |-> ok]

Init ==
    /\ home \in [Refs -> Bucket]
    /\ slots = [p \in Bucket |-> Empty]
    /\ size_ = 0
    /\ pc = "idle" /\ hole = 0 /\ i = 0
    /\ reply = NoReply

\* insert: refuses beyond 50% load without probing.
\* (Mutations: the limit is checked one insert late, or is the capacity.)
FullLate       == size_ > Capacity \div 2
FullAtCapacity == size_ + 1 > Capacity
Full           == size_ + 1 > Capacity \div 2

InsertRefused(r) ==
    /\ Full
    /\ Returns("insert", r, FALSE)
    /\ UNCHANGED <<home, slots, size_, pc, hole, i>>

InsertDuplicate(r) ==
    /\ ~Full
    /\ \E p \in Bucket : EndsAt(r, p) /\ Holds(p, r)
    /\ Returns("insert", r, FALSE)
    /\ UNCHANGED <<home, slots, size_, pc, hole, i>>

InsertNew(r, n) ==
    /\ ~Full
    /\ \E p \in Bucket :
         /\ EndsAt(r, p) /\ ~Holds(p, r)
         /\ slots' = [slots EXCEPT ![p] = [ref |-> r, shares |-> n]]
    /\ size_' = size_ + 1
    /\ Returns("insert", r, TRUE)
    /\ UNCHANGED <<home, pc, hole, i>>

Find(r) ==
    /\ \E p \in Bucket :
         /\ EndsAt(r, p)
         /\ reply' = [op |-> "find", ref |-> r,
                      found |-> IF Holds(p, r) THEN {slots[p]} ELSE {}]
    /\ UNCHANGED <<home, slots, size_, pc, hole, i>>

\* erase_at up to its first scan step.
\* (Mutation: the size is left as it was.)
EraseAtUncounted(p) ==
    /\ slots' = [slots EXCEPT ![p] = Empty]
    /\ pc' = "shift" /\ hole' = p /\ i' = p
    /\ UNCHANGED size_
EraseAt(p) ==
    /\ size_' = size_ - 1
    /\ slots' = [slots EXCEPT ![p] = Empty]
    /\ pc' = "shift" /\ hole' = p /\ i' = p

\* A cancel that takes all the shares left erases the order.
\* (Mutation: it leaves an order of no shares behind.)
TakesMore(p, n) == slots[p].shares < n
TakesAll(p, n)  == slots[p].shares <= n

ReducePart(r, n) ==
    /\ \E p \in Bucket :
         /\ EndsAt(r, p) /\ Holds(p, r)
         /\ ~TakesAll(p, n)
         /\ slots' = [slots EXCEPT ![p].shares = @ - n]
    /\ Returns("reduce", r, TRUE)
    /\ UNCHANGED <<home, size_, pc, hole, i>>

ReduceAll(r, n) ==
    /\ \E p \in Bucket :
         /\ EndsAt(r, p) /\ Holds(p, r)
         /\ TakesAll(p, n)
         /\ EraseAt(p)
    /\ Returns("reduce", r, TRUE)
    /\ UNCHANGED home

Erase(r) ==
    /\ \E p \in Bucket : EndsAt(r, p) /\ Holds(p, r) /\ EraseAt(p)
    /\ Returns("erase", r, TRUE)
    /\ UNCHANGED home

\* reduce and erase of a reference the probe does not find.
Unknown(op, r) ==
    /\ \E p \in Bucket : EndsAt(r, p) /\ ~Holds(p, r)
    /\ Returns(op, r, FALSE)
    /\ UNCHANGED <<home, slots, size_, pc, hole, i>>

Call ==
    /\ pc = "idle"
    /\ \E r \in Refs :
         \/ InsertRefused(r) \/ InsertDuplicate(r)
         \/ Find(r) \/ Erase(r) \/ Unknown("reduce", r) \/ Unknown("erase", r)
         \/ \E n \in Shares : InsertNew(r, n) \/ ReducePart(r, n) \/ ReduceAll(r, n)

\* One step of the scan: it stops at the first empty slot, skips an entry that
\* a probe still reaches, and moves back one that it reaches through the hole.
ShiftDone ==
    /\ ~Occupied(Succ(i))
    /\ pc' = "idle" /\ hole' = 0 /\ i' = 0     \* the locals are gone
    /\ UNCHANGED slots

\* (Mutations: the probe interval does not wrap around; the home bucket is
\* left out of it.)
ThroughHoleUnwrapped(p) == home[slots[p].ref] <= hole /\ hole < p
ThroughHoleStrictly(p) ==
    hole # home[slots[p].ref] /\ InInterval(hole, home[slots[p].ref], p)
ThroughHole(p) == InInterval(hole, home[slots[p].ref], p)

ShiftSkip ==
    /\ Occupied(Succ(i))
    /\ ~ThroughHole(Succ(i))
    /\ i' = Succ(i)
    /\ UNCHANGED <<pc, slots, hole>>

ShiftMove ==
    /\ Occupied(Succ(i))
    /\ ThroughHole(Succ(i))
    /\ slots' = [slots EXCEPT ![hole] = slots[Succ(i)], ![Succ(i)] = Empty]
    /\ i' = Succ(i) /\ hole' = Succ(i)
    /\ UNCHANGED pc

Shift ==
    /\ pc = "shift"
    /\ ShiftDone \/ ShiftSkip \/ ShiftMove
    /\ UNCHANGED <<home, size_, reply>>

Next == Call \/ Shift

\* The caller's thread runs erase_at to its end.
Spec == Init /\ [][Next]_vars /\ WF_vars(Shift)

-----------------------------------------------------------------------------
Reply ==
    {NoReply}
    \cup [op : {"insert", "reduce", "erase"}, ref : Refs, ok : BOOLEAN]
    \cup [op : {"find"}, ref : Refs, found : SUBSET Order]

\* Every variable has its type: in particular no order of zero shares stays in
\* the table, and size_ stays within the load limit.
TypeOK ==
    /\ home \in [Refs -> Bucket]
    /\ slots \in [Bucket -> Order \cup {Empty}]
    /\ size_ \in 0 .. Capacity \div 2
    /\ pc \in {"idle", "shift"}
    /\ hole \in Bucket /\ i \in Bucket
    /\ reply \in Reply

(***************************************************************************)
(* No deletion, however it shifts the entries behind it, leaves an order   *)
(* where its probe does not end: between calls every stored order is found *)
(* by a probe for its reference.                                           *)
(***************************************************************************)
EveryOrderReachable ==
    pc = "idle" => \A p \in Bucket : Occupied(p) => EndsAt(slots[p].ref, p)

\* A reference is never stored twice, not even while entries are shifted.
UniqueRefs ==
    \A p, q \in Bucket : Occupied(p) /\ slots[p].ref = slots[q].ref => p = q

(***************************************************************************)
(* size_ counts the occupied slots, after every call that inserts, refuses *)
(* or erases and at every step of a shift.                                 *)
(***************************************************************************)
SizeExact == size_ = Cardinality({p \in Bucket : Occupied(p)})

(***************************************************************************)
(* The load limit keeps every probe finite: wherever it starts and         *)
(* whatever reference it looks for, one never stored included, there is an *)
(* empty slot for it to end at, also while a shift is moving the slots.    *)
(* (A table of one slot has none to spare.)                                *)
(***************************************************************************)
ProbesEnd == Capacity > 1 => \E p \in Bucket : ~Occupied(p)

Table ==
    INSTANCE OrderTable WITH
        MaxOrders <- Capacity \div 2,
        table     <- {slots[p] : p \in {q \in Bucket : Occupied(q)}}

\* The table behaves as the set of orders OrderTable describes, answer for
\* answer, and the steps of a shift do not change that set.
TableAsPromised == Table!Spec

(***************************************************************************)
(* The scan of erase_at comes one slot nearer to its end with every step,  *)
(* although it moves orders into slots it has left: it never turns out to  *)
(* be headed for the slot it emptied, which it would fill before it gets   *)
(* there.                                                                  *)
(***************************************************************************)
Ahead(d) == IF i + d < Capacity THEN i + d ELSE i + d - Capacity

\* The d-th slot behind i is the first one that is empty.
ScanEndsIn(d) ==
    /\ ~Occupied(Ahead(d))
    /\ \A e \in 1..d-1 : Occupied(Ahead(e))

EraseCountsDown ==
    [][pc = "shift" =>
         \E d \in 1..Capacity :
             /\ ScanEndsIn(d)
             /\ IF d = 1 THEN pc' = "idle" ELSE pc' = "shift" /\ ScanEndsIn(d - 1)']_vars

\* erase_at, and with it the call that runs it, returns.
EraseReturns == (pc = "shift") ~> (pc = "idle")
=============================================================================
