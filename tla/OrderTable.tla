----------------------------- MODULE OrderTable -----------------------------
(***************************************************************************)
(* What OrderHash (src/src/parser/order_hash.hpp) promises to its caller:  *)
(* a set of orders with distinct references and at most MaxOrders members. *)
(* insert, find, reduce and erase answer for exactly the orders that are   *)
(* in the set, however the implementation lays them out.                   *)
(***************************************************************************)
EXTENDS Naturals, FiniteSets

CONSTANTS
    Refs,        \* order references
    MaxShares,   \* bound on the shares of an order and of a cancel
    MaxOrders    \* half the capacity of the table

VARIABLES
    table,       \* the orders stored
    reply        \* the last call and what it returned

vars == <<table, reply>>

Shares == 1..MaxShares
Order  == [ref : Refs, shares : Shares]

NoReply == [op |-> "none"]

-----------------------------------------------------------------------------
Stored(r) == {o \in table : o.ref = r}

Init == table = {} /\ reply = NoReply

Returns(op, r, ok) == reply' = [op |-> op, ref |-> r, ok |-> ok]

\* Refused when the table is full and when the reference is already there.
Insert(r, n) ==
    IF Cardinality(table) + 1 > MaxOrders \/ Stored(r) # {}
    THEN Returns("insert", r, FALSE) /\ UNCHANGED table
    ELSE /\ Returns("insert", r, TRUE)
         /\ table' = table \cup {[ref |-> r, shares |-> n]}

Find(r) ==
    /\ reply' = [op |-> "find", ref |-> r, found |-> Stored(r)]
    /\ UNCHANGED table

\* An order is erased when the cancel takes all its shares.
Reduced(o, n) ==
    IF o.shares <= n THEN {} ELSE {[ref |-> o.ref, shares |-> o.shares - n]}

Reduce(r, n) ==
    /\ Returns("reduce", r, Stored(r) # {})
    /\ table' = (table \ Stored(r)) \cup UNION {Reduced(o, n) : o \in Stored(r)}

Erase(r) ==
    /\ Returns("erase", r, Stored(r) # {})
    /\ table' = table \ Stored(r)

Next ==
    \E r \in Refs :
        \/ Find(r) \/ Erase(r)
        \/ \E n \in Shares : Insert(r, n) \/ Reduce(r, n)

Spec == Init /\ [][Next]_vars
=============================================================================
