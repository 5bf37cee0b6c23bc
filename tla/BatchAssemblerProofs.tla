------------------------ MODULE BatchAssemblerProofs ------------------------
(***************************************************************************)
(* For every set of references, every batch size, every bound and every    *)
(* legal feed, executions included: the table never outgrows its limit,    *)
(* what it holds is right, and what it does not hold is accounted for, so  *)
(* that the side tags and both counters are off by the lost orders only.   *)
(* But for those and the executed ones, the table holds exactly the live   *)
(* orders of the feed.                                                     *)
(***************************************************************************)
EXTENDS BatchAssembler, FiniteSetTheorems, TLAPS

RefsUnique(tab) == \A o, p \in tab : o.ref = p.ref => o = p

\* What OrderTable promises of its set of orders.
TableOK(tab) ==
    /\ tab \subseteq Order
    /\ IsFiniteSet(tab)
    /\ RefsUnique(tab)
    /\ Cardinality(tab) <= MaxOrders

TypeInv == TypeOK /\ TableOK(orders)

USE NumbersAssumption

-----------------------------------------------------------------------------
(***************************************************************************)
(* The calls of the table.                                                 *)
(***************************************************************************)

\* erase leaves a table, and a smaller one if it erased something.
LEMMA WithoutTable ==
    ASSUME NEW tab, TableOK(tab), NEW r
    PROVE  /\ TableOK(Without(tab, r))
           /\ Cardinality(Without(tab, r)) <= Cardinality(tab)
           /\ Stored(tab, r) # {} => Cardinality(Without(tab, r)) + 1 <= Cardinality(tab)
<1>1. IsFiniteSet(tab) /\ Cardinality(tab) \in Nat
  BY FS_CardinalityType DEF TableOK
<1>2. /\ IsFiniteSet(Without(tab, r))
      /\ Cardinality(Without(tab, r)) <= Cardinality(tab)
      /\ Cardinality(Without(tab, r)) \in Nat
  <2>1. Without(tab, r) \subseteq tab
    BY DEF Without
  <2> QED
    BY <1>1, <2>1, FS_Subset, FS_CardinalityType
<1>3. ASSUME NEW o \in Stored(tab, r)
      PROVE  Cardinality(Without(tab, r)) + 1 <= Cardinality(tab)
  <2>1. o \in tab /\ o.ref = r
    BY DEF Stored
  <2>2. IsFiniteSet(tab \ {o}) /\ Cardinality(tab \ {o}) = Cardinality(tab) - 1
    BY <1>1, <2>1, FS_RemoveElement
  <2>3. Without(tab, r) \subseteq tab \ {o}
    BY <2>1 DEF Without
  <2>4. Cardinality(Without(tab, r)) <= Cardinality(tab \ {o})
    BY <2>2, <2>3, FS_Subset
  <2> QED
    BY <1>1, <1>2, <2>2, <2>4
<1>4. Without(tab, r) \subseteq Order /\ RefsUnique(Without(tab, r))
  BY DEF TableOK, RefsUnique, Without
<1> QED
  BY <1>1, <1>2, <1>3, <1>4 DEF TableOK

\* An order of a new reference put into a table that has room for it.
LEMMA AddedTable ==
    ASSUME NEW tab, TableOK(tab), NEW o \in Order, Stored(tab, o.ref) = {},
           Cardinality(tab) + 1 <= MaxOrders
    PROVE  /\ TableOK(tab \cup {o})
           /\ Cardinality(tab \cup {o}) = Cardinality(tab) + 1
<1>1. o \notin tab
  BY DEF Stored
<1>2. IsFiniteSet(tab \cup {o}) /\ Cardinality(tab \cup {o}) = Cardinality(tab) + 1
  BY <1>1, FS_AddElement DEF TableOK
<1>3. RefsUnique(tab \cup {o})
  BY DEF TableOK, RefsUnique, Stored
<1> QED
  BY <1>2, <1>3 DEF TableOK

\* insert, refused or not.
LEMMA InsertTable ==
    ASSUME NEW tab, TableOK(tab), NEW o \in Order
    PROVE  TableOK(Insert(tab, o))
<1>1. Cardinality(tab) \in Nat
  BY FS_CardinalityType DEF TableOK
<1>2. CASE Cardinality(tab) + 1 > MaxOrders \/ Stored(tab, o.ref) # {}
  BY <1>2 DEF Insert
<1>3. CASE ~(Cardinality(tab) + 1 > MaxOrders \/ Stored(tab, o.ref) # {})
  BY <1>1, <1>3, AddedTable DEF Insert
<1> QED
  BY <1>2, <1>3

\* An order has shares left that are fewer, and the rest as it was.
LEMMA ReducedOrder ==
    ASSUME NEW o \in Order, NEW k \in Shares, NEW p \in Reduced(o, k)
    PROVE  /\ Reduced(o, k) = {p}
           /\ p \in Order /\ p.ref = o.ref /\ p.side = o.side
<1>1. o.shares > k /\ p = [o EXCEPT !.shares = @ - k]
  BY DEF Reduced, Shares, Order
<1>2. o.shares \in Nat /\ k \in Nat /\ k >= 1 /\ o.shares <= MaxShares
  BY DEF Order, Shares
<1>3. o.shares - k \in Shares
  BY <1>1, <1>2 DEF Shares
<1>4. p = [ref |-> o.ref, side |-> o.side, shares |-> o.shares - k]
  BY <1>1 DEF Order
<1>5. p \in Order /\ p.ref = o.ref /\ p.side = o.side
  BY <1>3, <1>4 DEF Order
<1> QED
  BY <1>1, <1>2, <1>5 DEF Reduced

\* reduce leaves a table no larger than it was.
LEMMA ReduceTable ==
    ASSUME NEW tab, TableOK(tab), NEW r, NEW k \in Shares
    PROVE  /\ TableOK(Reduce(tab, r, k))
           /\ Cardinality(Reduce(tab, r, k)) <= Cardinality(tab)
<1>1. CASE Stored(tab, r) = {}
  <2>1. Reduce(tab, r, k) = Without(tab, r)
    BY <1>1 DEF Reduce
  <2> QED
    BY <2>1, WithoutTable
<1>2. ASSUME NEW o \in Stored(tab, r)
      PROVE  /\ TableOK(Reduce(tab, r, k))
             /\ Cardinality(Reduce(tab, r, k)) <= Cardinality(tab)
  <2>1. Stored(tab, r) = {o} /\ o \in Order /\ o.ref = r
    BY DEF TableOK, RefsUnique, Stored
  <2>2. Reduce(tab, r, k) = Without(tab, r) \cup Reduced(o, k)
    BY <2>1 DEF Reduce
  <2>3. CASE Reduced(o, k) = {}
    <3>1. Reduce(tab, r, k) = Without(tab, r)
      BY <2>2, <2>3
    <3> QED
      BY <3>1, WithoutTable
  <2>4. ASSUME NEW p \in Reduced(o, k)
        PROVE  /\ TableOK(Reduce(tab, r, k))
               /\ Cardinality(Reduce(tab, r, k)) <= Cardinality(tab)
    <3>1. Reduce(tab, r, k) = Without(tab, r) \cup {p} /\ p \in Order /\ p.ref = r
      BY <2>1, <2>2, ReducedOrder
    <3>2. Stored(Without(tab, r), p.ref) = {}
      BY <3>1 DEF Stored, Without
    <3>3. /\ TableOK(Without(tab, r))
          /\ Cardinality(Without(tab, r)) + 1 <= Cardinality(tab)
      BY <2>1, WithoutTable
    <3>4. Cardinality(tab) <= MaxOrders
      BY DEF TableOK
    <3>5. Cardinality(Without(tab, r)) \in Nat /\ Cardinality(tab) \in Nat
      BY <3>3, FS_CardinalityType DEF TableOK
    <3> QED
      BY <3>1, <3>2, <3>3, <3>4, <3>5, AddedTable
  <2> QED
    BY <2>3, <2>4
<1> QED
  BY <1>1, <1>2

-----------------------------------------------------------------------------
(***************************************************************************)
(* Messages and what they do at the exchange.                              *)
(***************************************************************************)

\* The fields of a message, by its type.
LEMMA MessageFields ==
    ASSUME NEW m \in Message
    PROVE  /\ m.type \in Types
           /\ m.type = "A" => m.ref \in Refs /\ m.side \in Side /\ m.shares \in Shares
           /\ m.type \in {"X", "E"} => m.ref \in AnyRef /\ m.shares \in Shares
           /\ m.type = "D" => m.ref \in AnyRef
           /\ m.type = "U" => m.ref \in AnyRef /\ m.new \in Refs /\ m.shares \in Shares
<1>1. CASE m \in [type : {"A"}, ref : Refs, side : Side, shares : Shares]
  BY <1>1 DEF Message
<1>2. CASE m \in [type : {"X", "E"}, ref : AnyRef, shares : Shares]
  BY <1>2 DEF Message
<1>3. CASE m \in [type : {"D"}, ref : AnyRef]
  BY <1>3 DEF Message
<1>4. CASE m \in [type : {"U"}, ref : AnyRef, new : Refs, shares : Shares]
  BY <1>4 DEF Message
<1>5. CASE m \in [type : {"P"}, long : BOOLEAN]
  BY <1>5 DEF Message
<1>6. CASE m \in [type : {"S"}, event : {"O", "C"}]
  BY <1>6 DEF Message
<1>7. CASE m \in [type : {"R", "I"}]
  BY <1>7 DEF Message
<1> QED
  BY <1>1, <1>2, <1>3, <1>4, <1>5, <1>6, <1>7 DEF Message

\* An order made of a reference, a side and shares.
LEMMA NewOrder ==
    ASSUME NEW r \in AnyRef, NEW side \in Side \cup {NoSide}, NEW k \in Shares
    PROVE  [ref |-> r, side |-> side, shares |-> k] \in Order
BY DEF Order

\* The book keeps to its type.
LEMMA BookType ==
    ASSUME book \subseteq Order, NEW m \in Message
    PROVE  BookAfter(m) \subseteq Order
<1>1. CASE m.type = "A"
  <2>1. [ref |-> m.ref, side |-> m.side, shares |-> m.shares] \in Order
    BY <1>1, MessageFields, NewOrder DEF AnyRef
  <2> QED
    BY <1>1, <2>1 DEF BookAfter
<1>2. CASE m.type \in {"X", "E"}
  <2>1. m.shares \in Shares
    BY <1>2, MessageFields
  <2>2. ASSUME NEW o \in Live(m.ref) PROVE Reduced(o, m.shares) \subseteq Order
    BY <2>1, ReducedOrder DEF Live, Stored
  <2>3. BookAfter(m) = Without(book, m.ref) \cup UNION {Reduced(o, m.shares) : o \in Live(m.ref)}
    BY <1>2 DEF BookAfter
  <2> QED
    BY <2>2, <2>3 DEF Without
<1>3. CASE m.type = "D"
  BY <1>3 DEF BookAfter, Without
<1>4. CASE m.type = "U"
  <2>1. ASSUME NEW o \in Live(m.ref)
        PROVE  [ref |-> m.new, side |-> o.side, shares |-> m.shares] \in Order
    <3>1. o.side \in Side \cup {NoSide}
      BY DEF Live, Stored, Order
    <3> QED
      BY <1>4, <3>1, MessageFields, NewOrder DEF AnyRef
  <2> QED
    BY <1>4, <2>1 DEF BookAfter, Without
<1> QED
  BY <1>1, <1>2, <1>3, <1>4 DEF BookAfter

\* The part of the type invariant that is about the feed.
FeedType ==
    /\ parsed \in 0..MaxParsed /\ ended \in BOOLEAN
    /\ book \subseteq Order
    /\ added \subseteq AnyRef \X (Side \cup {NoSide})
    /\ strays \in [replace : 0..parsed, cancel : 0..parsed]
    /\ lost \subseteq Refs /\ executed \subseteq AnyRef
    /\ losses \in [replace : 0..parsed, cancel : 0..parsed]
    /\ shippable \subseteq 1..parsed /\ opens \subseteq 1..parsed
    /\ listings \subseteq 1..parsed

\* A count, of one message more or not.
LEMMA CountType ==
    ASSUME NEW p \in Nat, NEW count \in [replace : 0..p, cancel : 0..p], NEW m
    PROVE  /\ Counting(count, m) \in [replace : 0..p+1, cancel : 0..p+1]
           /\ count \in [replace : 0..p+1, cancel : 0..p+1]
<1>1. count.replace \in 0..p /\ count.cancel \in 0..p
  OBVIOUS
<1>2. count = [replace |-> count.replace, cancel |-> count.cancel]
  OBVIOUS
<1>3. PICK a \in {0, 1}, b \in {0, 1} :
        Counting(count, m) = [replace |-> count.replace + a, cancel |-> count.cancel + b]
  BY DEF Counting
<1>4. /\ count.replace \in 0..p+1 /\ count.replace + a \in 0..p+1
      /\ count.cancel \in 0..p+1 /\ count.cancel + b \in 0..p+1
  BY <1>1
<1>5. count \in [replace : 0..p+1, cancel : 0..p+1]
  BY <1>2, <1>4
<1> QED
  BY <1>3, <1>4, <1>5

\* A message of the feed counts, and leaves the feed its type.
LEMMA ParseType ==
    ASSUME FeedType, NEW m \in Message, Parse(m)
    PROVE  FeedType' /\ parsed' = parsed + 1 /\ parsed \in Nat /\ parsed' \in 1..MaxParsed
<1>1. parsed' = parsed + 1 /\ parsed \in Nat /\ parsed' \in 1..MaxParsed
  BY DEF Parse, FeedAfter, FeedType
<1>2. book' \subseteq Order /\ book' = BookAfter(m)
  BY BookType DEF Parse, FeedAfter, FeedType
<1>3. added' \subseteq AnyRef \X (Side \cup {NoSide})
  <2>1. ASSUME NEW o \in Order PROVE <<o.ref, o.side>> \in AnyRef \X (Side \cup {NoSide})
    BY DEF Order
  <2>2. added' = added \cup {<<o.ref, o.side>> : o \in BookAfter(m)}
    BY DEF Parse, FeedAfter
  <2> QED
    BY <1>2, <2>1, <2>2 DEF FeedType
<1>4. /\ strays' \in [replace : 0..parsed', cancel : 0..parsed']
      /\ losses' \in [replace : 0..parsed', cancel : 0..parsed']
  <2>1. /\ strays \in [replace : 0..parsed, cancel : 0..parsed]
        /\ losses \in [replace : 0..parsed, cancel : 0..parsed]
    BY DEF FeedType
  <2>2. /\ strays' = IF Stray(m) THEN Counting(strays, m) ELSE strays
        /\ losses' = IF OfLost(m) THEN Counting(losses, m) ELSE losses
    BY DEF Parse, FeedAfter
  <2> QED
    BY <1>1, <2>1, <2>2, CountType
<1>5. shippable' \subseteq 1..parsed' /\ opens' \subseteq 1..parsed' /\ listings' \subseteq 1..parsed'
  <2>1. 1..parsed \subseteq 1..parsed' /\ parsed + 1 \in 1..parsed'
    BY <1>1
  <2>2. /\ shippable' \subseteq shippable \cup {parsed + 1}
        /\ opens' \subseteq opens \cup {parsed + 1}
        /\ listings' \subseteq listings \cup {parsed + 1}
    BY DEF Parse, FeedAfter
  <2> QED
    BY <2>1, <2>2 DEF FeedType
<1>6. parsed' \in 0..MaxParsed /\ ended' \in BOOLEAN
  BY <1>1 DEF Parse, FeedAfter, FeedType
<1>7. lost' \subseteq Refs /\ executed' \subseteq AnyRef
  <2>1. LostBy(m) \subseteq Refs
    BY MessageFields DEF LostBy
  <2>2. m.type = "E" => m.ref \in AnyRef
    BY MessageFields
  <2> QED
    BY <2>1, <2>2 DEF Parse, FeedAfter, FeedType
<1> QED
  BY <1>1, <1>2, <1>3, <1>4, <1>5, <1>6, <1>7 DEF FeedType

-----------------------------------------------------------------------------
(***************************************************************************)
(* The type invariant.                                                     *)
(***************************************************************************)

\* The part of the type invariant that is about fill.
FillType ==
    /\ filling \in BOOLEAN
    /\ slots \in Seq(SlotType) /\ Len(slots) <= BATCH_MSGS
    /\ reset_vwap \in BOOLEAN /\ pending_reset_ \in BOOLEAN
    /\ unresolved_replaces_ \in 0..parsed /\ unknown_cancels_ \in 0..parsed
    /\ symbols \in 0..parsed

\* The parts make up the whole.
LEMMA TypeParts == TypeInv <=> FeedType /\ FillType /\ TableOK(orders)
BY DEF TypeInv, TypeOK, FeedType, FillType, TableOK

\* The slot a message is copied to.
LEMMA ShipType ==
    ASSUME FeedType, FillType, Room, NEW m \in Message, Parse(m),
           NEW tag \in Side \cup {NoSide}, Ship(m, tag)
    PROVE  /\ slots' \in Seq(SlotType) /\ Len(slots') <= BATCH_MSGS
           /\ filling' \in BOOLEAN /\ reset_vwap' \in BOOLEAN /\ pending_reset_' \in BOOLEAN
           /\ symbols' \in 0..parsed'
<1>1. parsed' = parsed + 1 /\ parsed \in Nat /\ parsed' \in 1..MaxParsed
  BY ParseType
<1>2. [at |-> parsed', msg |-> m, tag |-> tag] \in SlotType
  BY <1>1 DEF SlotType
<1>3. slots' = Append(slots, [at |-> parsed', msg |-> m, tag |-> tag])
  BY DEF Ship
<1>4. slots' \in Seq(SlotType) /\ Len(slots') = Len(slots) + 1
  BY <1>2, <1>3 DEF FillType
<1>5. Len(slots) < BATCH_MSGS /\ Len(slots) \in Nat
  BY DEF Room, FillType
<1>6. symbols \in 0..parsed'
  BY <1>1 DEF FillType
<1> QED
  BY <1>4, <1>5, <1>6 DEF Ship, FillType

\* The handlers that leave the table alone.
LEMMA OtherHandlersType ==
    ASSUME FeedType, FillType, TableOK(orders), Room, NEW m \in Message, Parse(m),
           StockDirectory(m) \/ SystemEvent(m) \/ Skip(m) \/ Trade(m)
    PROVE  FillType' /\ TableOK(orders)'
<1>1. parsed' = parsed + 1 /\ parsed \in Nat
  BY ParseType
<1>2. /\ unresolved_replaces_ \in 0..parsed' /\ unknown_cancels_ \in 0..parsed'
      /\ symbols \in 0..parsed'
  BY <1>1 DEF FillType
<1>3. CASE StockDirectory(m)
  <2>1. symbols' \in 0..parsed'
    BY <1>1, <1>3 DEF StockDirectory, Update
  <2> QED
    BY <1>2, <1>3, <2>1 DEF StockDirectory, FillType
<1>4. CASE SystemEvent(m)
  <2>1. reset_vwap' \in BOOLEAN /\ pending_reset_' \in BOOLEAN /\ filling' \in BOOLEAN
    BY <1>4 DEF SystemEvent, FlagsOrCuts, FillType
  <2> QED
    BY <1>2, <1>4, <2>1 DEF SystemEvent, FillType
<1>5. CASE Skip(m)
  BY <1>2, <1>5 DEF Skip, fillVars, FillType
<1>6. CASE Trade(m)
  <2>1. Ship(m, NoSide)
    BY <1>6 DEF Trade
  <2> QED
    BY <1>2, <1>6, <2>1, ShipType DEF Trade, FillType
<1> QED
  BY <1>3, <1>4, <1>5, <1>6

\* The handlers that change the table.
LEMMA OrderHandlersType ==
    ASSUME FeedType, FillType, TableOK(orders), Room, NEW m \in Message, Parse(m),
           \/ AddOrder(m) \/ OrderCancel(m) \/ OrderDelete(m)
           \/ OrderReplace(m) \/ OrderReplaceUnresolved(m)
    PROVE  FillType' /\ TableOK(orders)'
<1>1. parsed' = parsed + 1 /\ parsed \in Nat
  BY ParseType
<1>2. /\ unresolved_replaces_ \in 0..parsed' /\ unresolved_replaces_ + 1 \in 0..parsed'
      /\ unknown_cancels_ \in 0..parsed' /\ unknown_cancels_ + 1 \in 0..parsed'
  BY <1>1 DEF FillType
<1>3. \A r : Miss(orders, r) \in {0, 1}
  BY DEF Miss
<1>4. \A r : unknown_cancels_ + Miss(orders, r) \in 0..parsed'
  BY <1>1, <1>3 DEF FillType
<1>5. CASE AddOrder(m)
  <2>1. Ship(m, NoSide)
    BY <1>5 DEF AddOrder
  <2>2. [ref |-> m.ref, side |-> m.side, shares |-> m.shares] \in Order
    BY <1>5, MessageFields, NewOrder DEF AddOrder, AnyRef
  <2>3. TableOK(orders')
    BY <1>5, <2>2, InsertTable DEF AddOrder
  <2> QED
    BY <1>2, <1>5, <2>1, <2>3, ShipType DEF AddOrder, FillType
<1>6. CASE OrderCancel(m)
  <2>1. Ship(m, NoSide)
    BY <1>6 DEF OrderCancel
  <2>2. m.shares \in Shares
    BY <1>6, MessageFields DEF OrderCancel
  <2>3. TableOK(orders')
    BY <1>6, <2>2, ReduceTable DEF OrderCancel
  <2> QED
    BY <1>2, <1>4, <1>6, <2>1, <2>3, ShipType DEF OrderCancel, FillType
<1>7. CASE OrderDelete(m)
  <2>1. Ship(m, NoSide)
    BY <1>7 DEF OrderDelete
  <2>2. TableOK(orders')
    BY <1>7, WithoutTable DEF OrderDelete
  <2> QED
    BY <1>2, <1>4, <1>7, <2>1, <2>2, ShipType DEF OrderDelete, FillType
<1>8. CASE OrderReplace(m)
  <2>1. PICK o \in Stored(orders, m.ref) : orders' = Replaced(o, m) /\ Ship(m, o.side)
    BY <1>8 DEF OrderReplace
  <2>2. o.side \in Side \cup {NoSide}
    BY DEF Stored, TableOK, Order
  <2>3. [ref |-> m.new, side |-> o.side, shares |-> m.shares] \in Order
    BY <1>8, <2>2, MessageFields, NewOrder DEF OrderReplace, AnyRef
  <2>4. TableOK(orders')
    BY <2>1, <2>3, InsertTable, WithoutTable DEF Replaced
  <2> QED
    BY <1>2, <1>8, <2>1, <2>2, <2>4, ShipType DEF OrderReplace, FillType
<1>9. CASE OrderReplaceUnresolved(m)
  <2>1. Ship(m, NoSide)
    BY <1>9 DEF OrderReplaceUnresolved
  <2> QED
    BY <1>2, <1>9, <2>1, ShipType DEF OrderReplaceUnresolved, FillType
<1> QED
  BY <1>5, <1>6, <1>7, <1>8, <1>9

\* Every step keeps the types.
LEMMA NextType == TypeInv /\ [Next]_assemblerVars => TypeInv'
<1> SUFFICES ASSUME TypeInv, [Next]_assemblerVars PROVE TypeInv'
  OBVIOUS
<1>0. FeedType /\ FillType /\ TableOK(orders)
  BY TypeParts
<1> SUFFICES FeedType' /\ FillType' /\ TableOK(orders)'
  BY DEF TypeInv, TypeOK, FeedType, FillType, TableOK
<1>1. CASE Call
  <2>1. UNCHANGED feedVars /\ UNCHANGED orders
    BY <1>1 DEF Call
  <2>2. FeedType' /\ TableOK(orders)'
    BY <1>0, <2>1 DEF feedVars, FeedType
  <2>3. slots' \in Seq(SlotType) /\ Len(slots') <= BATCH_MSGS
    BY <1>1 DEF Call
  <2>4. FillType'
    BY <1>0, <1>1, <2>1, <2>3 DEF Call, feedVars, FillType
  <2> QED
    BY <2>2, <2>4
<1>2. CASE Return
  BY <1>0, <1>2 DEF Return, feedVars, FeedType, FillType
<1>3. CASE StreamEnds
  BY <1>0, <1>3 DEF StreamEnds, FeedType, FillType
<1>4. CASE Iterate
  <2>1. Room
    BY <1>4 DEF Iterate
  <2>2. PICK m \in Message :
          /\ Parse(m)
          /\ \/ StockDirectory(m) \/ SystemEvent(m) \/ Skip(m)
             \/ AddOrder(m) \/ OrderCancel(m) \/ OrderDelete(m)
             \/ OrderReplace(m) \/ OrderReplaceUnresolved(m) \/ Trade(m)
    BY <1>4 DEF Iterate
  <2>3. FeedType'
    BY <1>0, <2>2, ParseType
  <2>4. FillType' /\ TableOK(orders)'
    BY <1>0, <2>1, <2>2, OtherHandlersType, OrderHandlersType
  <2> QED
    BY <2>3, <2>4
<1>5. CASE UNCHANGED assemblerVars
  BY <1>0, <1>5 DEF assemblerVars, fillVars, feedVars, FeedType, FillType
<1> QED
  BY <1>1, <1>2, <1>3, <1>4, <1>5 DEF Next, InFill

\* The initial table is empty and the initial book holds the old orders.
LEMMA InitType == AssemblerInit => TypeInv
<1> SUFFICES ASSUME AssemblerInit PROVE FeedType /\ FillType /\ TableOK(orders)
  BY TypeParts
<1>1. MaxShares \in Shares
  BY DEF Shares
<1>2. book \subseteq Order
  BY <1>1 DEF AssemblerInit, FeedInit, OldOrders, Order, AnyRef
<1>3. added \subseteq AnyRef \X (Side \cup {NoSide})
  BY DEF AssemblerInit, FeedInit, AnyRef
<1>4. parsed = 0
  BY DEF AssemblerInit, FeedInit
<1>5. FeedType
  <2>0. ended \in BOOLEAN
    BY Zenon DEF AssemblerInit, FeedInit
  <2>1. shippable = {} /\ opens = {} /\ listings = {}
    BY Zenon DEF AssemblerInit, FeedInit
  <2>2. /\ strays = [replace |-> 0, cancel |-> 0]
        /\ lost = {} /\ executed = {} /\ losses = [replace |-> 0, cancel |-> 0]
    BY Zenon DEF AssemblerInit, FeedInit
  <2>3. /\ strays \in [replace : 0..parsed, cancel : 0..parsed]
        /\ losses \in [replace : 0..parsed, cancel : 0..parsed]
    BY <1>4, <2>2
  <2> QED
    BY <1>2, <1>3, <1>4, <2>0, <2>1, <2>2, <2>3 DEF FeedType
<1>6. FillType
  <2>0. filling \in BOOLEAN /\ reset_vwap \in BOOLEAN /\ pending_reset_ \in BOOLEAN
    BY Zenon DEF AssemblerInit
  <2>1. unresolved_replaces_ = 0 /\ unknown_cancels_ = 0 /\ symbols = 0
    BY Zenon DEF AssemblerInit
  <2>2. slots \in Seq(SlotType) /\ Len(slots) <= BATCH_MSGS
    BY DEF AssemblerInit
  <2> QED
    BY <1>4, <2>0, <2>1, <2>2 DEF FillType
<1>7. TableOK(orders)
  <2>1. orders = {}
    BY DEF AssemblerInit
  <2>2. IsFiniteSet(orders) /\ Cardinality(orders) = 0
    BY <2>1, FS_EmptySet
  <2> QED
    BY <2>1, <2>2 DEF TableOK, RefsUnique
<1> QED
  BY <1>5, <1>6, <1>7

\* Every variable of the assembler keeps its type, a batch fits its buffer and
\* the table its limit, whatever the feed and however full the table.
THEOREM TypeCorrect == Spec => []TypeOK
<1>1. AssemblerInit => TypeInv
  BY InitType
<1>2. TypeInv /\ [Next]_assemblerVars => TypeInv'
  BY NextType
<1>3. TypeInv => TypeOK
  BY DEF TypeInv
<1> QED
  BY <1>1, <1>2, <1>3, PTL DEF Spec

-----------------------------------------------------------------------------
(***************************************************************************)
(* The book.                                                               *)
(***************************************************************************)

\* A reference is live once, and every live order is one there has been.
BookInv ==
    /\ RefsUnique(book)
    /\ \A o \in book : <<o.ref, o.side>> \in added

\* An unused reference is not live.
LEMMA UnusedNotLive ==
    ASSUME BookInv, NEW r, r \notin Used
    PROVE  \A o \in book : o.ref # r
<1> SUFFICES ASSUME NEW o \in book PROVE o.ref \in Used
  OBVIOUS
<1>1. <<o.ref, o.side>> \in added /\ <<o.ref, o.side>>[1] = o.ref
  BY DEF BookInv
<1> QED
  BY <1>1 DEF Used

\* A message of the feed leaves no reference live twice.
LEMMA BookStep ==
    ASSUME FeedType, BookInv, NEW m \in Message, Parse(m)
    PROVE  BookInv'
<1>1. /\ book' = BookAfter(m)
      /\ added' = added \cup {<<o.ref, o.side>> : o \in BookAfter(m)}
      /\ Legal(m)
  BY DEF Parse, FeedAfter
<1>2. \A o \in book' : <<o.ref, o.side>> \in added'
  BY <1>1
<1>3. RefsUnique(book')
  <2>1. CASE m.type = "A"
    <3>1. book' = book \cup {[ref |-> m.ref, side |-> m.side, shares |-> m.shares]}
      BY <1>1, <2>1 DEF BookAfter
    <3>2. \A o \in book : o.ref # m.ref
      BY <1>1, <2>1, UnusedNotLive DEF Legal
    <3> QED
      BY <3>1, <3>2 DEF BookInv, RefsUnique
  <2>2. CASE m.type \in {"X", "E"}
    <3>1. book' = Without(book, m.ref) \cup UNION {Reduced(o, m.shares) : o \in Live(m.ref)}
      BY <1>1, <2>2 DEF BookAfter
    <3>2. \A o \in Live(m.ref) : \A p \in Reduced(o, m.shares) :
            Reduced(o, m.shares) = {p} /\ p.ref = m.ref
      <4> SUFFICES ASSUME NEW o \in Live(m.ref), NEW p \in Reduced(o, m.shares)
                   PROVE  Reduced(o, m.shares) = {p} /\ p.ref = m.ref
        OBVIOUS
      <4>1. o \in Order /\ o.ref = m.ref /\ m.shares \in Shares
        BY <2>2, MessageFields DEF Live, Stored, FeedType
      <4> QED
        BY <4>1, ReducedOrder
    <3>3. \A o, p \in Live(m.ref) : o = p
      BY DEF Live, Stored, BookInv, RefsUnique
    <3>4. \A o \in Without(book, m.ref) : o.ref # m.ref /\ o \in book
      BY DEF Without
    <3> QED
      BY <3>1, <3>2, <3>3, <3>4 DEF BookInv, RefsUnique
  <2>3. CASE m.type = "D"
    BY <1>1, <2>3 DEF BookAfter, Without, BookInv, RefsUnique
  <2>4. CASE m.type = "U"
    <3>1. book' = Without(book, m.ref)
                  \cup {[ref |-> m.new, side |-> o.side, shares |-> m.shares] : o \in Live(m.ref)}
      BY <1>1, <2>4 DEF BookAfter
    <3>2. \A o \in Without(book, m.ref) : o.ref # m.new /\ o \in book
      BY <1>1, <2>4, UnusedNotLive DEF Legal, Without
    <3>3. \A o, p \in Live(m.ref) : o = p
      BY DEF Live, Stored, BookInv, RefsUnique
    <3> QED
      BY <3>1, <3>2, <3>3 DEF BookInv, RefsUnique
  <2>5. CASE m.type \notin {"A", "X", "E", "D", "U"}
    BY <1>1, <2>5 DEF BookAfter, BookInv
  <2> QED
    BY <2>1, <2>2, <2>3, <2>4, <2>5
<1> QED
  BY <1>2, <1>3 DEF BookInv

\* What the orders the feed shows become, in terms of the calls of the table.
LEMMA ShownAfter ==
    ASSUME FeedType, BookInv, NEW m \in Message, Parse(m), m.type # "E"
    PROVE  /\ m.type = "A" =>
                /\ Shown' = Shown \cup {[ref |-> m.ref, side |-> m.side, shares |-> m.shares]}
                /\ Stored(Shown, m.ref) = {}
           /\ m.type = "X" => Shown' = Reduce(Shown, m.ref, m.shares)
           /\ m.type = "D" => Shown' = Without(Shown, m.ref)
           /\ m.type = "U" =>
                /\ \A o \in Stored(Shown, m.ref) :
                     Shown' = Without(Shown, m.ref)
                              \cup {[ref |-> m.new, side |-> o.side, shares |-> m.shares]}
                /\ Stored(Shown, m.ref) = {} => Shown' = Shown
                /\ Stored(Shown, m.new) = {} /\ m.ref # m.new
           /\ m.type \notin {"A", "X", "D", "U"} => Shown' = Shown
<1>1. book' = BookAfter(m) /\ Legal(m)
  BY DEF Parse, FeedAfter
<1>2. Shown' = {o \in BookAfter(m) : o.side # NoSide}
  BY <1>1 DEF Shown
<1>3. \A o, p \in Live(m.ref) : o = p
  BY DEF Live, Stored, BookInv, RefsUnique
<1>4. CASE m.type = "A"
  <2>1. m.side # NoSide
    BY <1>4, MessageFields DEF Side, NoSide
  <2>2. BookAfter(m) = book \cup {[ref |-> m.ref, side |-> m.side, shares |-> m.shares]}
    BY <1>4 DEF BookAfter
  <2>3. \A o \in book : o.ref # m.ref
    BY <1>1, <1>4, UnusedNotLive DEF Legal
  <2> QED
    BY <1>2, <1>4, <2>1, <2>2, <2>3 DEF Shown, Stored
<1>5. CASE m.type = "X"
  <2>1. BookAfter(m) = Without(book, m.ref) \cup UNION {Reduced(o, m.shares) : o \in Live(m.ref)}
    BY <1>5 DEF BookAfter
  <2>2. \A o \in Live(m.ref) : \A p \in Reduced(o, m.shares) : p.side = o.side
    <3> SUFFICES ASSUME NEW o \in Live(m.ref), NEW p \in Reduced(o, m.shares)
                 PROVE  p.side = o.side
      OBVIOUS
    <3>1. o \in Order /\ m.shares \in Shares
      BY <1>5, MessageFields DEF Live, Stored, FeedType
    <3> QED
      BY <3>1, ReducedOrder
  <2>3. Stored(Shown, m.ref) = {o \in Live(m.ref) : o.side # NoSide}
    BY DEF Stored, Live, Shown
  <2>4. Shown' = Without(Shown, m.ref) \cup UNION {Reduced(o, m.shares) : o \in Stored(Shown, m.ref)}
    <3>1. {o \in Without(book, m.ref) : o.side # NoSide} = Without(Shown, m.ref)
      BY DEF Without, Shown
    <3>2. {p \in UNION {Reduced(o, m.shares) : o \in Live(m.ref)} : p.side # NoSide}
            = UNION {Reduced(o, m.shares) : o \in Stored(Shown, m.ref)}
      <4>1. CASE Live(m.ref) = {}
        BY <2>3, <4>1
      <4>2. ASSUME NEW o \in Live(m.ref)
            PROVE  {p \in UNION {Reduced(q, m.shares) : q \in Live(m.ref)} : p.side # NoSide}
                     = UNION {Reduced(q, m.shares) : q \in Stored(Shown, m.ref)}
        <5>1. Live(m.ref) = {o}
          BY <1>3, <4>2
        <5>2. UNION {Reduced(q, m.shares) : q \in Live(m.ref)} = Reduced(o, m.shares)
          BY <5>1
        <5>3. CASE o.side = NoSide
          <6>1. Stored(Shown, m.ref) = {}
            BY <2>3, <5>1, <5>3
          <6>2. UNION {Reduced(q, m.shares) : q \in Stored(Shown, m.ref)} = {}
            BY <6>1
          <6> QED
            BY <2>2, <4>2, <5>2, <5>3, <6>2
        <5>4. CASE o.side # NoSide
          <6>1. Stored(Shown, m.ref) = {o}
            BY <2>3, <5>1, <5>4
          <6>2. UNION {Reduced(q, m.shares) : q \in Stored(Shown, m.ref)} = Reduced(o, m.shares)
            BY <6>1
          <6> QED
            BY <2>2, <4>2, <5>2, <5>4, <6>2
        <5> QED
          BY <5>3, <5>4
      <4> QED
        BY <4>1, <4>2
    <3> QED
      BY <1>2, <2>1, <3>1, <3>2
  <2> QED
    BY <1>5, <2>4 DEF Reduce
<1>6. CASE m.type = "D"
  BY <1>2, <1>6 DEF BookAfter, Without, Shown
<1>7. CASE m.type = "U"
  <2>1. BookAfter(m) = Without(book, m.ref)
                       \cup {[ref |-> m.new, side |-> o.side, shares |-> m.shares] : o \in Live(m.ref)}
    BY <1>7 DEF BookAfter
  <2>2. \A o \in book : o.ref # m.new
    BY <1>1, <1>7, UnusedNotLive DEF Legal
  <2>3. Stored(Shown, m.new) = {} /\ m.ref # m.new
    BY <1>1, <1>7, <2>2 DEF Stored, Shown, Live, Legal
  <2>4. ASSUME NEW o \in Stored(Shown, m.ref)
        PROVE  Shown' = Without(Shown, m.ref)
                        \cup {[ref |-> m.new, side |-> o.side, shares |-> m.shares]}
    <3>1. o \in Live(m.ref) /\ o.side # NoSide
      BY DEF Stored, Shown, Live
    <3>2. Live(m.ref) = {o}
      BY <1>3, <3>1
    <3>3. BookAfter(m) = Without(book, m.ref)
                         \cup {[ref |-> m.new, side |-> o.side, shares |-> m.shares]}
      BY <2>1, <3>2
    <3> QED
      BY <1>2, <3>1, <3>3 DEF Without, Shown
  <2>5. ASSUME Stored(Shown, m.ref) = {} PROVE Shown' = Shown
    <3>1. \A o \in Live(m.ref) : o.side = NoSide
      BY <2>5 DEF Stored, Shown, Live
    <3>2. \A o \in book : o.ref = m.ref => o.side = NoSide
      BY <3>1 DEF Live, Stored
    <3> QED
      BY <1>2, <2>1, <3>1, <3>2 DEF Without, Shown
  <2> QED
    BY <1>7, <2>3, <2>4, <2>5
<1>8. CASE m.type \notin {"A", "X", "D", "U"}
  BY <1>2, <1>8 DEF BookAfter, Shown
<1> QED
  BY <1>4, <1>5, <1>6, <1>7, <1>8

\* Where the orders the feed shows come from, executions included.
LEMMA ShownComesFrom ==
    ASSUME FeedType, BookInv, NEW m \in Message, Parse(m), NEW o \in Shown'
    PROVE  \/ o \in Shown /\ (m.type \in {"X", "E", "D", "U"} => o.ref # m.ref)
           \/ /\ m.type \in {"X", "E"}
              /\ \E q \in Shown : /\ q.ref = m.ref /\ o.ref = m.ref /\ o.side = q.side
                                  /\ q.shares > m.shares /\ o.shares = q.shares - m.shares
           \/ /\ m.type = "A"
              /\ o = [ref |-> m.ref, side |-> m.side, shares |-> m.shares]
           \/ /\ m.type = "U"
              /\ \E q \in Shown : /\ q.ref = m.ref
                                  /\ o = [ref |-> m.new, side |-> q.side, shares |-> m.shares]
<1>1. o \in BookAfter(m) /\ o.side # NoSide
  BY DEF Parse, FeedAfter, Shown
<1>2. CASE m.type = "A"
  <2>1. BookAfter(m) = book \cup {[ref |-> m.ref, side |-> m.side, shares |-> m.shares]}
    BY <1>2 DEF BookAfter
  <2> QED
    BY <1>1, <1>2, <2>1 DEF Shown
<1>3. CASE m.type \in {"X", "E"}
  <2>1. BookAfter(m) = Without(book, m.ref) \cup UNION {Reduced(q, m.shares) : q \in Live(m.ref)}
    BY <1>3 DEF BookAfter
  <2>2. CASE o \in Without(book, m.ref)
    BY <1>1, <1>3, <2>2 DEF Without, Shown
  <2>3. ASSUME NEW q \in Live(m.ref), o \in Reduced(q, m.shares)
        PROVE  /\ q \in Shown /\ q.ref = m.ref /\ o.ref = m.ref /\ o.side = q.side
               /\ q.shares > m.shares /\ o.shares = q.shares - m.shares
    <3>1. q \in book /\ q \in Order /\ q.ref = m.ref /\ m.shares \in Shares
      BY <1>3, MessageFields DEF Live, Stored, FeedType
    <3>2. o.ref = q.ref /\ o.side = q.side
      BY <2>3, <3>1, ReducedOrder
    <3>3. ~(q.shares <= m.shares) /\ o = [q EXCEPT !.shares = @ - m.shares]
      BY <2>3 DEF Reduced
    <3>4. q.shares \in Nat /\ m.shares \in Nat
      BY <3>1 DEF Order, Shares
    <3>5. o.shares = q.shares - m.shares
      BY <3>1, <3>3 DEF Order
    <3> QED
      BY <1>1, <3>1, <3>2, <3>3, <3>4, <3>5 DEF Shown
  <2> QED
    BY <1>1, <1>3, <2>1, <2>2, <2>3
<1>4. CASE m.type = "D"
  BY <1>1, <1>4 DEF BookAfter, Without, Shown
<1>5. CASE m.type = "U"
  <2>1. BookAfter(m) = Without(book, m.ref)
                       \cup {[ref |-> m.new, side |-> q.side, shares |-> m.shares] : q \in Live(m.ref)}
    BY <1>5 DEF BookAfter
  <2>2. CASE o \in Without(book, m.ref)
    BY <1>1, <1>5, <2>2 DEF Without, Shown
  <2>3. ASSUME NEW q \in Live(m.ref), o = [ref |-> m.new, side |-> q.side, shares |-> m.shares]
        PROVE  q \in Shown /\ q.ref = m.ref
    BY <1>1, <2>3 DEF Live, Stored, Shown
  <2> QED
    BY <1>1, <1>5, <2>1, <2>2, <2>3
<1>6. CASE m.type \notin {"A", "X", "E", "D", "U"}
  BY <1>1, <1>6 DEF BookAfter, Shown
<1> QED
  BY <1>2, <1>3, <1>4, <1>5, <1>6

-----------------------------------------------------------------------------
(***************************************************************************)
(* The table and the book, however full the table: what is in the table is *)
(* right, and what is not in it is accounted for.                          *)
(***************************************************************************)

\* No reference has had two sides.
OneSide == \A r, s, t : <<r, s>> \in added /\ <<r, t>> \in added => s = t

\* Lost orders are orders of the feed.
LostShown == \A r \in lost : \E s \in Side : <<r, s>> \in added

\* The table holds only orders of the feed, with their sides, and none lost.
OrdersKnown ==
    \A o \in orders : o.side # NoSide /\ <<o.ref, o.side>> \in added /\ o.ref \notin lost

TableInv == OneSide /\ LostShown /\ OrdersKnown /\ OrdersHeld

Inv == TypeInv /\ BookInv /\ TableInv /\ TagsResolved /\ UnresolvedExact /\ UnknownExact

\* An order there has been used its reference.
LEMMA UsedRef ==
    ASSUME NEW r, NEW s, <<r, s>> \in added
    PROVE  r \in Used
<1>1. <<r, s>>[1] = r
  OBVIOUS
<1> QED
  BY <1>1 DEF Used

\* A reference that was never used is neither lost nor in the table.
LEMMA UnusedRef ==
    ASSUME LostShown, OrdersKnown, NEW r, r \notin Used
    PROVE  r \notin lost /\ Stored(orders, r) = {}
BY UsedRef DEF LostShown, OrdersKnown, Stored

\* The orders after a message are orders there have been, except for one that
\* is new and has a side of its own.
LEMMA BookPairs ==
    ASSUME FeedType, BookInv, NEW m \in Message, Parse(m)
    PROVE  \/ \A o \in BookAfter(m) : <<o.ref, o.side>> \in added
           \/ \E r, s : /\ r \notin Used
                        /\ \A o \in BookAfter(m) :
                             <<o.ref, o.side>> \in added \/ (o.ref = r /\ o.side = s)
<1>0. Legal(m) /\ \A o \in book : <<o.ref, o.side>> \in added
  BY DEF Parse, BookInv
<1>1. CASE m.type = "A"
  <2>1. \A o \in BookAfter(m) : <<o.ref, o.side>> \in added \/ (o.ref = m.ref /\ o.side = m.side)
    <3> DEFINE new == [ref |-> m.ref, side |-> m.side, shares |-> m.shares]
    <3>1. BookAfter(m) = book \cup {new}
      BY <1>1 DEF BookAfter
    <3>2. new.ref = m.ref /\ new.side = m.side
      OBVIOUS
    <3> HIDE DEF new
    <3> QED
      BY <1>0, <3>1, <3>2
  <2>2. m.ref \notin Used
    BY <1>0, <1>1 DEF Legal
  <2> QED
    BY <2>1, <2>2
<1>2. CASE m.type \in {"X", "E"}
  <2>1. BookAfter(m) = Without(book, m.ref) \cup UNION {Reduced(q, m.shares) : q \in Live(m.ref)}
    BY <1>2 DEF BookAfter
  <2>2. ASSUME NEW q \in Live(m.ref), NEW o \in Reduced(q, m.shares)
        PROVE  <<o.ref, o.side>> \in added
    <3>1. q \in book /\ q \in Order /\ m.shares \in Shares
      BY <1>2, MessageFields DEF Live, Stored, FeedType
    <3>2. o.ref = q.ref /\ o.side = q.side
      BY <3>1, ReducedOrder
    <3> QED
      BY <1>0, <3>1, <3>2
  <2> QED
    BY <1>0, <2>1, <2>2 DEF Without
<1>3. CASE m.type = "U"
  <2>1. PICK q \in Live(m.ref) : TRUE
    BY <1>0, <1>3 DEF Legal
  <2>2. Live(m.ref) = {q}
    BY <2>1 DEF Live, Stored, BookInv, RefsUnique
  <2> DEFINE new == [ref |-> m.new, side |-> q.side, shares |-> m.shares]
  <2>3. BookAfter(m) = Without(book, m.ref) \cup {new}
    BY <1>3, <2>2 DEF BookAfter
  <2>4. \A o \in BookAfter(m) : <<o.ref, o.side>> \in added \/ (o.ref = m.new /\ o.side = q.side)
    <3>1. new.ref = m.new /\ new.side = q.side
      OBVIOUS
    <3> HIDE DEF new
    <3> QED
      BY <1>0, <2>3, <3>1 DEF Without
  <2>5. m.new \notin Used
    BY <1>0, <1>3 DEF Legal
  <2> QED
    BY <2>4, <2>5
<1>4. CASE m.type \notin {"A", "X", "E", "U"}
  BY <1>0, <1>4 DEF BookAfter, Without
<1> QED
  BY <1>1, <1>2, <1>3, <1>4

\* A message gives no reference a second side.
LEMMA OneSideStep ==
    ASSUME FeedType, BookInv, OneSide, NEW m \in Message, Parse(m)
    PROVE  OneSide' /\ added \subseteq added'
<1>1. added' = added \cup {<<o.ref, o.side>> : o \in BookAfter(m)}
  BY DEF Parse, FeedAfter
<1>2. CASE \A o \in BookAfter(m) : <<o.ref, o.side>> \in added
  BY <1>1, <1>2 DEF OneSide
<1>3. CASE \E r, s : /\ r \notin Used
                     /\ \A o \in BookAfter(m) :
                          <<o.ref, o.side>> \in added \/ (o.ref = r /\ o.side = s)
  <2>1. PICK r, s : /\ r \notin Used
                    /\ \A o \in BookAfter(m) :
                         <<o.ref, o.side>> \in added \/ (o.ref = r /\ o.side = s)
    BY <1>3
  <2>2. \A a \in added' : a \in added \/ a = <<r, s>>
    BY <1>1, <2>1
  <2>3. \A t : <<r, t>> \notin added
    BY <2>1, UsedRef
  <2> QED
    BY <1>1, <2>2, <2>3 DEF OneSide
<1> QED
  BY <1>1, <1>2, <1>3, BookPairs

\* What a replace that is legal does to the book.
LEMMA ReplacedOrder ==
    ASSUME FeedType, BookInv, NEW m \in Message, Parse(m), m.type = "U"
    PROVE  \E q \in book : /\ Live(m.ref) = {q} /\ q.ref = m.ref
                           /\ q.side \in Side \cup {NoSide}
                           /\ <<m.ref, q.side>> \in added /\ <<m.new, q.side>> \in added'
                           /\ Stray(m) <=> q.side = NoSide
<1>1. PICK q \in Live(m.ref) : TRUE
  BY DEF Parse, Legal
<1>2. Live(m.ref) = {q} /\ q \in book /\ q.ref = m.ref
  BY <1>1 DEF Live, Stored, BookInv, RefsUnique
<1>3. q.side \in Side \cup {NoSide} /\ <<m.ref, q.side>> \in added
  BY <1>2 DEF FeedType, Order, BookInv
<1>4. [ref |-> m.new, side |-> q.side, shares |-> m.shares] \in BookAfter(m)
  BY <1>2 DEF BookAfter
<1>5. <<m.new, q.side>> \in added'
  BY <1>4 DEF Parse, FeedAfter
<1> QED
  BY <1>2, <1>3, <1>5 DEF Stray

\* Orders that become lost are new ones, of known side.
LEMMA LostStep ==
    ASSUME FeedType, BookInv, LostShown, OneSide, NEW m \in Message, Parse(m)
    PROVE  LostShown' /\ lost \subseteq lost' /\ \A r \in Used : r \in lost' => r \in lost
<1>1. lost' = lost \cup LostBy(m) /\ Legal(m)
  BY DEF Parse, FeedAfter
<1>2. added \subseteq added'
  BY OneSideStep
<1>3. ASSUME NEW r \in LostBy(m)
      PROVE  r \notin Used /\ \E s \in Side : <<r, s>> \in added'
  <2>1. CASE m.type = "A"
    <3>1. r = m.ref /\ m.side \in Side
      BY <1>3, <2>1, MessageFields DEF LostBy
    <3>2. [ref |-> m.ref, side |-> m.side, shares |-> m.shares] \in BookAfter(m)
      BY <2>1 DEF BookAfter
    <3>3. <<m.ref, m.side>> \in added'
      BY <3>2 DEF Parse, FeedAfter
    <3> QED
      BY <1>1, <2>1, <3>1, <3>3 DEF Legal
  <2>2. CASE m.type = "U"
    <3>1. r = m.new /\ ~Stray(m)
      BY <1>3, <2>2 DEF LostBy
    <3> QED
      BY <1>1, <2>2, <3>1, ReplacedOrder DEF Legal
  <2>3. CASE m.type \notin {"A", "U"}
    BY <1>3, <2>3 DEF LostBy
  <2> QED
    BY <2>1, <2>2, <2>3
<1> QED
  BY <1>1, <1>2, <1>3 DEF LostShown

\* The table misses the order of a message exactly if its side is unknown or
\* it was lost, which exclude each other.
LEMMA MissExact ==
    ASSUME BookInv, TableInv, NEW m, Legal(m), m.type \in {"X", "D", "U"}
    PROVE  /\ Stored(orders, m.ref) = {} <=> Stray(m) \/ m.ref \in lost
           /\ ~(Stray(m) /\ m.ref \in lost)
<1>1. PICK q \in Live(m.ref) : TRUE
  BY DEF Legal
<1>2. Live(m.ref) = {q} /\ q \in book /\ q.ref = m.ref /\ <<m.ref, q.side>> \in added
  BY <1>1 DEF Live, Stored, BookInv, RefsUnique
<1>3. NoSide \notin Side
  BY DEF Side, NoSide
<1>4. ASSUME Stray(m) PROVE Stored(orders, m.ref) = {} /\ m.ref \notin lost
  <2>1. q.side = NoSide
    BY <1>2, <1>4 DEF Stray
  <2>2. \A s : <<m.ref, s>> \in added => s = NoSide
    BY <1>2, <2>1 DEF TableInv, OneSide
  <2> QED
    BY <1>3, <2>2 DEF TableInv, OrdersKnown, LostShown, Stored
<1>5. ASSUME m.ref \in lost PROVE Stored(orders, m.ref) = {}
  BY <1>5 DEF TableInv, OrdersKnown, Stored
<1>6. ASSUME ~Stray(m), m.ref \notin lost PROVE Stored(orders, m.ref) # {}
  <2>1. q \in Shown
    BY <1>2, <1>6 DEF Stray, Shown
  <2> QED
    BY <1>2, <1>6, <2>1 DEF TableInv, OrdersHeld, Held, Stored
<1> QED
  BY <1>4, <1>5, <1>6

\* What the table misses is counted on one side or the other.
LEMMA CountsAfter ==
    ASSUME FeedType, BookInv, TableInv, NEW m, Parse(m)
    PROVE  /\ strays'.replace + losses'.replace = strays.replace + losses.replace
                + (IF m.type = "U" THEN Miss(orders, m.ref) ELSE 0)
           /\ strays'.cancel + losses'.cancel = strays.cancel + losses.cancel
                + (IF m.type \in {"X", "D"} THEN Miss(orders, m.ref) ELSE 0)
<1>1. /\ strays' = IF Stray(m) THEN Counting(strays, m) ELSE strays
      /\ losses' = IF OfLost(m) THEN Counting(losses, m) ELSE losses
      /\ Legal(m)
  BY DEF Parse, FeedAfter
<1>2. /\ strays.replace \in Nat /\ strays.cancel \in Nat
      /\ losses.replace \in Nat /\ losses.cancel \in Nat
  BY DEF FeedType
<1>3. \A count : /\ Counting(count, m).replace = count.replace + (IF m.type = "U" THEN 1 ELSE 0)
                 /\ Counting(count, m).cancel = count.cancel + (IF m.type # "U" THEN 1 ELSE 0)
  BY DEF Counting
<1>4. CASE m.type \in {"X", "D", "U"}
  <2>1. /\ Miss(orders, m.ref) = IF Stray(m) \/ OfLost(m) THEN 1 ELSE 0
        /\ ~(Stray(m) /\ OfLost(m))
    BY <1>1, <1>4, MissExact DEF Miss, OfLost
  <2> QED
    BY <1>1, <1>2, <1>3, <1>4, <2>1
<1>5. CASE m.type \notin {"X", "D", "U"}
  BY <1>1, <1>2, <1>5 DEF Stray, OfLost
<1> QED
  BY <1>4, <1>5

\* A message that is shipped leaves the tags resolved, if its own is.
LEMMA TagsKept ==
    ASSUME TypeInv, BookInv, TableInv, TagsResolved, NEW m \in Message, Parse(m),
           NEW tag, Ship(m, tag),
           m.type = "U" => <<m.ref, tag>> \in added \/ (tag = NoSide /\ m.ref \in lost)
    PROVE  TagsResolved'
<1>1. slots' = Append(slots, [at |-> parsed', msg |-> m, tag |-> tag])
  BY DEF Ship
<1>2. added \subseteq added' /\ lost \subseteq lost'
  BY DEF Parse, FeedAfter
<1>3. slots \in Seq(SlotType)
  BY DEF TypeInv, TypeOK
<1>4. \A i \in DOMAIN slots' :
        \/ i \in DOMAIN slots /\ slots'[i] = slots[i]
        \/ slots'[i] = [at |-> parsed', msg |-> m, tag |-> tag]
  BY <1>1, <1>3
<1> QED
  BY <1>2, <1>4 DEF TagsResolved

(***************************************************************************)
(* What a step must do to the table: keep the orders that are not those of *)
(* the message, keep or rightly reduce those that are, enter the new one   *)
(* if it is not lost, and put in nothing else.                             *)
(***************************************************************************)
Enters(m, side) ==
    IF m.type = "A"
    THEN [ref |-> m.ref, side |-> side, shares |-> m.shares]
    ELSE [ref |-> m.new, side |-> side, shares |-> m.shares]

KeepsOthers(m) ==
    \A p \in orders : m.type \in {"X", "D", "U"} /\ p.ref # m.ref => p \in orders'
KeepsRest(m) ==
    \A p \in orders : m.type = "X" /\ p.ref = m.ref /\ p.shares > m.shares =>
        [ref |-> p.ref, side |-> p.side, shares |-> p.shares - m.shares] \in orders'
KeepsAll(m) == m.type \notin {"X", "D", "U"} => orders \subseteq orders'
EntersNew(m) ==
    /\ m.type = "A" /\ ~AtLimit => Enters(m, m.side) \in orders'
    /\ m.type = "U" /\ ~AtLimit =>
         \A p \in orders : p.ref = m.ref => Enters(m, p.side) \in orders'
NothingElse(m) ==
    \A o \in orders' :
        \/ \E p \in orders : o.ref = p.ref /\ o.side = p.side
        \/ m.type = "A" /\ ~AtLimit /\ o = Enters(m, m.side)
        \/ /\ m.type = "U" /\ ~AtLimit
           /\ \E p \in orders : p.ref = m.ref /\ o = Enters(m, p.side)

TableStep(m) ==
    KeepsOthers(m) /\ KeepsRest(m) /\ KeepsAll(m) /\ EntersNew(m) /\ NothingElse(m)

\* insert enters an order of an unused reference unless the table is at its
\* limit.
LEMMA InsertUnused ==
    ASSUME LostShown, OrdersKnown, NEW o, o.ref \notin Used
    PROVE  Insert(orders, o) = IF AtLimit THEN orders ELSE orders \cup {o}
BY UnusedRef DEF Insert, AtLimit

\* Every handler makes such a step.
LEMMA HandlersTableStep ==
    ASSUME TypeInv, BookInv, TableInv, NEW m \in Message, Parse(m),
           \/ StockDirectory(m) \/ SystemEvent(m) \/ Skip(m) \/ Trade(m)
           \/ AddOrder(m) \/ OrderCancel(m) \/ OrderDelete(m)
           \/ OrderReplace(m) \/ OrderReplaceUnresolved(m)
    PROVE  TableStep(m)
<1>0. /\ orders \subseteq Order /\ RefsUnique(orders) /\ Legal(m)
      /\ LostShown /\ OrdersKnown
  BY DEF TypeInv, TableOK, Parse, TableInv
<1>1. CASE StockDirectory(m) \/ SystemEvent(m) \/ Skip(m) \/ Trade(m)
  <2>1. orders' = orders
    BY <1>1 DEF StockDirectory, SystemEvent, Skip, Trade, fillVars
  <2>2. m.type \notin {"A", "X", "D", "U"}
    BY <1>1 DEF StockDirectory, SystemEvent, Skip, Trade, gpu_relevant, TooLong
  <2> QED
    BY <2>1, <2>2 DEF TableStep, KeepsOthers, KeepsRest, KeepsAll, EntersNew, NothingElse
<1>2. CASE AddOrder(m)
  <2>1. m.type = "A" /\ orders' = Insert(orders, Enters(m, m.side))
    BY <1>2 DEF AddOrder, Enters
  <2>2. Enters(m, m.side).ref \notin Used
    BY <1>0, <2>1 DEF Legal, Enters
  <2>3. orders' = IF AtLimit THEN orders ELSE orders \cup {Enters(m, m.side)}
    BY <1>0, <2>1, <2>2, InsertUnused
  <2> QED
    BY <2>1, <2>3 DEF TableStep, KeepsOthers, KeepsRest, KeepsAll, EntersNew, NothingElse
<1>3. CASE OrderCancel(m)
  <2>1. /\ m.type = "X" /\ m.shares \in Shares
        /\ orders' = Without(orders, m.ref)
                     \cup UNION {Reduced(p, m.shares) : p \in Stored(orders, m.ref)}
    BY <1>3, MessageFields DEF OrderCancel, Reduce
  <2>2. ASSUME NEW p \in Stored(orders, m.ref), NEW o \in Reduced(p, m.shares)
        PROVE  o.ref = p.ref /\ o.side = p.side /\ p \in orders
    BY <1>0, <2>1, ReducedOrder DEF Stored
  <2>3. ASSUME NEW p \in orders, p.ref = m.ref, p.shares > m.shares
        PROVE  [ref |-> p.ref, side |-> p.side, shares |-> p.shares - m.shares] \in orders'
    <3>1. p \in Order /\ p.shares \in Nat /\ m.shares \in Nat
      BY <1>0, <2>1 DEF Order, Shares
    <3>2. [p EXCEPT !.shares = @ - m.shares]
            = [ref |-> p.ref, side |-> p.side, shares |-> p.shares - m.shares]
      BY <3>1 DEF Order
    <3>3. [p EXCEPT !.shares = @ - m.shares] \in Reduced(p, m.shares)
      BY <2>3, <3>1 DEF Reduced
    <3>4. p \in Stored(orders, m.ref)
      BY <2>3 DEF Stored
    <3> QED
      BY <2>1, <3>2, <3>3, <3>4
  <2>4. KeepsOthers(m)
    BY <2>1 DEF KeepsOthers, Without
  <2>5. NothingElse(m)
    BY <2>1, <2>2 DEF NothingElse, Without
  <2> QED
    BY <2>1, <2>3, <2>4, <2>5 DEF TableStep, KeepsRest, KeepsAll, EntersNew
<1>4. CASE OrderDelete(m)
  <2>1. m.type = "D" /\ orders' = Without(orders, m.ref)
    BY <1>4 DEF OrderDelete
  <2> QED
    BY <2>1 DEF TableStep, KeepsOthers, KeepsRest, KeepsAll, EntersNew, NothingElse, Without
<1>5. CASE OrderReplace(m)
  <2>1. m.type = "U"
    BY <1>5 DEF OrderReplace
  <2>2. PICK p \in Stored(orders, m.ref) :
          orders' = Without(Insert(orders, Enters(m, p.side)), m.ref)
    BY <1>5, <2>1 DEF OrderReplace, Replaced, Enters
  <2>3. p \in orders /\ p.ref = m.ref /\ \A q \in orders : q.ref = m.ref => q = p
    BY <1>0, <2>2 DEF Stored, RefsUnique
  <2>4. Enters(m, p.side).ref = m.new /\ m.new \notin Used
    BY <1>0, <2>1 DEF Legal, Enters
  <2>5. m.new # m.ref
    BY <2>3, <2>4, <1>0, UsedRef DEF OrdersKnown
  <2>6. orders' = Without(IF AtLimit THEN orders ELSE orders \cup {Enters(m, p.side)}, m.ref)
    BY <1>0, <2>2, <2>4, InsertUnused
  <2>7. KeepsOthers(m)
    BY <2>6 DEF KeepsOthers, Without
  <2>8. EntersNew(m)
    BY <2>1, <2>3, <2>4, <2>5, <2>6 DEF EntersNew, Without
  <2>9. NothingElse(m)
    <3>1. CASE AtLimit
      BY <2>6, <3>1 DEF NothingElse, Without
    <3>2. CASE ~AtLimit
      BY <2>1, <2>3, <2>6, <3>2 DEF NothingElse, Without
    <3> QED
      BY <3>1, <3>2
  <2> QED
    BY <2>1, <2>7, <2>8, <2>9 DEF TableStep, KeepsRest, KeepsAll
<1>6. CASE OrderReplaceUnresolved(m)
  <2>1. m.type = "U" /\ orders' = orders /\ Stored(orders, m.ref) = {}
    BY <1>6 DEF OrderReplaceUnresolved
  <2> QED
    BY <2>1 DEF TableStep, KeepsOthers, KeepsRest, KeepsAll, EntersNew, NothingElse, Stored
<1> QED
  BY <1>1, <1>2, <1>3, <1>4, <1>5, <1>6

\* Such a step leaves in the table only orders of the feed, and none lost.
LEMMA OrdersKnownStep ==
    ASSUME TypeInv, FeedType, BookInv, TableInv, NEW m \in Message, Parse(m), TableStep(m)
    PROVE  OrdersKnown'
<1>0. /\ OneSide /\ LostShown /\ OrdersKnown /\ Legal(m)
      /\ lost' = lost \cup LostBy(m)
  BY DEF TableInv, Parse, FeedAfter
<1>1. added \subseteq added' /\ \A r \in Used : r \in lost' => r \in lost
  BY <1>0, OneSideStep, LostStep
<1>2. NoSide \notin Side
  BY DEF Side, NoSide
<1> SUFFICES ASSUME NEW o \in orders'
             PROVE  o.side # NoSide /\ <<o.ref, o.side>> \in added' /\ o.ref \notin lost'
  BY DEF OrdersKnown
<1>3. ASSUME NEW p \in orders, o.ref = p.ref, o.side = p.side
      PROVE  o.side # NoSide /\ <<o.ref, o.side>> \in added' /\ o.ref \notin lost'
  BY <1>0, <1>1, <1>3, UsedRef DEF OrdersKnown
<1>4. CASE m.type = "A" /\ ~AtLimit /\ o = Enters(m, m.side)
  <2>1. o = [ref |-> m.ref, side |-> m.side, shares |-> m.shares] /\ m.side \in Side
    BY <1>4, MessageFields DEF Enters
  <2>2. o \in BookAfter(m)
    BY <1>4, <2>1 DEF BookAfter
  <2>3. <<o.ref, o.side>> \in added'
    BY <2>2 DEF Parse, FeedAfter
  <2>4. o.ref \notin lost /\ LostBy(m) = {}
    BY <1>0, <1>4, <2>1, UnusedRef DEF Legal, LostBy
  <2> QED
    BY <1>0, <1>2, <2>1, <2>3, <2>4
<1>5. ASSUME m.type = "U", ~AtLimit, NEW p \in orders, p.ref = m.ref, o = Enters(m, p.side)
      PROVE  o.side # NoSide /\ <<o.ref, o.side>> \in added' /\ o.ref \notin lost'
  <2>1. o.ref = m.new /\ o.side = p.side
    BY <1>5 DEF Enters
  <2>2. p.side # NoSide /\ <<m.ref, p.side>> \in added /\ m.ref \notin lost
    BY <1>0, <1>5 DEF OrdersKnown
  <2>3. <<m.new, p.side>> \in added'
    <3>1. PICK q \in book : <<m.ref, q.side>> \in added /\ <<m.new, q.side>> \in added'
      BY <1>5, ReplacedOrder
    <3> QED
      BY <1>0, <2>2, <3>1 DEF OneSide
  <2>4. m.new \notin lost /\ LostBy(m) = {}
    BY <1>0, <1>5, <2>2, UnusedRef DEF Legal, LostBy
  <2> QED
    BY <1>0, <2>1, <2>2, <2>3, <2>4
<1> QED
  BY <1>3, <1>4, <1>5 DEF TableStep, NothingElse

\* Such a step leaves every live order in the table that is not lost.
LEMMA OrdersHeldStep ==
    ASSUME TypeInv, FeedType, BookInv, TableInv, NEW m \in Message, Parse(m), TableStep(m)
    PROVE  OrdersHeld'
<1>0. /\ OneSide /\ LostShown /\ OrdersKnown /\ OrdersHeld
      /\ lost' = lost \cup LostBy(m) /\ orders \subseteq Order
  BY DEF TypeInv, TableOK, TableInv, Parse, FeedAfter
<1>1. \A p \in orders : p.shares \in Nat
  BY <1>0 DEF Order, Shares
<1>2. \A q \in Shown : q.shares \in Nat
  BY DEF Shown, FeedType, Order, Shares
<1> SUFFICES ASSUME NEW o \in Shown' PROVE o.ref \in lost' \/ Held(o)'
  BY DEF OrdersHeld
<1>3. CASE o \in Shown /\ (m.type \in {"X", "E", "D", "U"} => o.ref # m.ref)
  <2>1. CASE o.ref \in lost
    BY <1>0, <2>1
  <2>2. ASSUME NEW p \in orders, p.ref = o.ref, p.side = o.side, p.shares >= o.shares
        PROVE  p \in orders'
    BY <1>3, <2>2 DEF TableStep, KeepsOthers, KeepsAll
  <2> QED
    BY <1>0, <1>3, <2>1, <2>2 DEF OrdersHeld, Held
<1>4. ASSUME m.type \in {"X", "E"},
             NEW q \in Shown, q.ref = m.ref, o.ref = m.ref, o.side = q.side,
             q.shares > m.shares, o.shares = q.shares - m.shares
      PROVE  o.ref \in lost' \/ Held(o)'
  <2>1. m.shares \in Nat
    BY <1>4, MessageFields DEF Shares
  <2>2. CASE q.ref \in lost
    BY <1>0, <1>4, <2>2
  <2>3. ASSUME NEW p \in orders, p.ref = q.ref, p.side = q.side, p.shares >= q.shares
        PROVE  Held(o)'
    <3>1. p.shares > m.shares /\ p.shares - m.shares >= o.shares /\ p.shares >= o.shares
      BY <1>1, <1>2, <1>4, <2>1, <2>3
    <3>2. CASE m.type = "X"
      <4> DEFINE rest == [ref |-> p.ref, side |-> p.side, shares |-> p.shares - m.shares]
      <4>1. rest \in orders'
        BY <1>4, <2>3, <3>1, <3>2 DEF TableStep, KeepsRest
      <4>2. rest.ref = o.ref /\ rest.side = o.side /\ rest.shares >= o.shares
        BY <1>4, <2>3, <3>1
      <4> QED
        BY <4>1, <4>2 DEF Held
    <3>3. CASE m.type = "E"
      <4>1. p \in orders'
        BY <3>3 DEF TableStep, KeepsAll
      <4> QED
        BY <1>4, <2>3, <3>1, <4>1 DEF Held
    <3> QED
      BY <1>4, <3>2, <3>3
  <2> QED
    BY <1>0, <2>2, <2>3 DEF OrdersHeld, Held
<1>5. CASE m.type = "A" /\ o = [ref |-> m.ref, side |-> m.side, shares |-> m.shares]
  <2>1. CASE AtLimit
    <3>1. LostBy(m) = {m.ref}
      BY <1>5, <2>1 DEF LostBy
    <3> QED
      BY <1>0, <1>5, <3>1
  <2>2. CASE ~AtLimit
    <3>1. o \in orders'
      BY <1>5, <2>2 DEF TableStep, EntersNew, Enters
    <3>2. o.shares \in Nat
      BY <1>5, MessageFields DEF Shares
    <3> QED
      BY <3>1, <3>2 DEF Held
  <2> QED
    BY <2>1, <2>2
<1>6. ASSUME m.type = "U", NEW q \in Shown, q.ref = m.ref,
             o = [ref |-> m.new, side |-> q.side, shares |-> m.shares]
      PROVE  o.ref \in lost' \/ Held(o)'
  <2>1. ~Stray(m)
    <3>1. q \in Live(m.ref) /\ q.side # NoSide
      BY <1>6 DEF Shown, Live, Stored
    <3>2. \A p \in Live(m.ref) : p = q
      BY <3>1 DEF Live, Stored, BookInv, RefsUnique
    <3> QED
      BY <3>1, <3>2 DEF Stray
  <2>2. CASE AtLimit \/ m.ref \in lost
    <3>1. LostBy(m) = {m.new}
      BY <1>6, <2>1, <2>2 DEF LostBy
    <3> QED
      BY <1>0, <1>6, <3>1
  <2>3. CASE ~AtLimit /\ m.ref \notin lost
    <3>1. PICK p \in orders : p.ref = m.ref /\ p.side = q.side
      BY <1>0, <1>6, <2>3 DEF OrdersHeld, Held
    <3>2. o \in orders'
      BY <1>6, <2>3, <3>1 DEF TableStep, EntersNew, Enters
    <3>3. o.shares \in Nat
      BY <1>6, MessageFields DEF Shares
    <3> QED
      BY <3>2, <3>3 DEF Held
  <2> QED
    BY <2>2, <2>3
<1> QED
  BY <1>3, <1>4, <1>5, <1>6, ShownComesFrom

\* Every handler leaves the counters and the tags right.
LEMMA HandlersCount ==
    ASSUME Inv, NEW m \in Message, Parse(m),
           \/ StockDirectory(m) \/ SystemEvent(m) \/ Skip(m) \/ Trade(m)
           \/ AddOrder(m) \/ OrderCancel(m) \/ OrderDelete(m)
           \/ OrderReplace(m) \/ OrderReplaceUnresolved(m)
    PROVE  TagsResolved' /\ UnresolvedExact' /\ UnknownExact'
<1>0. /\ FeedType /\ TypeInv /\ BookInv /\ TableInv /\ TagsResolved /\ Legal(m)
      /\ unresolved_replaces_ = strays.replace + losses.replace
      /\ unknown_cancels_ = strays.cancel + losses.cancel
  BY TypeParts DEF Inv, Parse, UnresolvedExact, UnknownExact
<1>1. /\ strays'.replace + losses'.replace = strays.replace + losses.replace
            + (IF m.type = "U" THEN Miss(orders, m.ref) ELSE 0)
      /\ strays'.cancel + losses'.cancel = strays.cancel + losses.cancel
            + (IF m.type \in {"X", "D"} THEN Miss(orders, m.ref) ELSE 0)
  BY <1>0, CountsAfter
<1>2. /\ strays.replace \in Nat /\ strays.cancel \in Nat
      /\ losses.replace \in Nat /\ losses.cancel \in Nat
  BY <1>0 DEF FeedType
<1>3. added \subseteq added' /\ lost \subseteq lost'
  BY DEF Parse, FeedAfter
<1>4. CASE StockDirectory(m) \/ SystemEvent(m) \/ Skip(m)
  <2>1. /\ slots' = slots /\ m.type \notin {"X", "D", "U"}
        /\ UNCHANGED <<unresolved_replaces_, unknown_cancels_>>
    BY <1>4 DEF StockDirectory, SystemEvent, Skip, fillVars, gpu_relevant, TooLong
  <2>2. TagsResolved'
    BY <1>0, <1>3, <2>1 DEF TagsResolved
  <2> QED
    BY <1>0, <1>1, <1>2, <2>1, <2>2 DEF UnresolvedExact, UnknownExact
<1>5. CASE Trade(m) \/ AddOrder(m)
  <2>1. /\ Ship(m, NoSide) /\ m.type \in {"P", "A"}
        /\ UNCHANGED <<unresolved_replaces_, unknown_cancels_>>
    BY <1>5 DEF Trade, AddOrder
  <2>2. TagsResolved'
    BY <1>0, <2>1, TagsKept
  <2> QED
    BY <1>0, <1>1, <1>2, <2>1, <2>2 DEF UnresolvedExact, UnknownExact
<1>6. CASE OrderCancel(m) \/ OrderDelete(m)
  <2>1. /\ Ship(m, NoSide) /\ m.type \in {"X", "D"}
        /\ unknown_cancels_' = unknown_cancels_ + Miss(orders, m.ref)
        /\ UNCHANGED unresolved_replaces_
    BY <1>6 DEF OrderCancel, OrderDelete
  <2>2. TagsResolved'
    BY <1>0, <2>1, TagsKept
  <2> QED
    BY <1>0, <1>1, <1>2, <2>1, <2>2 DEF UnresolvedExact, UnknownExact
<1>7. CASE OrderReplace(m)
  <2>1. PICK o \in Stored(orders, m.ref) : Ship(m, o.side)
    BY <1>7 DEF OrderReplace
  <2>2. /\ m.type = "U" /\ Miss(orders, m.ref) = 0
        /\ UNCHANGED <<unresolved_replaces_, unknown_cancels_>>
    BY <1>7, <2>1 DEF OrderReplace, Miss
  <2>3. <<m.ref, o.side>> \in added
    BY <1>0, <2>1 DEF Stored, TableInv, OrdersKnown
  <2>4. TagsResolved'
    BY <1>0, <2>1, <2>3, TagsKept
  <2> QED
    BY <1>0, <1>1, <1>2, <2>2, <2>4 DEF UnresolvedExact, UnknownExact
<1>8. CASE OrderReplaceUnresolved(m)
  <2>1. /\ m.type = "U" /\ Stored(orders, m.ref) = {} /\ Miss(orders, m.ref) = 1
        /\ Ship(m, NoSide)
        /\ unresolved_replaces_' = unresolved_replaces_ + 1 /\ UNCHANGED unknown_cancels_
    BY <1>8 DEF OrderReplaceUnresolved, Miss
  <2>2. <<m.ref, NoSide>> \in added \/ m.ref \in lost
    <3>1. Stray(m) \/ m.ref \in lost
      BY <1>0, <2>1, MissExact
    <3>2. Stray(m) => <<m.ref, NoSide>> \in added
      BY <1>0, <2>1, ReplacedOrder
    <3> QED
      BY <3>1, <3>2
  <2>3. TagsResolved'
    BY <1>0, <2>1, <2>2, TagsKept
  <2> QED
    BY <1>0, <1>1, <1>2, <2>1, <2>3 DEF UnresolvedExact, UnknownExact
<1> QED
  BY <1>4, <1>5, <1>6, <1>7, <1>8

\* Every step keeps the invariant.
LEMMA NextInv == Inv /\ [Next]_assemblerVars => Inv'
<1> SUFFICES ASSUME Inv, [Next]_assemblerVars PROVE Inv'
  OBVIOUS
<1>1. TypeInv'
  BY NextType DEF Inv
<1> SUFFICES BookInv' /\ TableInv' /\ TagsResolved' /\ UnresolvedExact' /\ UnknownExact'
  BY <1>1 DEF Inv
<1>2. ASSUME UNCHANGED <<book, added, strays, lost, losses, orders,
                         unresolved_replaces_, unknown_cancels_>>,
             slots' = slots \/ slots' = <<>>
      PROVE  BookInv' /\ TableInv' /\ TagsResolved' /\ UnresolvedExact' /\ UnknownExact'
  <2>1. BookInv' /\ UnresolvedExact' /\ UnknownExact'
    BY <1>2 DEF Inv, BookInv, UnresolvedExact, UnknownExact
  <2>2. TableInv'
    <3>1. OneSide' /\ LostShown' /\ OrdersKnown'
      BY <1>2 DEF Inv, TableInv, OneSide, LostShown, OrdersKnown
    <3>2. OrdersHeld'
      BY <1>2 DEF Inv, TableInv, OrdersHeld, Held, Shown
    <3> QED
      BY <3>1, <3>2 DEF TableInv
  <2>3. TagsResolved'
    BY <1>2 DEF Inv, TagsResolved
  <2> QED
    BY <2>1, <2>2, <2>3
<1>3. CASE Call
  BY <1>2, <1>3 DEF Call, feedVars
<1>4. CASE Return
  BY <1>2, <1>4 DEF Return, feedVars
<1>5. CASE StreamEnds
  BY <1>2, <1>5 DEF StreamEnds
<1>6. CASE Iterate
  <2>1. PICK m \in Message :
          /\ Parse(m)
          /\ \/ StockDirectory(m) \/ SystemEvent(m) \/ Skip(m)
             \/ AddOrder(m) \/ OrderCancel(m) \/ OrderDelete(m)
             \/ OrderReplace(m) \/ OrderReplaceUnresolved(m) \/ Trade(m)
    BY <1>6 DEF Iterate
  <2>2. FeedType /\ TypeInv /\ BookInv /\ TableInv /\ OneSide /\ LostShown
    BY TypeParts DEF Inv, TableInv
  <2>3. BookInv'
    BY <2>1, <2>2, BookStep
  <2>4. TableStep(m)
    BY <2>1, <2>2, HandlersTableStep
  <2>5. OneSide' /\ LostShown'
    BY <2>1, <2>2, OneSideStep, LostStep
  <2>6. TableInv'
    BY <2>1, <2>2, <2>4, <2>5, OrdersKnownStep, OrdersHeldStep DEF TableInv
  <2>7. TagsResolved' /\ UnresolvedExact' /\ UnknownExact'
    BY <2>1, HandlersCount
  <2> QED
    BY <2>3, <2>6, <2>7
<1>7. CASE UNCHANGED assemblerVars
  BY <1>2, <1>7 DEF assemblerVars, fillVars, feedVars
<1> QED
  BY <1>3, <1>4, <1>5, <1>6, <1>7 DEF Next, InFill

\* Nothing is in the table, nothing is lost, and nothing of the feed is in the
\* book.
LEMMA InitInv == AssemblerInit => Inv
<1> SUFFICES ASSUME AssemblerInit PROVE Inv
  OBVIOUS
<1>1. TypeInv
  BY InitType
<1>2. /\ book = OldOrders /\ added = OldRefs \X {NoSide} /\ orders = {} /\ slots = <<>>
      /\ lost = {}
  BY DEF AssemblerInit, FeedInit
<1>3. BookInv
  BY <1>2 DEF BookInv, RefsUnique, OldOrders
<1>4. TableInv
  <2>1. Shown = {}
    BY <1>2 DEF Shown, OldOrders
  <2>2. OneSide
    BY <1>2 DEF OneSide
  <2> QED
    BY <1>2, <2>1, <2>2 DEF TableInv, LostShown, OrdersKnown, OrdersHeld
<1>5. TagsResolved
  BY <1>2 DEF TagsResolved
<1>6. UnresolvedExact /\ UnknownExact
  <2>1. /\ unresolved_replaces_ = 0 /\ unknown_cancels_ = 0
        /\ strays = [replace |-> 0, cancel |-> 0] /\ losses = [replace |-> 0, cancel |-> 0]
    BY Zenon DEF AssemblerInit, FeedInit
  <2> QED
    BY <2>1 DEF UnresolvedExact, UnknownExact
<1> QED
  BY <1>1, <1>3, <1>4, <1>5, <1>6 DEF Inv

-----------------------------------------------------------------------------
\* However full the table, and with executions: every live order of the feed is
\* in it, with its side and at least its shares, unless the table was at its
\* limit when the order, or one it replaces, came.
THEOREM OrdersAreHeld == Spec => []OrdersHeld
<1>1. Inv => OrdersHeld
  BY DEF Inv, TableInv
<1> QED
  BY <1>1, InitInv, NextInv, PTL DEF Spec

\* No replace is shipped with a wrong side, through any chain of replaces, and
\* one is shipped without a side only if its order predates the feed, replaces
\* one that does, or was lost.
THEOREM TagsAreResolved == Spec => []TagsResolved
<1>1. Inv => TagsResolved
  BY DEF Inv
<1> QED
  BY <1>1, InitInv, NextInv, PTL DEF Spec

\* unresolved_replaces_ counts exactly the replaces of orders of no known side
\* and of lost ones.
THEOREM UnresolvedAreExact == Spec => []UnresolvedExact
<1>1. Inv => UnresolvedExact
  BY DEF Inv
<1> QED
  BY <1>1, InitInv, NextInv, PTL DEF Spec

\* unknown_cancels_ counts exactly the cancels and deletes of such orders.
THEOREM UnknownAreExact == Spec => []UnknownExact
<1>1. Inv => UnknownExact
  BY DEF Inv
<1> QED
  BY <1>1, InitInv, NextInv, PTL DEF Spec

-----------------------------------------------------------------------------
(***************************************************************************)
(* The orders neither executed nor lost.                                   *)
(***************************************************************************)

\* Executed orders are orders there have been.
ExecutedUsed == executed \subseteq Used

BookedInv == Inv /\ ExecutedUsed /\ TableIsBook

\* An order that is neither executed nor lost is in the table and live, or in
\* neither.
Agree(tab, shown, but) == \A o : o.ref \notin but => (o \in tab <=> o \in shown)

LEMMA AgreeIsBook == TableIsBook <=> Agree(orders, Shown, executed \cup lost)
BY DEF TableIsBook, Followed, Agree

\* Tables that agree still do after the same cancel.
LEMMA AgreeReduced ==
    ASSUME NEW tab, NEW shown, NEW but, Agree(tab, shown, but),
           tab \subseteq Order, shown \subseteq Order, NEW r, NEW k \in Shares
    PROVE  Agree(Reduce(tab, r, k), Reduce(shown, r, k), but)
<1> SUFFICES ASSUME NEW o, o.ref \notin but
             PROVE  o \in Reduce(tab, r, k) <=> o \in Reduce(shown, r, k)
  BY DEF Agree
<1>1. \A t \in {tab, shown} :
        o \in Reduce(t, r, k) <=> \/ o \in t /\ o.ref # r
                                  \/ \E p \in t : p.ref = r /\ o \in Reduced(p, k)
  BY DEF Reduce, Without, Stored
<1>2. \A p \in tab \cup shown : o \in Reduced(p, k) => p.ref = o.ref
  BY ReducedOrder
<1> QED
  BY <1>1, <1>2 DEF Agree

\* A message lets no reference be used again, and executes a live order.
LEMMA ExecutedStep ==
    ASSUME BookInv, ExecutedUsed, NEW m \in Message, Parse(m)
    PROVE  /\ executed' = executed \cup (IF m.type = "E" THEN {m.ref} ELSE {})
           /\ ExecutedUsed'
<1>1. /\ executed' = executed \cup (IF m.type = "E" THEN {m.ref} ELSE {})
      /\ added \subseteq added' /\ Legal(m)
  BY DEF Parse, FeedAfter
<1>2. Used \subseteq Used'
  BY <1>1 DEF Used
<1>3. m.type = "E" => m.ref \in Used
  <2>1. SUFFICES ASSUME m.type = "E" PROVE m.ref \in Used
    OBVIOUS
  <2>2. PICK o \in Live(m.ref) : TRUE
    BY <1>1, <2>1 DEF Legal
  <2>3. <<m.ref, o.side>> \in added
    BY <2>2 DEF Live, Stored, BookInv
  <2> QED
    BY <2>3, UsedRef
<1> QED
  BY <1>1, <1>2, <1>3 DEF ExecutedUsed

\* The handlers do to the table what the feed does to the orders it shows.
LEMMA HandlersBook ==
    ASSUME BookedInv, NEW m \in Message, Parse(m),
           \/ StockDirectory(m) \/ SystemEvent(m) \/ Skip(m) \/ Trade(m)
           \/ AddOrder(m) \/ OrderCancel(m) \/ OrderDelete(m)
           \/ OrderReplace(m) \/ OrderReplaceUnresolved(m)
    PROVE  TableIsBook'
<1> DEFINE but == executed \cup lost
<1>1. /\ FeedType /\ TypeInv /\ BookInv /\ TableInv /\ Legal(m)
      /\ OneSide /\ LostShown /\ OrdersKnown
      /\ orders \subseteq Order /\ Shown \subseteq Order
  BY TypeParts DEF BookedInv, Inv, TableInv, Parse, TableOK, FeedType, Shown
<1>2. Agree(orders, Shown, but)
  BY AgreeIsBook DEF BookedInv
<1>3. /\ lost' = lost \cup LostBy(m)
      /\ executed' = executed \cup (IF m.type = "E" THEN {m.ref} ELSE {})
  BY DEF Parse, FeedAfter
<1>4. \A r : r \notin Used => r \notin but
  BY <1>1, UnusedRef DEF BookedInv, ExecutedUsed
<1> SUFFICES Agree(orders', Shown', (executed \cup lost)')
  BY AgreeIsBook DEF TableIsBook, Followed, Agree
<1> HIDE DEF but
<1>5. but \subseteq (executed \cup lost)' /\ LostBy(m) \subseteq (executed \cup lost)'
  BY <1>3 DEF but
<1>6. CASE m.type = "E"
  <2>1. orders' = orders /\ m.ref \in executed'
    BY <1>3, <1>6 DEF StockDirectory, SystemEvent, Skip, Trade, AddOrder, OrderCancel,
                      OrderDelete, OrderReplace, OrderReplaceUnresolved, fillVars
  <2>2. ASSUME NEW o, o.ref # m.ref PROVE o \in Shown' <=> o \in Shown
    <3>1. BookAfter(m) = Without(book, m.ref) \cup UNION {Reduced(q, m.shares) : q \in Live(m.ref)}
      BY <1>6 DEF BookAfter
    <3>2. \A q \in Live(m.ref) : o \notin Reduced(q, m.shares)
      BY <1>1, <1>6, <2>2, MessageFields, ReducedOrder DEF Live, Stored, FeedType
    <3> QED
      BY <2>2, <3>1, <3>2 DEF Parse, FeedAfter, Shown, Without
  <2> QED
    BY <1>2, <1>5, <2>1, <2>2 DEF Agree
<1>7. CASE m.type # "E" /\ (StockDirectory(m) \/ SystemEvent(m) \/ Skip(m) \/ Trade(m))
  <2>1. orders' = orders
    BY <1>7 DEF StockDirectory, SystemEvent, Skip, Trade, fillVars
  <2>2. m.type \notin {"A", "X", "D", "U"}
    BY <1>7 DEF StockDirectory, SystemEvent, Skip, Trade, gpu_relevant, TooLong
  <2>3. Shown' = Shown
    BY <1>1, <1>7, <2>2, ShownAfter
  <2> QED
    BY <1>2, <1>5, <2>1, <2>3 DEF Agree
<1>8. CASE AddOrder(m)
  <2> DEFINE new == [ref |-> m.ref, side |-> m.side, shares |-> m.shares]
  <2>1. m.type = "A" /\ orders' = Insert(orders, new) /\ new.ref \notin Used
    BY <1>1, <1>8 DEF AddOrder, Legal
  <2>2. Shown' = Shown \cup {new}
    BY <1>1, <2>1, ShownAfter
  <2>3. orders' = IF AtLimit THEN orders ELSE orders \cup {new}
    BY <1>1, <2>1, InsertUnused
  <2>4. AtLimit => new.ref \in LostBy(m)
    BY <2>1 DEF LostBy
  <2> QED
    BY <1>2, <1>5, <2>2, <2>3, <2>4 DEF Agree
<1>9. CASE OrderCancel(m)
  <2>1. m.type = "X" /\ orders' = Reduce(orders, m.ref, m.shares)
    BY <1>9 DEF OrderCancel
  <2>2. Shown' = Reduce(Shown, m.ref, m.shares) /\ m.shares \in Shares
    BY <1>1, <2>1, ShownAfter, MessageFields
  <2>3. Agree(orders', Shown', but)
    BY <1>1, <1>2, <2>1, <2>2, AgreeReduced
  <2> QED
    BY <1>5, <2>3 DEF Agree
<1>10. CASE OrderDelete(m)
  <2>1. m.type = "D" /\ orders' = Without(orders, m.ref)
    BY <1>10 DEF OrderDelete
  <2>2. Shown' = Without(Shown, m.ref)
    BY <1>1, <2>1, ShownAfter
  <2> QED
    BY <1>2, <1>5, <2>1, <2>2 DEF Agree, Without
<1>11. CASE OrderReplace(m)
  <2>1. PICK p \in Stored(orders, m.ref) :
          orders' = Without(Insert(orders, [ref |-> m.new, side |-> p.side, shares |-> m.shares]),
                            m.ref)
    BY <1>11 DEF OrderReplace, Replaced
  <2> DEFINE new == [ref |-> m.new, side |-> p.side, shares |-> m.shares]
  <2>2. m.type = "U" /\ new.ref \notin Used
    BY <1>1, <1>11 DEF OrderReplace, Legal
  <2>3. p.side # NoSide /\ <<m.ref, p.side>> \in added
    BY <1>1, <2>1 DEF Stored, OrdersKnown
  <2>4. PICK q \in book : Live(m.ref) = {q} /\ q.ref = m.ref /\ <<m.ref, q.side>> \in added
    BY <1>1, <2>2, ReplacedOrder
  <2>5. q \in Stored(Shown, m.ref) /\ q.side = p.side
    BY <1>1, <2>3, <2>4 DEF OneSide, Shown, Stored
  <2>6. Shown' = Without(Shown, m.ref) \cup {new}
    BY <1>1, <2>2, <2>5, ShownAfter
  <2>7. orders' = Without(IF AtLimit THEN orders ELSE orders \cup {new}, m.ref)
    BY <1>1, <2>1, <2>2, InsertUnused
  <2>8. AtLimit => m.new \in LostBy(m)
    BY <2>2, <2>3, <2>4, <2>5 DEF LostBy, Stray
  <2>9. m.new # m.ref
    BY <2>2, <2>3, UsedRef
  <2> QED
    BY <1>2, <1>5, <2>6, <2>7, <2>8, <2>9 DEF Agree, Without
<1>12. CASE OrderReplaceUnresolved(m)
  <2>1. m.type = "U" /\ orders' = orders /\ Stored(orders, m.ref) = {}
    BY <1>12 DEF OrderReplaceUnresolved
  <2>2. ASSUME NEW o \in Stored(Shown, m.ref)
        PROVE  m.ref \in lost /\ m.new \in LostBy(m)
               /\ Shown' = Without(Shown, m.ref)
                           \cup {[ref |-> m.new, side |-> o.side, shares |-> m.shares]}
    <3>1. Stray(m) \/ m.ref \in lost
      BY <1>1, <2>1, MissExact
    <3>2. PICK q \in book : Live(m.ref) = {q} /\ (Stray(m) <=> q.side = NoSide)
      BY <1>1, <2>1, ReplacedOrder
    <3>3. o = q /\ o.side # NoSide
      BY <3>2 DEF Stored, Shown, Live
    <3>4. ~Stray(m) /\ m.ref \in lost
      BY <3>1, <3>2, <3>3
    <3> QED
      BY <1>1, <2>1, <3>4, ShownAfter DEF LostBy
  <2>3. CASE Stored(Shown, m.ref) = {}
    <3>1. Shown' = Shown
      BY <1>1, <2>1, <2>3, ShownAfter
    <3> QED
      BY <1>2, <1>5, <2>1, <3>1 DEF Agree
  <2>4. ASSUME NEW o \in Stored(Shown, m.ref)
        PROVE  Agree(orders', Shown', (executed \cup lost)')
    <3>1. m.ref \in but
      BY <2>2, <2>4 DEF but
    <3> QED
      BY <1>2, <1>5, <2>1, <2>2, <2>4, <3>1 DEF Agree, Without
  <2> QED
    BY <2>3, <2>4
<1> QED
  BY <1>6, <1>7, <1>8, <1>9, <1>10, <1>11, <1>12
     DEF StockDirectory, SystemEvent, Skip, Trade

\* Every step keeps the table the book.
LEMMA NextBook == BookedInv /\ [Next]_assemblerVars => BookedInv'
<1> SUFFICES ASSUME BookedInv, [Next]_assemblerVars PROVE BookedInv'
  OBVIOUS
<1>1. Inv' /\ BookInv
  BY NextInv DEF BookedInv, Inv
<1>2. ASSUME UNCHANGED <<book, added, lost, executed, orders>>
      PROVE  ExecutedUsed' /\ TableIsBook'
  BY <1>2 DEF BookedInv, ExecutedUsed, Used, TableIsBook, Followed, Shown
<1>3. CASE Call \/ Return \/ StreamEnds
  BY <1>1, <1>2, <1>3 DEF BookedInv, Call, Return, StreamEnds, feedVars
<1>4. CASE Iterate
  <2>1. PICK m \in Message :
          /\ Parse(m)
          /\ \/ StockDirectory(m) \/ SystemEvent(m) \/ Skip(m)
             \/ AddOrder(m) \/ OrderCancel(m) \/ OrderDelete(m)
             \/ OrderReplace(m) \/ OrderReplaceUnresolved(m) \/ Trade(m)
    BY <1>4 DEF Iterate
  <2>2. ExecutedUsed'
    BY <1>1, <2>1, ExecutedStep DEF BookedInv
  <2>3. TableIsBook'
    BY <2>1, HandlersBook
  <2> QED
    BY <1>1, <2>2, <2>3 DEF BookedInv
<1>5. CASE UNCHANGED assemblerVars
  BY <1>1, <1>2, <1>5 DEF BookedInv, assemblerVars, fillVars, feedVars
<1> QED
  BY <1>3, <1>4, <1>5 DEF Next, InFill

\* Table and book of the feed are empty at first.
LEMMA InitBook == AssemblerInit => BookedInv
<1> SUFFICES ASSUME AssemblerInit PROVE BookedInv
  OBVIOUS
<1>1. book = OldOrders /\ orders = {} /\ executed = {}
  BY DEF AssemblerInit, FeedInit
<1>2. Shown = {}
  BY <1>1 DEF Shown, OldOrders
<1> QED
  BY <1>1, <1>2, InitInv DEF BookedInv, ExecutedUsed, TableIsBook, Followed

\* Of the orders neither executed nor lost the table holds exactly the live
\* ones of known side, with their shares, after any number of adds, cancels,
\* deletes and replaces.
THEOREM TableStaysBook == Spec => []TableIsBook
<1>1. BookedInv => TableIsBook
  BY DEF BookedInv
<1> QED
  BY <1>1, InitBook, NextBook, PTL DEF Spec
=============================================================================
