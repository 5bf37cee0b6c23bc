--------------------------- MODULE BatchAssembler ---------------------------
(***************************************************************************)
(* BatchAssembler::fill (src/src/pipeline/batch_assembler.cpp), one action *)
(* per iteration of its loop, over the messages MessageStream delivers and *)
(* the set of orders OrderTable describes.                                 *)
(*                                                                         *)
(* The feed is any legal one: the exchange's own orders, book, say which   *)
(* messages can come next.  A message's number in the feed stands for its  *)
(* timestamp.  The locate code is left out: there is one symbol.           *)
(***************************************************************************)
EXTENDS Naturals, Sequences, FiniteSets

CONSTANTS
    Refs,        \* references of the orders added by the feed
    OldRefs,     \* references of orders older than the feed
    MaxShares,   \* bound on the shares of an order
    MaxOrders,   \* the orders the table takes: half its capacity
    MaxLive,     \* bound on the orders of the feed live at one time
    Types,       \* the message types of the feed
    MaxParsed,   \* bound on the messages of the feed
    BATCH_MSGS

ASSUME NumbersAssumption ==
    /\ MaxShares \in Nat \ {0} /\ MaxOrders \in Nat /\ MaxLive \in Nat /\ MaxParsed \in Nat
    /\ BATCH_MSGS \in Nat \ {0}
ASSUME RefsAssumption == IsFiniteSet(Refs) /\ Refs \cap OldRefs = {}

Side    == {"B", "S"}
NoSide  == "unknown"          \* a side tag of 0: of an order the feed does not show
Shares  == 1..MaxShares
AnyRef  == Refs \cup OldRefs
Order   == [ref : AnyRef, side : Side \cup {NoSide}, shares : Shares]

\* A stands for A and F, I for the types the pipeline does not know, E for
\* the executions among them; "long" is a length greater than SLOT_BYTES.
Message ==
    { m \in [type : {"A"}, ref : Refs, side : Side, shares : Shares]
            \cup [type : {"X", "E"}, ref : AnyRef, shares : Shares]
            \cup [type : {"D"}, ref : AnyRef]
            \cup [type : {"U"}, ref : AnyRef, new : Refs, shares : Shares]
            \cup [type : {"P"}, long : BOOLEAN]
            \cup [type : {"S"}, event : {"O", "C"}]
            \cup [type : {"R", "I"}] : m.type \in Types }

VARIABLES
    filling,     \* fill is running
    slots,       \* the n_msgs messages copied so far, with their side tags
    reset_vwap, pending_reset_, unresolved_replaces_, unknown_cancels_,
    orders,      \* orders_
    symbols,     \* the last R message symbols_ was updated with, or 0
    \* the feed
    parsed,      \* total_messages() of the parser
    ended,       \* the parser has returned nullptr
    book,        \* the live orders; one older than the feed has no known side,
                 \* nor has an order that replaces it
    added,       \* every order there has been, by reference and side
    strays,      \* the replaces, and the cancels and deletes, of orders of
                 \* no known side
    lost,        \* the orders the table was too full for, and their replacements
    executed,    \* the orders executed, in part or in full
    losses,      \* the replaces, and the cancels and deletes, of such orders
    shippable,   \* the numbers of the messages for the GPU
    opens,       \* the numbers of the market opens
    listings     \* the numbers of the R messages

fillVars == <<filling, slots, reset_vwap, pending_reset_, unresolved_replaces_,
              unknown_cancels_, orders, symbols>>
feedVars == <<parsed, ended, book, added, strays, lost, executed, losses, shippable, opens, listings>>
assemblerVars == <<fillVars, feedVars>>

-----------------------------------------------------------------------------
\* The feed.

Used    == {a[1] : a \in added}
Stored(tab, r) == {o \in tab : o.ref = r}
Live(r) == Stored(book, r)
Shown   == {o \in book : o.side # NoSide}

Reduced(o, k) == IF o.shares <= k THEN {} ELSE {[o EXCEPT !.shares = @ - k]}

Without(tab, r) == {o \in tab : o.ref # r}

\* Messages about an order come while it is live, and take no more shares than
\* it has; new references have never been used.
Legal(m) ==
    /\ m.type = "A" => m.ref \notin Used /\ Cardinality(Shown) < MaxLive
    /\ m.type = "U" => m.new \notin Used
    /\ m.type \in {"X", "E", "D", "U"} => Live(m.ref) # {}
    /\ m.type \in {"X", "E"} => \A o \in Live(m.ref) : m.shares <= o.shares

\* What the message does at the exchange.
BookAfter(m) ==
    CASE m.type = "A"          -> book \cup {[ref |-> m.ref, side |-> m.side, shares |-> m.shares]}
      [] m.type \in {"X", "E"} -> Without(book, m.ref) \cup UNION {Reduced(o, m.shares) : o \in Live(m.ref)}
      [] m.type = "D"          -> Without(book, m.ref)
      [] m.type = "U"          -> Without(book, m.ref)
                                  \cup {[ref |-> m.new, side |-> o.side, shares |-> m.shares] : o \in Live(m.ref)}
      [] OTHER                 -> book

gpu_relevant(m) == m.type \in {"A", "X", "D", "U", "P"}
TooLong(m)      == m.type = "P" /\ m.long
Open(m)         == m.type = "S" /\ m.event = "O"

Stray(m) == m.type \in {"X", "D", "U"} /\ \E o \in Live(m.ref) : o.side = NoSide

\* The order of known side that m brings, if the table is at its limit when m
\* comes, or never held the order it replaces.
AtLimit == Cardinality(orders) + 1 > MaxOrders
LostBy(m) ==
    CASE m.type = "A" /\ AtLimit -> {m.ref}
      [] m.type = "U" /\ ~Stray(m) /\ (AtLimit \/ m.ref \in lost) -> {m.new}
      [] OTHER -> {}

OfLost(m) == m.type \in {"X", "D", "U"} /\ m.ref \in lost

\* A count of replaces, and one of cancels and deletes, after one more of m.
Counting(count, m) ==
    [replace |-> count.replace + (IF m.type = "U" THEN 1 ELSE 0),
     cancel  |-> count.cancel + (IF m.type # "U" THEN 1 ELSE 0)]

OldOrders == [ref : OldRefs, side : {NoSide}, shares : {MaxShares}]

FeedInit ==
    /\ parsed = 0 /\ ended = FALSE
    /\ book = OldOrders /\ added = OldRefs \X {NoSide}
    /\ strays = [replace |-> 0, cancel |-> 0]
    /\ lost = {} /\ executed = {} /\ losses = [replace |-> 0, cancel |-> 0]
    /\ shippable = {} /\ opens = {} /\ listings = {}

FeedAfter(m) ==
    /\ parsed' = parsed + 1
    /\ book' = BookAfter(m)
    /\ added' = added \cup {<<o.ref, o.side>> : o \in BookAfter(m)}
    /\ strays' = IF Stray(m) THEN Counting(strays, m) ELSE strays
    /\ lost' = lost \cup LostBy(m)
    /\ executed' = executed \cup (IF m.type = "E" THEN {m.ref} ELSE {})
    /\ losses' = IF OfLost(m) THEN Counting(losses, m) ELSE losses
    /\ shippable' = shippable \cup (IF gpu_relevant(m) /\ ~TooLong(m) THEN {parsed + 1} ELSE {})
    /\ opens' = opens \cup (IF Open(m) THEN {parsed + 1} ELSE {})
    /\ listings' = listings \cup (IF m.type = "R" THEN {parsed + 1} ELSE {})
    /\ UNCHANGED ended

\* parser_.next(&len) returns message m.
Parse(m) ==
    /\ ~ended /\ parsed < MaxParsed
    /\ Legal(m)
    /\ FeedAfter(m)

-----------------------------------------------------------------------------
\* The calls of orders_, as OrderTable describes them.

Insert(tab, o) ==
    IF Cardinality(tab) + 1 > MaxOrders \/ Stored(tab, o.ref) # {} THEN tab ELSE tab \cup {o}

\* (Mutation: any cancel erases the order.)
ReduceToNothing(tab, r, k) == Without(tab, r)
Reduce(tab, r, k) == Without(tab, r) \cup UNION {Reduced(o, k) : o \in Stored(tab, r)}

-----------------------------------------------------------------------------
AssemblerInit ==
    /\ filling = FALSE
    /\ slots = <<>>
    /\ reset_vwap = FALSE /\ pending_reset_ = FALSE
    /\ unresolved_replaces_ = 0 /\ unknown_cancels_ = 0
    /\ orders = {}
    /\ symbols = 0
    /\ FeedInit

\* fill takes over the market open the last call was cut at.
Call ==
    /\ ~filling
    /\ filling' = TRUE
    /\ slots' = <<>>
    /\ reset_vwap' = pending_reset_
    /\ pending_reset_' = FALSE
    /\ UNCHANGED <<unresolved_replaces_, unknown_cancels_, orders, symbols, feedVars>>

\* The condition of the loop.
\* (Mutation: it is off by one.)
RoomForOneMore == filling /\ Len(slots) <= BATCH_MSGS
Room           == filling /\ Len(slots) < BATCH_MSGS

Return ==
    /\ filling
    /\ Len(slots) = BATCH_MSGS
    /\ filling' = FALSE
    /\ UNCHANGED <<slots, reset_vwap, pending_reset_, unresolved_replaces_,
                   unknown_cancels_, orders, symbols, feedVars>>

\* parser_.next(&len) returns nullptr.
StreamEnds ==
    /\ Room
    /\ filling' = FALSE
    /\ ended' = TRUE
    /\ UNCHANGED <<slots, reset_vwap, pending_reset_, unresolved_replaces_,
                   unknown_cancels_, orders, symbols,
                   parsed, book, added, strays, lost, executed, losses, shippable,
                   opens, listings>>

\* symbols_.update
\* (Mutation: only between batches.)
UpdateFirst == IF slots = <<>> THEN parsed + 1 ELSE symbols
Update      == parsed + 1

StockDirectory(m) ==
    /\ m.type = "R"
    /\ symbols' = Update
    /\ UNCHANGED <<filling, slots, reset_vwap, pending_reset_, unresolved_replaces_,
                   unknown_cancels_, orders>>

\* The market open precedes the first message of a batch: it flags this one
\* if it is empty, and otherwise cuts it and flags the next one.
\* (Mutations: it flags this one in any case; it cuts an empty one as well.)
FlagsAlways ==
    /\ reset_vwap' = TRUE
    /\ UNCHANGED <<pending_reset_, filling>>
CutsAlways ==
    /\ pending_reset_' = TRUE
    /\ filling' = FALSE
    /\ UNCHANGED reset_vwap
FlagsOrCuts ==
    IF slots = <<>>
    THEN reset_vwap' = TRUE /\ UNCHANGED <<pending_reset_, filling>>
    ELSE pending_reset_' = TRUE /\ filling' = FALSE /\ UNCHANGED reset_vwap

SystemEvent(m) ==
    /\ m.type = "S"
    /\ IF Open(m) THEN FlagsOrCuts ELSE UNCHANGED <<reset_vwap, pending_reset_, filling>>
    /\ UNCHANGED <<slots, unresolved_replaces_, unknown_cancels_, orders, symbols>>

Skip(m) ==
    /\ m.type \notin {"R", "S"}
    /\ ~gpu_relevant(m) \/ TooLong(m)
    /\ UNCHANGED fillVars

\* The message is copied into the next slot, a replace with its side tag.
Ship(m, side_tag) ==
    /\ slots' = Append(slots, [at |-> parsed', msg |-> m, tag |-> side_tag])
    /\ UNCHANGED <<filling, reset_vwap, pending_reset_, symbols>>

AddOrder(m) ==
    /\ m.type = "A"
    /\ orders' = Insert(orders, [ref |-> m.ref, side |-> m.side, shares |-> m.shares])
    /\ Ship(m, NoSide)
    /\ UNCHANGED <<unresolved_replaces_, unknown_cancels_>>

\* A cancel or delete of an order that is not in the table is counted.
Miss(tab, r) == IF Stored(tab, r) = {} THEN 1 ELSE 0

OrderCancel(m) ==
    /\ m.type = "X"
    /\ unknown_cancels_' = unknown_cancels_ + Miss(orders, m.ref)
    /\ orders' = Reduce(orders, m.ref, m.shares)
    /\ Ship(m, NoSide)
    /\ UNCHANGED unresolved_replaces_

OrderDelete(m) ==
    /\ m.type = "D"
    /\ unknown_cancels_' = unknown_cancels_ + Miss(orders, m.ref)
    /\ orders' = Without(orders, m.ref)
    /\ Ship(m, NoSide)
    /\ UNCHANGED unresolved_replaces_

\* The replacement inherits the side of the original and is inserted before
\* the original is erased.
\* (Mutations: the original is not erased; the replacement is not inserted.)
KeepOriginal(o, m) == Insert(orders, [ref |-> m.new, side |-> o.side, shares |-> m.shares])
DropReplacement(o, m) == Without(orders, m.ref)
Replaced(o, m) ==
    Without(Insert(orders, [ref |-> m.new, side |-> o.side, shares |-> m.shares]), m.ref)

OrderReplace(m) ==
    /\ m.type = "U"
    /\ \E o \in Stored(orders, m.ref) :
         /\ orders' = Replaced(o, m)
         /\ Ship(m, o.side)
    /\ UNCHANGED <<unresolved_replaces_, unknown_cancels_>>

OrderReplaceUnresolved(m) ==
    /\ m.type = "U"
    /\ Stored(orders, m.ref) = {}
    /\ unresolved_replaces_' = unresolved_replaces_ + 1
    /\ Ship(m, NoSide)
    /\ UNCHANGED <<unknown_cancels_, orders>>

\* P and Q: hidden orders and crosses, of which the table knows nothing.
Trade(m) ==
    /\ m.type = "P" /\ ~TooLong(m)
    /\ Ship(m, NoSide)
    /\ UNCHANGED <<unresolved_replaces_, unknown_cancels_, orders>>

\* One iteration of the loop of fill.
Iterate ==
    /\ Room
    /\ \E m \in Message :
         /\ Parse(m)
         /\ \/ StockDirectory(m) \/ SystemEvent(m) \/ Skip(m)
            \/ AddOrder(m) \/ OrderCancel(m) \/ OrderDelete(m)
            \/ OrderReplace(m) \/ OrderReplaceUnresolved(m) \/ Trade(m)

InFill == Iterate \/ Return \/ StreamEnds

Next == Call \/ InFill

Spec == AssemblerInit /\ [][Next]_assemblerVars

-----------------------------------------------------------------------------
SlotType == [at : 1..MaxParsed, msg : Message, tag : Side \cup {NoSide}]

\* Every variable has its type; a batch never outgrows its buffer, nor the
\* orders their table.
TypeOK ==
    /\ filling \in BOOLEAN
    /\ slots \in Seq(SlotType) /\ Len(slots) <= BATCH_MSGS
    /\ reset_vwap \in BOOLEAN /\ pending_reset_ \in BOOLEAN
    /\ unresolved_replaces_ \in 0..parsed /\ unknown_cancels_ \in 0..parsed
    /\ orders \subseteq Order /\ Cardinality(orders) <= MaxOrders
    /\ symbols \in 0..parsed
    /\ parsed \in 0..MaxParsed /\ ended \in BOOLEAN
    /\ book \subseteq Order
    /\ added \subseteq AnyRef \X (Side \cup {NoSide})
    /\ strays \in [replace : 0..parsed, cancel : 0..parsed]
    /\ lost \subseteq Refs /\ executed \subseteq AnyRef
    /\ losses \in [replace : 0..parsed, cancel : 0..parsed]
    /\ shippable \subseteq 1..parsed /\ opens \subseteq 1..parsed
    /\ listings \subseteq 1..parsed

(***************************************************************************)
(* Whatever the table refuses, and although it never hears of executions,  *)
(* it holds every live order the feed shows, with its side and at least    *)
(* its shares, unless the table was at its limit when the order came, or   *)
(* when one it replaces did.  In particular a replacement is entered       *)
(* before its original is erased, and no cancel erases an order early.     *)
(***************************************************************************)
Held(o) == \E p \in orders : p.ref = o.ref /\ p.side = o.side /\ p.shares >= o.shares

OrdersHeld == \A o \in Shown : o.ref \in lost \/ Held(o)

(***************************************************************************)
(* A replace is never shipped with a wrong side: its tag is the side of    *)
(* the order it replaces, whether that was added or is itself a            *)
(* replacement, however often it was cancelled in part, and whatever       *)
(* happened in earlier batches.  The tag is the unknown side only if the   *)
(* order predates the feed or replaces one that does, or was lost.         *)
(***************************************************************************)
TagsResolved ==
    \A i \in DOMAIN slots :
        slots[i].msg.type = "U" =>
            \/ <<slots[i].msg.ref, slots[i].tag>> \in added
            \/ slots[i].tag = NoSide /\ slots[i].msg.ref \in lost

\* unresolved_replaces_ counts, each once, the replaces of orders that predate
\* the feed or replace one that does, and those of lost orders; no others.
UnresolvedExact == unresolved_replaces_ = strays.replace + losses.replace

\* unknown_cancels_ counts the cancels and deletes of just these orders: no
\* other order is missed, or erased too early.
UnknownExact == unknown_cancels_ = strays.cancel + losses.cancel

\* "Replaces whose original order predates the stream are [...] counted
\* (unresolved_replaces in stats)" (README.md), and no others.
UnresolvedPredate == unresolved_replaces_ = strays.replace

(***************************************************************************)
(* The table never hears of executions, and forgets an order only when it  *)
(* is full: leaving out the orders that were executed and those that were  *)
(* lost, it holds exactly the live orders the feed shows, with just their  *)
(* shares, after any chain of adds, cancels, deletes and replaces.         *)
(***************************************************************************)
Followed(tab) == {o \in tab : o.ref \notin executed \cup lost}

TableIsBook == Followed(orders) = Followed(Shown)
=============================================================================
