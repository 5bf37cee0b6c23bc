---------------------------- MODULE BatchKernels ----------------------------
(***************************************************************************)
(* decode_kernel and aggregate_kernel (src/src/cuda), one thread per       *)
(* message, on two batches in flight on two streams, against cpu_aggregate *)
(* (src/src/pipeline/cpu_reference.cpp), one message after the other.      *)
(*                                                                         *)
(* A thread of aggregate_kernel makes one step per atomic.  Arithmetic is  *)
(* that of the accumulators' unsigned types, with small widths.  A slot is *)
(* given by its fields; which of them a message type has is the business   *)
(* of the two switches.                                                    *)
(***************************************************************************)
EXTENDS Naturals, Sequences, FiniteSetsExt

CONSTANTS
    Slots,       \* the slots a batch can hold
    BatchLen,    \* BatchLen[b]: n_msgs of batch b
    MAX_SYMBOLS,
    U32, U64     \* the number of values of uint32_t and of uint64_t

ASSUME WidthsAssumption == U32 \in Nat \ {0} /\ U64 \in Nat \ {0}
ASSUME BatchLenAssumption == BatchLen \in Seq(Nat)
ASSUME SymbolsAssumption == MAX_SYMBOLS \in Nat

\* The fields are unsigned; a price is a load_be32, a quantity at most a load_be64.
ASSUME SlotsAssumption ==
    \A m \in Slots : m.locate \in Nat /\ m.price \in 0..U32-1 /\ m.qty \in 0..U64-1

Batch  == DOMAIN BatchLen
Thread == UNION {{b} \X (1..BatchLen[b]) : b \in Batch}
Symbol == 0..MAX_SYMBOLS-1

BID_EMPTY == 0
ASK_EMPTY == U32 - 1

Cell64 == {"vwap_num", "vwap_den", "buy_vol", "sell_vol", "cancel_shares"}
Cell32 == {"trade_count", "add_count"}
Quote  == {"win_bid", "win_ask"}

\* launch_reset, HostAccum::reset
FreshSymbol ==
    [c \in Cell64 \cup Cell32 \cup Quote |-> IF c = "win_ask" THEN ASK_EMPTY ELSE 0]
FreshAccum == [s \in Symbol |-> FreshSymbol]

VARIABLES
    slot,        \* the raw slots of both batches
    soa,         \* the decoded batches
    pc,          \* per thread: the kernel it is to run or runs
    todo,        \* per thread: the atomics it has still to make
    acc          \* the accumulators

vars == <<slot, soa, pc, todo, acc>>

-----------------------------------------------------------------------------
Undecoded == [type |-> "none", side |-> "0", locate |-> 0, price |-> 0, qty |-> 0]

\* What decode_kernel writes for a slot.
Decoded(m) ==
    [type   |-> m.type,
     side   |-> CASE m.type \in {"A", "F", "P"} -> m.side
                  [] m.type = "U"               -> m.tag
                  [] OTHER                      -> "0",
     locate |-> m.locate,
     price  |-> IF m.type \in {"A", "F", "U", "P", "Q"} THEN m.price ELSE 0,
     qty    |-> IF m.type \in {"A", "F", "U", "X", "P", "Q"} THEN m.qty ELSE 0]

\* The atomics of an aggregate_kernel thread, in program order.
Atomic(c, op, v) == [cell |-> c, op |-> op, val |-> v]

QuoteAtomics(d) ==
    CASE d.side = "B" -> <<Atomic("win_bid", "max", d.price)>>
      [] d.side = "S" -> <<Atomic("win_ask", "min", d.price)>>
      [] OTHER        -> <<>>

VolumeAtomics(d) ==
    CASE d.side = "B" -> <<Atomic("buy_vol", "add", d.qty)>>
      [] d.side = "S" -> <<Atomic("sell_vol", "add", d.qty)>>
      [] OTHER        -> <<>>

TradeAtomics(d) ==
    <<Atomic("vwap_num", "add", d.price * d.qty), Atomic("vwap_den", "add", d.qty),
      Atomic("trade_count", "add", 1)>>

Atomics(d) ==
    IF d.locate >= MAX_SYMBOLS THEN <<>>
    ELSE CASE d.type \in {"A", "F", "U"} -> <<Atomic("add_count", "add", 1)>> \o QuoteAtomics(d)
           [] d.type = "X"               -> <<Atomic("cancel_shares", "add", d.qty)>>
           [] d.type = "P" /\ d.qty # 0  -> TradeAtomics(d) \o VolumeAtomics(d)
           [] d.type = "Q" /\ d.qty # 0  -> TradeAtomics(d)
           [] OTHER                      -> <<>>

\* (Mutation: the narrow counters are as wide as the sums.)
WrappedWide(c, v) == v % U64
Wrapped(c, v) == IF c \in Cell64 THEN v % U64 ELSE v % U32

\* atomicAdd, atomicMax, atomicMin
\* (Mutation: the last quote wins.)
LastQuote(a, old) == IF a.op = "add" THEN Wrapped(a.cell, old + a.val) ELSE a.val
Applied(a, old) ==
    CASE a.op = "add" -> Wrapped(a.cell, old + a.val)
      [] a.op = "max" -> Max({old, a.val})
      [] a.op = "min" -> Min({old, a.val})

Init ==
    /\ slot \in [Thread -> Slots]
    /\ soa = [t \in Thread |-> Undecoded]
    /\ pc = [t \in Thread |-> "decode"]
    /\ todo = [t \in Thread |-> <<>>]
    /\ acc = FreshAccum

Decode(t) ==
    /\ pc[t] = "decode"
    /\ soa' = [soa EXCEPT ![t] = Decoded(slot[t])]
    /\ pc' = [pc EXCEPT ![t] = "decoded"]
    /\ UNCHANGED <<slot, todo, acc>>

\* The aggregate kernel of a batch follows its decode kernel in the stream.
BatchDecoded(b) == \A t \in Thread : t[1] = b => pc[t] # "decode"

StartAggregate(t) ==
    /\ pc[t] = "decoded"
    /\ BatchDecoded(t[1])
    /\ todo' = [todo EXCEPT ![t] = Atomics(soa[t])]
    /\ pc' = [pc EXCEPT ![t] = "aggregate"]
    /\ UNCHANGED <<slot, soa, acc>>

MakeAtomic(t) ==
    /\ todo[t] # <<>>
    /\ LET a == Head(todo[t]) IN
       acc' = [acc EXCEPT ![soa[t].locate][a.cell] = Applied(a, @)]
    /\ todo' = [todo EXCEPT ![t] = Tail(@)]
    /\ UNCHANGED <<slot, soa, pc>>

Done == \A t \in Thread : pc[t] = "aggregate" /\ todo[t] = <<>>

Terminated == Done /\ UNCHANGED vars

Next ==
    \/ \E t \in Thread : Decode(t) \/ StartAggregate(t) \/ MakeAtomic(t)
    \/ Terminated

Spec == Init /\ [][Next]_vars

-----------------------------------------------------------------------------
\* cpu_aggregate, for one slot.

Quoted(sym, side, price) ==
    CASE side = "B" /\ price > sym["win_bid"] -> [sym EXCEPT !["win_bid"] = price]
      [] side = "S" /\ price < sym["win_ask"] -> [sym EXCEPT !["win_ask"] = price]
      [] OTHER -> sym

Plus(sym, c, v) == [sym EXCEPT ![c] = Wrapped(c, @ + v)]

Traded(sym, m) ==
    Plus(Plus(Plus(sym, "vwap_num", m.price * m.qty), "vwap_den", m.qty), "trade_count", 1)

Volumed(sym, m) ==
    CASE m.side = "B" -> Plus(sym, "buy_vol", m.qty)
      [] m.side = "S" -> Plus(sym, "sell_vol", m.qty)
      [] OTHER -> sym

CpuSymbol(sym, m) ==
    CASE m.type \in {"A", "F"} -> Quoted(Plus(sym, "add_count", 1), m.side, m.price)
      [] m.type = "U"          -> Quoted(Plus(sym, "add_count", 1), m.tag, m.price)
      [] m.type = "X"          -> Plus(sym, "cancel_shares", m.qty)
      [] m.type = "P" /\ m.qty # 0 -> Volumed(Traded(sym, m), m)
      [] m.type = "Q" /\ m.qty # 0 -> Traded(sym, m)
      [] OTHER -> sym

CpuMessage(a, m) ==
    IF m.locate >= MAX_SYMBOLS THEN a ELSE [a EXCEPT ![m.locate] = CpuSymbol(@, m)]

cpu_aggregate(b, a) ==
    LET after[i \in 0..BatchLen[b]] ==
          IF i = 0 THEN a ELSE CpuMessage(after[i-1], slot[<<b, i>>])
    IN  after[BatchLen[b]]

\* The batches in the order of the feed.
Reference ==
    LET after[b \in 0..Len(BatchLen)] ==
          IF b = 0 THEN FreshAccum ELSE cpu_aggregate(b, after[b-1])
    IN  after[Len(BatchLen)]

\* Every variable has its type; the accumulators keep to their widths.
TypeOK ==
    /\ slot \in [Thread -> Slots]
    /\ pc \in [Thread -> {"decode", "decoded", "aggregate"}]
    /\ \A t \in Thread : soa[t] \in {Undecoded, Decoded(slot[t])}
    /\ \A s \in Symbol :
         /\ \A c \in Cell64 : acc[s][c] \in 0..U64-1
         /\ \A c \in Cell32 \cup Quote : acc[s][c] \in 0..U32-1

(***************************************************************************)
(* "The GPU accumulators must equal the CPU reference implementation       *)
(* exactly" (README.md), although the messages of both batches are         *)
(* aggregated in any order, an atomic at a time: also when a sum wraps,    *)
(* for a locate code beyond the table, for a quantity of 0, and for a      *)
(* replace without a side.                                                 *)
(***************************************************************************)
BitExact == Done => acc = Reference
=============================================================================
