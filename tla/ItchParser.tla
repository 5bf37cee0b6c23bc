----------------------------- MODULE ItchParser -----------------------------
(***************************************************************************)
(* ItchParser (src/src/parser/itch_parser): framing of a byte source whose *)
(* reads return any number of bytes.  A byte is its position in the        *)
(* stream, so that the buffer shows which bytes it holds; the first two    *)
(* bytes of a frame hold the length of the rest.  A stream may be cut, or  *)
(* its source may fail, after any byte.                                    *)
(***************************************************************************)
EXTENDS Naturals, Sequences, FiniteSets

CONSTANTS
    NFrames,     \* number of frames of the stream
    Lengths,     \* values of a length prefix
    Types,       \* message types
    TypeOf,      \* the type of each frame's message
    BufBytes,    \* buf_.size()
    MaxBytes     \* bound on the bytes of a stream

ASSUME NFramesAssumption == NFrames \in Nat
ASSUME LengthsAssumption == Lengths \subseteq Nat
ASSUME TypeOfAssumption == TypeOf \in [1..NFrames -> Types]
ASSUME BufBytesAssumption == BufBytes \in Nat /\ BufBytes > 2
ASSUME MaxBytesAssumption == MaxBytes \in Nat

VARIABLES
    starts,      \* where each frame starts in the stream, and where the last ends
    avail,       \* the bytes the source will return before it ends or fails
    fails,       \* the source fails after them, rather than end
    pos,         \* the bytes it has returned
    buf, head_, tail_, eof_, error_, total_, counts_,
    pc,          \* "idle", or which ensure of next is running
    n,           \* the local of next: the length read
    msg,         \* the pointer next returned, as an index into buf; or none
    ended        \* next has returned nullptr

stream == <<starts, avail, fails>>
vars == <<starts, avail, fails, pos, buf, head_, tail_, eof_, error_, total_,
          counts_, pc, n, msg, ended>>

-----------------------------------------------------------------------------
Frame == 1..NFrames
Index == 0..BufBytes-1

Length(k) == starts[k+1] - starts[k] - 2

NoMessage == [at |-> 0, len |-> 0]

\* Every stream of NFrames frames, cut anywhere.
Streams ==
    /\ starts[1] = 0
    /\ \A k \in Frame : \E l \in Lengths : starts[k+1] = starts[k] + 2 + l
    /\ avail \in 0..starts[NFrames+1]
    /\ fails \in BOOLEAN

Reset ==
    /\ pos = 0
    /\ buf = [i \in Index |-> 0]
    /\ head_ = 0 /\ tail_ = 0
    /\ eof_ = FALSE /\ error_ = FALSE
    /\ total_ = 0
    /\ counts_ = [t \in Types |-> 0]
    /\ pc = "idle" /\ n = 0
    /\ msg = NoMessage
    /\ ended = FALSE

Init ==
    /\ starts \in [1..NFrames+1 -> 0..MaxBytes]
    /\ Streams
    /\ Reset

-----------------------------------------------------------------------------
\* next is called: the pointer it returned last is no longer used.
Call ==
    /\ pc = "idle"
    /\ pc' = "prefix"
    /\ msg' = NoMessage
    /\ UNCHANGED <<stream, pos, buf, head_, tail_, eof_, error_, total_, counts_, n, ended>>

\* What the running ensure is asked for.
Want == IF pc = "prefix" THEN 2 ELSE 2 + n

Buffered == tail_ - head_

\* The test of ensure.
\* (Mutation: the prefix is not counted.)
EnoughShort == Buffered + 2 >= Want
Enough      == Buffered >= Want

MustRead == pc # "idle" /\ ~Enough /\ ~eof_ /\ ~error_

\* The unconsumed bytes are moved to the front and r bytes appended to them.
\* (Mutation: the bytes are appended, but nothing is moved.)
Unmoved(r) ==
    [i \in Index |->
        IF Buffered <= i /\ i < Buffered + r THEN pos + (i - Buffered) ELSE buf[i]]
Topped(r) ==
    [i \in Index |->
        IF i < Buffered THEN buf[head_ + i]
        ELSE IF i < Buffered + r THEN pos + (i - Buffered) ELSE buf[i]]

\* One read of the loop of ensure, after the compaction, which changes nothing
\* from the second time on.
Refill(r) ==
    /\ buf' = Topped(r)
    /\ head_' = 0
    /\ tail_' = Buffered + r
    /\ pos' = pos + r
    /\ UNCHANGED <<stream, total_, counts_, pc, n, msg, ended>>

Read ==
    /\ MustRead
    /\ \E r \in 1 .. (BufBytes - Buffered) :
         /\ pos + r <= avail
         /\ Refill(r)
    /\ UNCHANGED <<eof_, error_>>

\* A read returns 0: there are no more bytes, or there is no room for any.
\* (Mutation: 0 is not taken for the end.)
StillOpen == FALSE
AtEnd     == TRUE

ReadNothing ==
    /\ MustRead
    /\ Buffered = BufBytes \/ (pos = avail /\ ~fails)
    /\ Refill(0)
    /\ eof_' = AtEnd
    /\ UNCHANGED error_

ReadFails ==
    /\ MustRead
    /\ Buffered < BufBytes /\ pos = avail /\ fails
    /\ Refill(0)
    /\ error_' = TRUE
    /\ UNCHANGED eof_

\* load_be16 of two bytes; any value if they are not a prefix.
LoadPrefix(p, q, v) ==
    \A k \in Frame : p = starts[k] /\ q = p + 1 => v = Length(k)

ReadPrefix ==
    /\ pc = "prefix" /\ Enough
    /\ \E v \in Lengths \ {0} :
         /\ LoadPrefix(buf[head_], buf[head_ + 1], v)
         /\ n' = v
    /\ pc' = "payload"
    /\ UNCHANGED <<stream, pos, buf, head_, tail_, eof_, error_, total_, counts_, msg, ended>>

ReturnNull ==
    /\ pc' = "idle" /\ n' = 0
    /\ ended' = TRUE
    /\ UNCHANGED <<stream, pos, buf, head_, tail_, total_, counts_, msg>>

\* A zero length ends the session.
\* (Mutation: it is consumed, and not remembered as the end.)
EndMarkerSkipped ==
    /\ pc' = "idle" /\ n' = 0 /\ ended' = TRUE
    /\ head_' = head_ + 2
    /\ UNCHANGED <<stream, pos, buf, tail_, eof_, error_, total_, counts_, msg>>
EndMarker ==
    /\ eof_' = TRUE
    /\ UNCHANGED error_
    /\ ReturnNull

ReadMarker ==
    /\ pc = "prefix" /\ Enough
    /\ LoadPrefix(buf[head_], buf[head_ + 1], 0)
    /\ 0 \in Lengths
    /\ EndMarker

NoPrefix ==
    /\ pc = "prefix" /\ ~Enough /\ (eof_ \/ error_)
    /\ ReturnNull
    /\ UNCHANGED <<eof_, error_>>

\* The prefix promised more bytes than the stream holds.
\* (Mutation: an error also without any byte of the message.)
Promised == error_ \/ Buffered >= 0
Broken   == error_ \/ Buffered > 2

NoPayload ==
    /\ pc = "payload" /\ ~Enough /\ (eof_ \/ error_)
    /\ error_' = Broken
    /\ ReturnNull
    /\ UNCHANGED eof_

\* ++counts_[msg[0]]: the byte at p is the first one of a message of type t.
IsType(p, t) == \E k \in Frame : p = starts[k] + 2 /\ t = TypeOf[k]

Return ==
    /\ pc = "payload" /\ Enough
    /\ msg' = [at |-> head_ + 2, len |-> n]
    /\ head_' = head_ + 2 + n
    /\ total_' = total_ + 1
    /\ counts_' = [t \in Types |-> IF IsType(buf[head_ + 2], t) THEN counts_[t] + 1 ELSE counts_[t]]
    /\ pc' = "idle" /\ n' = 0
    /\ UNCHANGED <<stream, pos, buf, tail_, eof_, error_, ended>>

InCall ==
    \/ Read \/ ReadNothing \/ ReadFails
    \/ ReadPrefix \/ ReadMarker \/ NoPrefix \/ NoPayload \/ Return

Next == Call \/ InCall

\* Every read of the source returns; whether next is called again is up to
\* the caller.
Spec == Init /\ [][Next]_vars /\ WF_vars(InCall)

-----------------------------------------------------------------------------
\* Every variable has its type; what is buffered lies within the buffer.
TypeOK ==
    /\ starts \in [1..NFrames+1 -> 0..MaxBytes]
    /\ avail \in 0..MaxBytes /\ fails \in BOOLEAN
    /\ pos \in 0..avail
    /\ buf \in [Index -> 0..MaxBytes]
    /\ head_ \in 0..BufBytes /\ tail_ \in head_..BufBytes
    /\ eof_ \in BOOLEAN /\ error_ \in BOOLEAN /\ ended \in BOOLEAN
    /\ total_ \in 0..NFrames
    /\ counts_ \in [Types -> Nat]
    /\ pc \in {"idle", "prefix", "payload"}
    /\ n \in Lengths \cup {0}
    /\ msg \in [at : Nat, len : Lengths \cup {0}]

\* The bytes under the pointer the caller holds.
Held == [i \in 1..msg.len |-> buf[msg.at + i - 1]]

Stream == INSTANCE MessageStream WITH delivered <- total_, held <- Held

(***************************************************************************)
(* Whatever the sizes of the reads and wherever the buffer ends, next      *)
(* returns the messages of the stream one by one, each complete and with   *)
(* its own bytes under the pointer until it is called again; and once it   *)
(* has returned nullptr, because of the end, a cut, a failure or a frame   *)
(* that does not fit, it never returns a message again.                    *)
(***************************************************************************)
MessagesAsFramed == Stream!Spec

\* The per-type counts, which the validation script compares with its own,
\* count the messages returned, and not the one the stream was cut in.
CountsExact ==
    \A t \in Types : counts_[t] = Cardinality({k \in 1..total_ : TypeOf[k] = t})

\* The frame at which next has come to its end.
Last == total_ + 1

(***************************************************************************)
(* error() after the end: set if the source failed before the end marker,  *)
(* or if there is more of the last frame than its prefix; never at the end *)
(* marker or between two frames.                                           *)
(***************************************************************************)
ErrorExact ==
    ended =>
        LET marker == Last \in Frame /\ Length(Last) = 0 /\ starts[Last] + 2 <= avail
        IN  error_ <=> ~marker /\ (fails \/ avail > starts[Last] + 2)

\* "Length prefix promised more bytes than the stream holds", the comment on
\* the error of next, and the test "truncated message flags an error": a frame
\* of which the stream holds the prefix, but not all the rest, is an error.
TruncationReported ==
    ended /\ Last \in Frame /\ starts[Last] + 2 <= avail /\ avail < starts[Last + 1]
        => error_

\* next returns from every call.
NextReturns == (pc # "idle") ~> (pc = "idle")
=============================================================================
