-------------------------- MODULE ItchParserProofs --------------------------
(***************************************************************************)
(* ItchParser implements MessageStream, and reports errors as ErrorExact   *)
(* says, for every stream, every buffer of more than two bytes and all     *)
(* sizes of the reads.                                                     *)
(*                                                                         *)
(* The invariant says where the parser is in the stream: what is buffered  *)
(* are the bytes from the start of the next frame up to the last one read. *)
(***************************************************************************)
EXTENDS ItchParser, FiniteSetTheorems, TLAPS

\* Where the next frame starts.
Front == starts[Last]

Readable == Stream!Readable(Last)

\* The next frame is the end marker, and the stream holds it.
Marker == Last \in Frame /\ Length(Last) = 0 /\ Front + 2 <= avail

PosInv == pos = Front + Buffered

BytesInv == \A i \in Index : head_ <= i /\ i < tail_ => buf[i] = Front + (i - head_)

CallInv ==
    /\ pc # "idle" => msg = NoMessage
    /\ pc = "payload" =>
         Last \in Frame /\ n = Length(Last) /\ n > 0 /\ Buffered >= 2

HeldInv ==
    msg # NoMessage =>
        /\ total_ \in Frame
        /\ msg.len = Length(total_)
        /\ \A i \in 1..msg.len : buf[msg.at + i - 1] = starts[total_] + 1 + i

\* A frame that does not fit makes ensure take a full buffer for the end.
TooLarge == Last \in Frame /\ Length(Last) + 2 > BufBytes /\ Buffered > 2

EofInv   == eof_ => (pos = avail /\ ~fails) \/ TooLarge \/ Marker
ErrorInv == error_ => ~Readable /\ ~Marker /\ (fails \/ avail > Front + 2)
EndInv   == ended => ~Readable /\ (error_ \/ Marker \/ (~fails /\ avail <= Front + 2))

Inv == /\ TypeOK /\ Streams
       /\ PosInv /\ BytesInv /\ CallInv /\ HeldInv /\ EofInv /\ ErrorInv /\ EndInv

USE NFramesAssumption, LengthsAssumption, TypeOfAssumption, BufBytesAssumption,
    MaxBytesAssumption

-----------------------------------------------------------------------------
\* The frame at hand, in numbers.
LEMMA Numbers ==
    ASSUME TypeOK, Streams
    PROVE  /\ Last \in 1..NFrames+1 /\ Last = total_ + 1 /\ total_ \in Nat
           /\ Front \in Nat
           /\ Last \in Frame =>
                /\ Length(Last) \in Lengths /\ Length(Last) \in Nat
                /\ starts[Last + 1] = Front + 2 + Length(Last)
           /\ Last \notin Frame => avail <= Front
           /\ pos \in Nat /\ avail \in Nat /\ pos <= avail /\ avail <= MaxBytes
           /\ head_ \in Nat /\ tail_ \in Nat /\ head_ <= tail_ /\ tail_ <= BufBytes
           /\ Buffered \in Nat /\ Buffered = tail_ - head_
           /\ n \in Nat
<1>1. Last \in 1..NFrames+1 /\ Last = total_ + 1 /\ total_ \in Nat
  BY DEF TypeOK, Last
<1>2. Front \in Nat
  BY <1>1 DEF TypeOK, Front
<1>3. ASSUME Last \in Frame
      PROVE  /\ Length(Last) \in Lengths /\ Length(Last) \in Nat
             /\ starts[Last + 1] = Front + 2 + Length(Last)
  <2>1. PICK l \in Lengths : starts[Last + 1] = starts[Last] + 2 + l
    BY <1>3 DEF Streams
  <2>2. l \in Nat /\ starts[Last] \in Nat
    BY <1>2 DEF Front
  <2>3. Length(Last) = l
    BY <2>1, <2>2 DEF Length
  <2> QED
    BY <2>1, <2>2, <2>3 DEF Front
<1>4. ASSUME Last \notin Frame PROVE avail <= Front
  <2>1. Last = NFrames + 1
    BY <1>1, <1>4 DEF Frame
  <2>2. avail \in 0..starts[NFrames + 1]
    BY DEF Streams
  <2> QED
    BY <1>2, <2>1, <2>2 DEF Front
<1>5. /\ pos \in Nat /\ avail \in Nat /\ pos <= avail /\ avail <= MaxBytes
      /\ head_ \in Nat /\ tail_ \in Nat /\ head_ <= tail_ /\ tail_ <= BufBytes
      /\ n \in Nat
  BY DEF TypeOK
<1>6. Buffered \in Nat /\ Buffered = tail_ - head_
  BY <1>5 DEF Buffered
<1> QED
  BY <1>1, <1>2, <1>3, <1>4, <1>5, <1>6

\* What makes a frame readable, in numbers.
LEMMA ReadableFrame ==
    ASSUME TypeOK, Streams
    PROVE  Readable <=> /\ Last \in Frame /\ Length(Last) > 0
                        /\ Length(Last) + 2 <= BufBytes
                        /\ Front + 2 + Length(Last) <= avail
BY Numbers DEF Readable, Stream!Readable, Stream!Length, Length, Stream!Frame, Frame

\* A complete frame in the buffer is readable.
LEMMA BufferedReadable ==
    ASSUME Inv, pc = "payload", Enough
    PROVE  Readable
<1>0. TypeOK /\ Streams
  BY DEF Inv
<1>1. Last \in Frame /\ n = Length(Last) /\ n > 0 /\ Buffered >= 2 + n
  BY DEF Inv, CallInv, Enough, Want
<1>2. pos = Front + Buffered
  BY DEF Inv, PosInv
<1> QED
  <2>1. /\ Front \in Nat /\ Buffered \in Nat /\ pos <= avail /\ Buffered <= BufBytes
        /\ avail \in Nat /\ n \in Nat
    BY <1>0, Numbers
  <2>2. Front + 2 + n <= avail /\ n + 2 <= BufBytes
    BY <1>1, <1>2, <2>1
  <2> QED
    BY <1>0, <1>1, <2>2, ReadableFrame

\* A prefix in the buffer is that of the next frame.
LEMMA PrefixLength ==
    ASSUME Inv, pc = "prefix", Enough, NEW v, LoadPrefix(buf[head_], buf[head_ + 1], v)
    PROVE  Last \in Frame /\ v = Length(Last) /\ Buffered >= 2 /\ Front + 2 <= avail
<1>0. TypeOK /\ Streams
  BY DEF Inv
<1>1. Buffered >= 2
  BY DEF Enough, Want
<1>2. pos = Front + Buffered
  BY DEF Inv, PosInv
<1>3. /\ Front \in Nat /\ Buffered \in Nat /\ pos <= avail /\ avail \in Nat
      /\ head_ \in Nat /\ tail_ \in Nat /\ tail_ <= BufBytes /\ Buffered = tail_ - head_
  BY <1>0, Numbers
<1>4. Front + 2 <= avail
  BY <1>1, <1>2, <1>3
<1>5. Last \in Frame
  BY <1>0, <1>3, <1>4, Numbers
<1>6. head_ \in Index /\ head_ + 1 \in Index /\ head_ + 1 < tail_
  BY <1>1, <1>3 DEF Index
<1>7. BytesInv
  BY DEF Inv
<1>8. buf[head_] = Front /\ buf[head_ + 1] = Front + 1
  BY <1>3, <1>6, <1>7 DEF BytesInv
<1> QED
  BY <1>1, <1>4, <1>5, <1>8 DEF LoadPrefix, Front

-----------------------------------------------------------------------------
(***************************************************************************)
(* The reads.                                                              *)
(***************************************************************************)

\* While an ensure runs, its call has not found the frame at hand readable.
LEMMA WaitingFor ==
    ASSUME Inv, MustRead
    PROVE  /\ pc \in {"prefix", "payload"} /\ msg = NoMessage
           /\ ~eof_ /\ ~error_ /\ Buffered < Want
           /\ pc = "prefix" => Want = 2
           /\ pc = "payload" =>
                Want = 2 + Length(Last) /\ Last \in Frame /\ Length(Last) > 0 /\ Buffered >= 2
<1>0. TypeOK /\ Streams /\ CallInv
  BY DEF Inv
<1>1. pc \in {"prefix", "payload"} /\ ~eof_ /\ ~error_ /\ ~(Buffered >= Want)
  BY <1>0 DEF MustRead, Enough, TypeOK
<1>2. Buffered \in Nat /\ n \in Nat
  BY <1>0, Numbers
<1>3. Want \in Nat
  BY <1>2 DEF Want
<1>4. msg = NoMessage
  BY <1>0, <1>1 DEF CallInv
<1>5. pc = "payload" =>
        Want = 2 + Length(Last) /\ Last \in Frame /\ Length(Last) > 0 /\ Buffered >= 2
  BY <1>0 DEF CallInv, Want
<1> QED
  BY <1>1, <1>2, <1>3, <1>4, <1>5 DEF Want

\* What is buffered after a read, and what has not changed.
LEMMA RefillInv ==
    ASSUME Inv, MustRead, NEW r \in 0 .. (BufBytes - Buffered), pos + r <= avail, Refill(r),
           eof_' \in BOOLEAN, error_' \in BOOLEAN
    PROVE  /\ TypeOK' /\ Streams' /\ PosInv' /\ BytesInv' /\ CallInv' /\ HeldInv'
           /\ Front' = Front /\ Buffered' = Buffered + r /\ Last' = Last
           /\ UNCHANGED <<starts, avail, fails, ended>>
<1>0. TypeOK /\ Streams /\ PosInv /\ BytesInv /\ CallInv
  BY DEF Inv
<1>1. /\ Last \in 1..NFrames+1 /\ Front \in Nat /\ pos \in Nat /\ avail \in Nat
      /\ avail <= MaxBytes /\ head_ \in Nat /\ tail_ \in Nat /\ tail_ <= BufBytes
      /\ Buffered \in Nat /\ Buffered = tail_ - head_ /\ r \in Nat
      /\ Buffered + r <= BufBytes
  <2>1. /\ Last \in 1..NFrames+1 /\ Front \in Nat
        /\ pos \in Nat /\ avail \in Nat /\ avail <= MaxBytes
        /\ head_ \in Nat /\ tail_ \in Nat /\ tail_ <= BufBytes
        /\ Buffered \in Nat /\ Buffered = tail_ - head_
    BY <1>0, Numbers, Zenon
  <2>2. BufBytes - Buffered \in Int
    BY <2>1
  <2>3. r \in Nat /\ r <= BufBytes - Buffered
    BY <2>2
  <2>4. Buffered + r <= BufBytes
    BY <2>1, <2>3
  <2> QED
    BY <2>1, <2>3, <2>4
<1>2. /\ buf' = Topped(r) /\ head_' = 0 /\ tail_' = Buffered + r /\ pos' = pos + r
      /\ UNCHANGED <<starts, avail, fails, total_, counts_, pc, n, msg, ended>>
  BY DEF Refill, stream
<1>3. Front' = Front /\ Buffered' = Buffered + r /\ Last' = Last
  BY <1>1, <1>2 DEF Front, Last, Buffered
<1>4. pos = Front + Buffered
  BY <1>0 DEF PosInv
<1>5. ASSUME NEW i \in Index
      PROVE  /\ buf'[i] \in 0..MaxBytes
             /\ i < Buffered + r => buf'[i] = Front + i
  <2>1. buf'[i] = IF i < Buffered THEN buf[head_ + i]
                  ELSE IF i < Buffered + r THEN pos + (i - Buffered) ELSE buf[i]
    BY <1>2 DEF Topped
  <2>2. i \in Nat /\ buf \in [Index -> 0..MaxBytes]
    BY <1>0 DEF Index, TypeOK
  <2>3. CASE i < Buffered
    <3>1. head_ + i \in Index /\ head_ <= head_ + i /\ head_ + i < tail_
      BY <1>1, <2>2, <2>3 DEF Index
    <3>2. buf[head_ + i] = Front + ((head_ + i) - head_)
      BY <1>0, <3>1 DEF BytesInv
    <3> QED
      BY <1>1, <2>1, <2>2, <2>3, <3>1, <3>2
  <2>4. CASE ~(i < Buffered) /\ i < Buffered + r
    BY <1>1, <1>4, <2>1, <2>2, <2>4
  <2>5. CASE ~(i < Buffered) /\ ~(i < Buffered + r)
    BY <1>1, <2>1, <2>2, <2>5
  <2> QED
    BY <2>3, <2>4, <2>5
<1>6. TypeOK'
  <2>1. buf' \in [Index -> 0..MaxBytes]
    BY <1>2, <1>5 DEF Topped
  <2>2. pos' \in 0..avail' /\ head_' \in 0..BufBytes /\ tail_' \in head_'..BufBytes
    BY <1>1, <1>2
  <2> QED
    BY <1>0, <1>2, <2>1, <2>2 DEF TypeOK
<1>7. Streams' /\ PosInv' /\ BytesInv'
  <2>1. Streams'
    BY <1>0, <1>2 DEF Streams
  <2>2. PosInv'
    BY <1>1, <1>2, <1>3, <1>4 DEF PosInv
  <2>3. BytesInv'
    <3>1. \A i \in Index : i < Buffered + r => buf'[i] = Front + (i - 0)
      BY <1>5 DEF Index
    <3> QED
      BY <1>2, <1>3, <3>1 DEF BytesInv
  <2> QED
    BY <2>1, <2>2, <2>3
<1>8. CallInv' /\ HeldInv'
  <2>1. msg' = NoMessage
    BY <1>2, WaitingFor
  <2>2. Length(Last)' = Length(Last)
    BY <1>2, <1>3 DEF Length
  <2>3. CallInv'
    BY <1>0, <1>1, <1>2, <1>3, <2>1, <2>2 DEF CallInv
  <2> QED
    BY <2>1, <2>3 DEF HeldInv
<1> QED
  BY <1>2, <1>3, <1>6, <1>7, <1>8

\* What is known of the frame at hand stays, if the stream and its place in it do.
LEMMA FrameStays ==
    ASSUME Front' = Front, Last' = Last, UNCHANGED <<starts, avail>>
    PROVE  Readable' = Readable /\ Marker' = Marker /\ Length(Last)' = Length(Last)
BY DEF Readable, Stream!Readable, Stream!Length, Marker, Length

\* Where the running ensure has run out of bytes, the frame cannot be had.
LEMMA RanOut ==
    ASSUME Inv, MustRead, pos = avail
    PROVE  /\ ~Readable /\ ~Marker
           /\ pc = "prefix" => avail < Front + 2
<1>0. TypeOK /\ Streams /\ PosInv
  BY DEF Inv
<1>1. /\ Front \in Nat /\ Buffered \in Nat /\ avail \in Nat
      /\ Last \in Frame => Length(Last) \in Nat
  BY <1>0, Numbers
<1>2. avail = Front + Buffered
  BY <1>0 DEF PosInv
<1>3. Readable => /\ Last \in Frame /\ Length(Last) > 0
                  /\ Front + 2 + Length(Last) <= avail
  BY <1>0, ReadableFrame
<1>4. CASE pc = "prefix"
  <2>1. Buffered < 2
    BY <1>4, WaitingFor
  <2> QED
    BY <1>1, <1>2, <1>3, <2>1 DEF Marker
<1>5. CASE pc = "payload"
  <2>1. Buffered < 2 + Length(Last) /\ Length(Last) > 0 /\ Last \in Frame
    BY <1>5, WaitingFor
  <2> QED
    BY <1>1, <1>2, <1>3, <1>5, <2>1 DEF Marker
<1> QED
  BY <1>4, <1>5, WaitingFor

\* A read of some bytes.
LEMMA ReadInv == Inv /\ Read => Inv'
<1> SUFFICES ASSUME Inv, Read PROVE Inv'
  OBVIOUS
<1>0. MustRead /\ UNCHANGED <<eof_, error_>> /\ TypeOK /\ Streams
  BY DEF Read, Inv
<1>1. PICK r \in 1 .. (BufBytes - Buffered) : pos + r <= avail /\ Refill(r)
  BY DEF Read
<1>2. r \in 0 .. (BufBytes - Buffered) /\ Buffered \in Nat
  BY <1>0, <1>1, Numbers
<1>3. eof_' \in BOOLEAN /\ error_' \in BOOLEAN /\ ~eof_' /\ ~error_'
  BY <1>0, WaitingFor DEF TypeOK
<1>4. /\ TypeOK' /\ Streams' /\ PosInv' /\ BytesInv' /\ CallInv' /\ HeldInv'
      /\ Front' = Front /\ Last' = Last /\ UNCHANGED <<starts, avail, fails, ended>>
  BY <1>0, <1>1, <1>2, <1>3, RefillInv
<1>5. EndInv'
  <2>1. Readable' = Readable /\ Marker' = Marker
    BY <1>4, FrameStays
  <2>2. EndInv /\ ~error_
    BY <1>0, WaitingFor DEF Inv
  <2> QED
    BY <1>3, <1>4, <2>1, <2>2 DEF EndInv
<1> QED
  BY <1>3, <1>4, <1>5 DEF Inv, EofInv, ErrorInv

\* A read of nothing, for want of bytes or of room.
LEMMA ReadNothingInv == Inv /\ ReadNothing => Inv'
<1> SUFFICES ASSUME Inv, ReadNothing PROVE Inv'
  OBVIOUS
<1>0. /\ MustRead /\ Refill(0) /\ eof_' = TRUE /\ error_' = error_
      /\ Buffered = BufBytes \/ (pos = avail /\ ~fails)
      /\ TypeOK /\ Streams
  BY DEF ReadNothing, AtEnd, Inv
<1>1. /\ Buffered \in Nat /\ pos \in Nat /\ avail \in Nat /\ pos <= avail
      /\ head_ \in Nat /\ tail_ \in Nat /\ Buffered = tail_ - head_ /\ tail_ <= BufBytes
      /\ Last \in Frame => Length(Last) \in Nat
  BY <1>0, Numbers
<1>2. eof_' \in BOOLEAN /\ error_' \in BOOLEAN /\ ~error_ /\ ~error_'
  BY <1>0, WaitingFor DEF TypeOK
<1>3. 0 \in 0 .. (BufBytes - Buffered) /\ pos + 0 <= avail
  BY <1>1
<1>4. /\ TypeOK' /\ Streams' /\ PosInv' /\ BytesInv' /\ CallInv' /\ HeldInv'
      /\ Front' = Front /\ Last' = Last /\ Buffered' = Buffered + 0
      /\ UNCHANGED <<starts, avail, fails, ended>>
  BY <1>0, <1>2, <1>3, RefillInv
<1>5. Readable' = Readable /\ Marker' = Marker /\ Length(Last)' = Length(Last)
  BY <1>4, FrameStays
<1>6. EofInv'
  <2>1. pos' = pos
    BY <1>0, <1>1 DEF Refill
  <2>2. CASE pos = avail /\ ~fails
    BY <1>4, <2>1, <2>2 DEF EofInv
  <2>3. CASE Buffered = BufBytes
    <3>1. Last \in Frame /\ Length(Last) + 2 > BufBytes /\ Buffered > 2
      BY <1>0, <1>1, <2>3, WaitingFor
    <3>2. TooLarge'
      BY <1>1, <1>4, <1>5, <3>1 DEF TooLarge
    <3> QED
      BY <3>2 DEF EofInv
  <2> QED
    BY <1>0, <2>2, <2>3
<1>7. EndInv'
  <2>1. EndInv
    BY DEF Inv
  <2> QED
    BY <1>2, <1>4, <1>5, <2>1 DEF EndInv
<1> QED
  BY <1>2, <1>4, <1>6, <1>7 DEF Inv, ErrorInv

\* A read that fails.
LEMMA ReadFailsInv == Inv /\ ReadFails => Inv'
<1> SUFFICES ASSUME Inv, ReadFails PROVE Inv'
  OBVIOUS
<1>0. /\ MustRead /\ Refill(0) /\ error_' = TRUE /\ eof_' = eof_
      /\ pos = avail /\ fails
      /\ TypeOK /\ Streams
  BY DEF ReadFails, Inv
<1>1. /\ Buffered \in Nat /\ pos \in Nat
      /\ head_ \in Nat /\ tail_ \in Nat /\ Buffered = tail_ - head_ /\ tail_ <= BufBytes
  BY <1>0, Numbers
<1>2. eof_' \in BOOLEAN /\ error_' \in BOOLEAN /\ ~eof_'
  BY <1>0, WaitingFor DEF TypeOK
<1>3. 0 \in 0 .. (BufBytes - Buffered) /\ pos + 0 <= avail
  BY <1>0, <1>1
<1>4. /\ TypeOK' /\ Streams' /\ PosInv' /\ BytesInv' /\ CallInv' /\ HeldInv'
      /\ Front' = Front /\ Last' = Last
      /\ UNCHANGED <<starts, avail, fails, ended>>
  BY <1>0, <1>2, <1>3, RefillInv
<1>5. Readable' = Readable /\ Marker' = Marker
  BY <1>4, FrameStays
<1>6. ~Readable /\ ~Marker
  BY <1>0, RanOut
<1>7. ErrorInv' /\ EndInv'
  BY <1>0, <1>4, <1>5, <1>6 DEF ErrorInv, EndInv
<1> QED
  BY <1>2, <1>4, <1>7 DEF Inv, EofInv

-----------------------------------------------------------------------------
(***************************************************************************)
(* The steps that read nothing.                                            *)
(***************************************************************************)

\* A step that leaves the stream and the buffer alone.
LEMMA PlaceStays ==
    ASSUME Inv, UNCHANGED <<starts, avail, fails, pos, buf, head_, tail_, total_>>
    PROVE  /\ Streams' /\ PosInv' /\ BytesInv'
           /\ Front' = Front /\ Buffered' = Buffered /\ Last' = Last
           /\ Readable' = Readable /\ Marker' = Marker /\ Length(Last)' = Length(Last)
<1>1. Front' = Front /\ Buffered' = Buffered /\ Last' = Last
  BY DEF Front, Buffered, Last
<1>2. Streams' /\ PosInv' /\ BytesInv'
  BY <1>1 DEF Inv, Streams, PosInv, BytesInv
<1> QED
  BY <1>1, <1>2, FrameStays

\* A call of next.
LEMMA CallStepInv == Inv /\ Call => Inv'
<1> SUFFICES ASSUME Inv, Call PROVE Inv'
  OBVIOUS
<1>1. /\ pc' = "prefix" /\ msg' = NoMessage
      /\ UNCHANGED <<starts, avail, fails, pos, buf, head_, tail_, eof_, error_, total_,
                     counts_, n, ended>>
  BY DEF Call, stream
<1>2. /\ Streams' /\ PosInv' /\ BytesInv'
      /\ Front' = Front /\ Buffered' = Buffered /\ Last' = Last
      /\ Readable' = Readable /\ Marker' = Marker /\ Length(Last)' = Length(Last)
  BY <1>1, PlaceStays
<1>3. TypeOK'
  <2>1. msg' \in [at : Nat, len : Lengths \cup {0}]
    BY <1>1 DEF NoMessage
  <2>2. TypeOK
    BY DEF Inv
  <2> QED
    BY <1>1, <2>1, <2>2 DEF TypeOK
<1>4. CallInv' /\ HeldInv'
  BY <1>1 DEF CallInv, HeldInv
<1>5. EofInv' /\ ErrorInv' /\ EndInv'
  BY <1>1, <1>2 DEF Inv, EofInv, ErrorInv, EndInv, TooLarge
<1> QED
  BY <1>2, <1>3, <1>4, <1>5 DEF Inv

\* The length is read from the prefix.
LEMMA ReadPrefixInv == Inv /\ ReadPrefix => Inv'
<1> SUFFICES ASSUME Inv, ReadPrefix PROVE Inv'
  OBVIOUS
<1>1. PICK v \in Lengths \ {0} : LoadPrefix(buf[head_], buf[head_ + 1], v) /\ n' = v
  BY DEF ReadPrefix
<1>2. /\ pc = "prefix" /\ Enough /\ pc' = "payload"
      /\ UNCHANGED <<starts, avail, fails, pos, buf, head_, tail_, eof_, error_, total_,
                     counts_, msg, ended>>
  BY DEF ReadPrefix, stream
<1>3. Last \in Frame /\ v = Length(Last) /\ Buffered >= 2
  BY <1>1, <1>2, PrefixLength
<1>4. /\ Streams' /\ PosInv' /\ BytesInv'
      /\ Front' = Front /\ Buffered' = Buffered /\ Last' = Last
      /\ Readable' = Readable /\ Marker' = Marker /\ Length(Last)' = Length(Last)
  BY <1>2, PlaceStays
<1>5. TypeOK'
  BY <1>1, <1>2 DEF Inv, TypeOK
<1>6. msg = NoMessage
  BY <1>2 DEF Inv, CallInv
<1>7. CallInv' /\ HeldInv'
  <2>1. v > 0
    BY <1>1
  <2> QED
    BY <1>1, <1>2, <1>3, <1>4, <1>6, <2>1 DEF CallInv, HeldInv
<1>8. EofInv' /\ ErrorInv' /\ EndInv'
  BY <1>2, <1>4 DEF Inv, EofInv, ErrorInv, EndInv, TooLarge
<1> QED
  BY <1>4, <1>5, <1>7, <1>8 DEF Inv

\* nullptr is returned for a frame that cannot be had; error_ may be set.
LEMMA ReturnNullInv ==
    ASSUME Inv, pc # "idle", ReturnNull, eof_' \in BOOLEAN, error_' \in BOOLEAN,
           ~Readable,
           eof_' => eof_ \/ Marker,
           error_' => error_ \/ (~Marker /\ avail > Front + 2),
           error_' \/ Marker \/ (~fails /\ avail <= Front + 2)
    PROVE  Inv'
<1>1. /\ pc' = "idle" /\ n' = 0 /\ ended' = TRUE
      /\ UNCHANGED <<starts, avail, fails, pos, buf, head_, tail_, total_, counts_, msg>>
  BY DEF ReturnNull, stream
<1>2. /\ Streams' /\ PosInv' /\ BytesInv'
      /\ Front' = Front /\ Buffered' = Buffered /\ Last' = Last
      /\ Readable' = Readable /\ Marker' = Marker /\ Length(Last)' = Length(Last)
  BY <1>1, PlaceStays
<1>3. TypeOK'
  BY <1>1 DEF Inv, TypeOK
<1>4. msg = NoMessage
  BY DEF Inv, CallInv
<1>5. CallInv' /\ HeldInv'
  BY <1>1, <1>4 DEF CallInv, HeldInv
<1>6. EofInv'
  BY <1>1, <1>2 DEF Inv, EofInv, TooLarge
<1>7. ErrorInv'
  BY <1>1, <1>2 DEF Inv, ErrorInv
<1>8. EndInv'
  BY <1>1, <1>2 DEF EndInv
<1> QED
  BY <1>2, <1>3, <1>5, <1>6, <1>7, <1>8 DEF Inv

\* The three ways nullptr is returned leave the frame unreadable.
LEMMA NullUnreadable == Inv /\ (ReadMarker \/ NoPrefix \/ NoPayload) => ~Readable /\ Inv'
<1> SUFFICES ASSUME Inv, ReadMarker \/ NoPrefix \/ NoPayload PROVE ~Readable /\ Inv'
  OBVIOUS
<1>0. TypeOK /\ Streams /\ PosInv /\ CallInv /\ EofInv /\ ErrorInv
  BY DEF Inv
<1>1. /\ Front \in Nat /\ Buffered \in Nat /\ pos \in Nat /\ avail \in Nat /\ pos <= avail
      /\ Last \in Frame => Length(Last) \in Nat
      /\ pos = Front + Buffered
  BY <1>0, Numbers DEF PosInv
<1>2. Readable <=> /\ Last \in Frame /\ Length(Last) > 0
                   /\ Length(Last) + 2 <= BufBytes
                   /\ Front + 2 + Length(Last) <= avail
  BY <1>0, ReadableFrame
<1>3. eof_ \in BOOLEAN /\ error_ \in BOOLEAN
  BY <1>0 DEF TypeOK
<1>4. CASE ReadMarker
  <2>1. /\ pc = "prefix" /\ Enough /\ LoadPrefix(buf[head_], buf[head_ + 1], 0)
        /\ eof_' = TRUE /\ error_' = error_ /\ ReturnNull
    BY <1>4 DEF ReadMarker, EndMarker
  <2>2. Marker
    BY <2>1, PrefixLength DEF Marker
  <2>3. ~Readable
    BY <1>2, <2>2 DEF Marker
  <2> QED
    BY <1>3, <2>1, <2>2, <2>3, ReturnNullInv
<1>5. CASE NoPrefix
  <2>1. /\ pc = "prefix" /\ ~(Buffered >= 2) /\ (eof_ \/ error_)
        /\ eof_' = eof_ /\ error_' = error_ /\ ReturnNull
    BY <1>5 DEF NoPrefix, Enough, Want
  <2>2. ~TooLarge
    BY <1>1, <2>1 DEF TooLarge
  <2>3. pos = avail => avail < Front + 2
    BY <1>1, <2>1
  <2>4. ~Readable
    <3>1. CASE error_
      BY <1>0, <3>1 DEF ErrorInv
    <3>2. CASE eof_ /\ pos = avail
      BY <1>1, <1>2, <2>3, <3>2
    <3>3. CASE Marker
      BY <1>2, <3>3 DEF Marker
    <3> QED
      BY <1>0, <2>1, <2>2, <3>1, <3>2, <3>3 DEF EofInv
  <2>5. error_' \/ Marker \/ (~fails /\ avail <= Front + 2)
    <3>1. CASE error_
      BY <2>1, <3>1
    <3>2. CASE ~error_
      <4>1. (pos = avail /\ ~fails) \/ Marker
        BY <1>0, <2>1, <2>2, <3>2 DEF EofInv
      <4> QED
        BY <1>1, <2>3, <4>1
    <3> QED
      BY <3>1, <3>2
  <2> QED
    BY <1>3, <2>1, <2>4, <2>5, ReturnNullInv
<1>6. CASE NoPayload
  <2>1. /\ pc = "payload" /\ ~Enough /\ (eof_ \/ error_)
        /\ eof_' = eof_ /\ error_' = (error_ \/ Buffered > 2) /\ ReturnNull
    BY <1>6 DEF NoPayload, Broken
  <2>2. Last \in Frame /\ Length(Last) > 0 /\ Buffered >= 2 /\ n = Length(Last)
    BY <1>0, <2>1 DEF CallInv
  <2>3. ~(Buffered >= 2 + Length(Last))
    BY <2>1, <2>2 DEF Enough, Want
  <2>4. ~Marker
    BY <2>2 DEF Marker
  <2>5. ~Readable
    <3>1. CASE error_
      BY <1>0, <3>1 DEF ErrorInv
    <3>2. CASE eof_ /\ pos = avail
      BY <1>1, <1>2, <2>2, <2>3, <3>2
    <3>3. CASE TooLarge
      BY <1>1, <1>2, <3>3 DEF TooLarge
    <3> QED
      BY <1>0, <2>1, <2>4, <3>1, <3>2, <3>3 DEF EofInv
  <2>6. error_' => error_ \/ (~Marker /\ avail > Front + 2)
    <3>1. Buffered > 2 => avail > Front + 2
      BY <1>1
    <3> QED
      BY <2>1, <2>4, <3>1, Zenon
  <2>7. error_' \/ Marker \/ (~fails /\ avail <= Front + 2)
    <3>1. CASE error_ \/ Buffered > 2
      BY <2>1, <3>1
    <3>2. CASE ~(error_ \/ Buffered > 2)
      <4>1. pos = avail /\ ~fails
        BY <1>0, <2>1, <2>4, <3>2 DEF EofInv, TooLarge
      <4> QED
        BY <1>1, <3>2, <4>1
    <3> QED
      BY <3>1, <3>2
  <2>8. error_' \in BOOLEAN
    BY <2>1
  <2> QED
    BY <1>3, <2>1, <2>5, <2>6, <2>7, <2>8, ReturnNullInv
<1> QED
  BY <1>4, <1>5, <1>6

\* The message returned is the next one, and the parser is then at the frame
\* after it.
LEMMA ReturnInv ==
    Inv /\ Return => /\ Inv'
                     /\ ~ended /\ Readable /\ Last = total_ + 1 /\ msg = NoMessage
                     /\ msg'.len = Length(Last)
                     /\ \A i \in 1..msg'.len : buf'[msg'.at + i - 1] = starts[Last] + 1 + i
<1> SUFFICES ASSUME Inv, Return
             PROVE  /\ Inv'
                    /\ ~ended /\ Readable /\ Last = total_ + 1 /\ msg = NoMessage
                    /\ msg'.len = Length(Last)
                    /\ \A i \in 1..msg'.len : buf'[msg'.at + i - 1] = starts[Last] + 1 + i
  OBVIOUS
<1>0. /\ TypeOK /\ Streams /\ PosInv /\ BytesInv /\ CallInv /\ EofInv /\ ErrorInv /\ EndInv
  BY DEF Inv
<1>1. /\ pc = "payload" /\ Enough
      /\ msg' = [at |-> head_ + 2, len |-> n]
      /\ head_' = head_ + 2 + n /\ total_' = total_ + 1
      /\ pc' = "idle" /\ n' = 0
      /\ UNCHANGED <<starts, avail, fails, pos, buf, tail_, eof_, error_, ended>>
  BY DEF Return, stream
<1>2. /\ Last \in Frame /\ n = Length(Last) /\ n > 0 /\ msg = NoMessage
      /\ Buffered >= 2 + n
  BY <1>0, <1>1 DEF CallInv, Enough, Want
<1>3. /\ Front \in Nat /\ Buffered \in Nat /\ pos \in Nat /\ avail \in Nat /\ pos <= avail
      /\ head_ \in Nat /\ tail_ \in Nat /\ tail_ <= BufBytes /\ Buffered = tail_ - head_
      /\ n \in Nat /\ total_ \in Nat /\ Last = total_ + 1
      /\ starts[Last + 1] = Front + 2 + Length(Last)
      /\ pos = Front + Buffered /\ n \in Lengths
  BY <1>0, <1>2, Numbers DEF PosInv
<1>4. Readable /\ ~ended /\ ~error_
  <2>1. Readable
    BY <1>1, BufferedReadable
  <2> QED
    BY <1>0, <2>1 DEF ErrorInv, EndInv
<1>5. eof_ => pos = avail /\ ~fails
  <2>1. ~Marker
    BY <1>2, <1>3 DEF Marker
  <2>2. ~TooLarge
    <3>1. ~(n + 2 > BufBytes)
      BY <1>2, <1>3
    <3> QED
      BY <1>2, <3>1 DEF TooLarge
  <2> QED
    BY <1>0, <2>1, <2>2 DEF EofInv
<1>6. Last' = Last + 1 /\ Front' = Front + 2 + n
  <2>1. Last' = Last + 1
    BY <1>1, <1>3 DEF Last
  <2>2. Front' = starts[Last + 1]
    BY <1>1, <2>1 DEF Front
  <2> QED
    BY <1>2, <1>3, <2>1, <2>2
<1>7. Buffered' = tail_ - (head_ + 2 + n)
  BY <1>1 DEF Buffered
<1>8. msg'.len = n /\ msg'.at = head_ + 2
  BY <1>1
<1>9. \A i \in 1..n : buf[head_ + 2 + i - 1] = Front + 1 + i
  <2> SUFFICES ASSUME NEW i \in 1..n PROVE buf[head_ + 2 + i - 1] = Front + 1 + i
    OBVIOUS
  <2>1. i \in Nat /\ 1 <= i /\ i <= n
    BY <1>3
  <2>2. head_ + 2 + i - 1 \in Nat /\ head_ <= head_ + 2 + i - 1 /\ head_ + 2 + i - 1 < tail_
    BY <1>2, <1>3, <2>1
  <2>3. head_ + 2 + i - 1 \in Index
    BY <1>3, <2>2 DEF Index
  <2>4. buf[head_ + 2 + i - 1] = Front + ((head_ + 2 + i - 1) - head_)
    BY <1>0, <2>2, <2>3 DEF BytesInv
  <2> QED
    BY <1>3, <2>1, <2>4
<1>10. \A i \in 1..msg'.len : buf'[msg'.at + i - 1] = starts[Last] + 1 + i
  BY <1>1, <1>8, <1>9 DEF Front
<1>11. TypeOK'
  <2>1. total_' \in 0..NFrames
    BY <1>1, <1>2, <1>3 DEF Frame
  <2>2. head_' \in 0..BufBytes /\ tail_' \in head_'..BufBytes
    BY <1>1, <1>2, <1>3
  <2>3. msg' \in [at : Nat, len : Lengths \cup {0}]
    BY <1>1, <1>3
  <2>4. counts_' \in [Types -> Nat]
    <3>1. counts_' = [t \in Types |-> IF IsType(buf[head_ + 2], t) THEN counts_[t] + 1 ELSE counts_[t]]
      BY DEF Return
    <3>2. counts_ \in [Types -> Nat]
      BY <1>0 DEF TypeOK
    <3> QED
      BY <3>1, <3>2
  <2> QED
    BY <1>0, <1>1, <2>1, <2>2, <2>3, <2>4 DEF TypeOK
<1>12. Streams'
  BY <1>0, <1>1 DEF Streams
<1>13. PosInv'
  BY <1>1, <1>3, <1>6, <1>7 DEF PosInv
<1>14. BytesInv'
  <2> SUFFICES ASSUME NEW i \in Index, head_' <= i, i < tail_'
               PROVE  buf'[i] = Front' + (i - head_')
    BY DEF BytesInv
  <2>1. i \in Nat /\ head_ <= i /\ i < tail_
    BY <1>1, <1>3 DEF Index
  <2>2. buf[i] = Front + (i - head_)
    BY <1>0, <2>1 DEF BytesInv
  <2> QED
    BY <1>1, <1>3, <1>6, <2>1, <2>2
<1>15. CallInv' /\ HeldInv'
  <2>1. CallInv'
    BY <1>1 DEF CallInv
  <2>2. total_' \in Frame
    BY <1>1, <1>2, <1>3
  <2>3. Length(total_)' = n
    BY <1>1, <1>2, <1>3 DEF Length
  <2>4. starts'[total_'] = starts[Last]
    BY <1>1, <1>3
  <2> QED
    BY <1>8, <1>10, <2>1, <2>2, <2>3, <2>4 DEF HeldInv
<1>16. EofInv' /\ ErrorInv' /\ EndInv'
  BY <1>1, <1>4, <1>5 DEF EofInv, ErrorInv, EndInv
<1>17. Inv'
  BY <1>11, <1>12, <1>13, <1>14, <1>15, <1>16 DEF Inv
<1> QED
  BY <1>2, <1>3, <1>4, <1>8, <1>10, <1>17

\* Every step keeps the invariant.
LEMMA NextInv == Inv /\ [Next]_vars => Inv'
<1> SUFFICES ASSUME Inv, [Next]_vars PROVE Inv'
  OBVIOUS
<1>1. CASE Next
  BY <1>1, ReadInv, ReadNothingInv, ReadFailsInv, CallStepInv, ReadPrefixInv,
     NullUnreadable, ReturnInv DEF Next, InCall
<1>2. CASE UNCHANGED vars
  <2>1. UNCHANGED <<starts, avail, fails, pos, buf, head_, tail_, eof_, error_, total_,
                    counts_, pc, n, msg, ended>>
    BY <1>2 DEF vars
  <2>2. /\ Streams' /\ PosInv' /\ BytesInv' /\ Buffered' = Buffered
        /\ Front' = Front /\ Last' = Last
        /\ Readable' = Readable /\ Marker' = Marker /\ Length(Last)' = Length(Last)
    BY <2>1, PlaceStays
  <2>3. TypeOK'
    BY <2>1 DEF Inv, TypeOK
  <2>4. CallInv' /\ HeldInv'
    BY <2>1, <2>2 DEF Inv, CallInv, HeldInv, Length
  <2>5. EofInv' /\ ErrorInv' /\ EndInv'
    BY <2>1, <2>2 DEF Inv, EofInv, ErrorInv, EndInv, TooLarge
  <2> QED
    BY <2>2, <2>3, <2>4, <2>5 DEF Inv
<1> QED
  BY <1>1, <1>2

\* Before the first call nothing is buffered.
LEMMA InitInv == Init => Inv
<1> SUFFICES ASSUME Init PROVE Inv
  OBVIOUS
<1>1. /\ starts \in [1..NFrames+1 -> 0..MaxBytes] /\ Streams
      /\ pos = 0 /\ head_ = 0 /\ tail_ = 0 /\ total_ = 0 /\ n = 0
      /\ pc = "idle" /\ msg = NoMessage
      /\ buf = [i \in Index |-> 0] /\ counts_ = [t \in Types |-> 0]
  BY DEF Init, Reset
<1>2. ~eof_ /\ ~error_ /\ ~ended
  BY DEF Init, Reset
<1>3. eof_ \in BOOLEAN /\ error_ \in BOOLEAN /\ ended \in BOOLEAN
  BY Zenon DEF Init, Reset
<1>4. TypeOK
  <2>1. avail \in 0..MaxBytes /\ fails \in BOOLEAN
    BY <1>1 DEF Streams
  <2>2. buf \in [Index -> 0..MaxBytes] /\ counts_ \in [Types -> Nat]
    BY <1>1
  <2>3. msg \in [at : Nat, len : Lengths \cup {0}]
    BY <1>1 DEF NoMessage
  <2> QED
    BY <1>1, <1>3, <2>1, <2>2, <2>3 DEF TypeOK
<1>5. Last = 1 /\ Front = 0 /\ Buffered = 0
  BY <1>1 DEF Last, Front, Buffered, Streams
<1>6. PosInv /\ BytesInv
  BY <1>1, <1>5 DEF PosInv, BytesInv, Index
<1>7. CallInv /\ HeldInv
  BY <1>1 DEF CallInv, HeldInv
<1>8. EofInv /\ ErrorInv /\ EndInv
  BY <1>2 DEF EofInv, ErrorInv, EndInv
<1> QED
  BY <1>1, <1>4, <1>6, <1>7, <1>8 DEF Inv

-----------------------------------------------------------------------------
(***************************************************************************)
(* The counts by type.  The byte at which next looks for the type is the   *)
(* first of the message at hand; that it is of no other message needs the  *)
(* frames of the stream to be apart, which is shown by induction: of the   *)
(* frames for which it fails, there would be a first one.                  *)
(***************************************************************************)

\* The order of the numbers is well founded, said of a set.
LEMMA LeastElement ==
    ASSUME NEW T \in SUBSET Nat, T # {}
    PROVE  \E k \in T : \A m \in T : k <= m
<1>1. PICK k \in T : \A m \in T : ~ (<<m, k>> \in OpToRel(<, Nat))
  BY NatLessThanWellFounded, WFMin, Zenon
<1>2. \A m \in T : m \in Nat /\ k \in Nat
  OBVIOUS
<1>3. \A m \in T : m < k => <<m, k>> \in OpToRel(<, Nat)
  BY <1>2, Zenon DEF OpToRel
<1>4. \A m \in T : ~(m < k)
  BY <1>1, <1>3, Zenon
<1> QED
  BY <1>2, <1>4

\* Frames start one after the other.
LEMMA StartsIncrease ==
    ASSUME TypeOK, Streams, NEW j \in 1..NFrames+1, NEW k \in 1..NFrames+1, j < k
    PROVE  starts[j] < starts[k]
<1> DEFINE T == {m \in 1..NFrames+1 : j < m /\ ~(starts[j] < starts[m])}
<1> SUFFICES ASSUME T # {} PROVE FALSE
  OBVIOUS
<1>1. PICK m \in T : \A i \in T : m <= i
  <2>1. T \in SUBSET Nat
    OBVIOUS
  <2> HIDE DEF T
  <2> QED
    BY <2>1, LeastElement
<1>2. m \in 1..NFrames+1 /\ j < m /\ m - 1 \in Frame /\ m - 1 \in 1..NFrames+1
  BY <1>1 DEF Frame
<1>3. starts[j] \in Nat /\ starts[m - 1] \in Nat /\ starts[m] \in Nat
  BY <1>2 DEF TypeOK
<1>4. starts[m - 1] < starts[m]
  <2>1. PICK l \in Lengths : starts[(m - 1) + 1] = starts[m - 1] + 2 + l
    BY <1>2 DEF Streams
  <2>2. (m - 1) + 1 = m /\ l \in Nat
    BY <1>2
  <2> QED
    BY <1>3, <2>1, <2>2
<1>5. starts[j] <= starts[m - 1]
  <2>1. m - 1 \notin T
    BY <1>1, <1>2
  <2> QED
    BY <1>2, <1>3, <2>1
<1> QED
  BY <1>1, <1>3, <1>4, <1>5

\* The first byte of a message tells its frame.
LEMMA TypeOfFirstByte ==
    ASSUME TypeOK, Streams, Last \in Frame, NEW t
    PROVE  IsType(Front + 2, t) <=> t = TypeOf[Last]
<1>1. ASSUME NEW k \in Frame, Front + 2 = starts[k] + 2 PROVE k = Last
  <2>1. k \in 1..NFrames+1 /\ Last \in 1..NFrames+1
    BY DEF Frame
  <2>2. starts[k] \in Nat /\ starts[Last] \in Nat
    BY <2>1 DEF TypeOK
  <2>3. starts[k] = starts[Last]
    BY <1>1, <2>2 DEF Front
  <2>4. ~(k < Last) /\ ~(Last < k)
    BY <2>1, <2>2, <2>3, StartsIncrease
  <2> QED
    BY <2>1, <2>4
<1> QED
  BY <1>1 DEF IsType, Front

\* The messages of a type among the first k.
Counted(k, t) == {i \in 1..k : TypeOf[i] = t}

\* One message more is counted under its type.
LEMMA CountOneMore ==
    ASSUME NEW k \in Nat, k + 1 \in Frame, NEW t
    PROVE  /\ Cardinality(Counted(k, t)) \in Nat
           /\ t = TypeOf[k + 1] =>
                Cardinality(Counted(k + 1, t)) = Cardinality(Counted(k, t)) + 1
           /\ t # TypeOf[k + 1] =>
                Cardinality(Counted(k + 1, t)) = Cardinality(Counted(k, t))
<1>1. IsFiniteSet(Counted(k, t)) /\ Cardinality(Counted(k, t)) \in Nat
  <2>1. IsFiniteSet(1..k)
    BY FS_Interval
  <2>2. Counted(k, t) \in SUBSET (1..k)
    BY DEF Counted
  <2>3. IsFiniteSet(Counted(k, t))
    BY <2>1, <2>2, FS_Subset
  <2> QED
    BY <2>3, FS_CardinalityType
<1>2. k + 1 \notin Counted(k, t)
  BY DEF Counted
<1>3. ASSUME t = TypeOf[k + 1] PROVE Counted(k + 1, t) = Counted(k, t) \cup {k + 1}
  BY <1>3 DEF Counted
<1>4. ASSUME t # TypeOf[k + 1] PROVE Counted(k + 1, t) = Counted(k, t)
  BY <1>4 DEF Counted
<1>5. Cardinality(Counted(k, t) \cup {k + 1}) = Cardinality(Counted(k, t)) + 1
  BY <1>1, <1>2, FS_AddElement
<1> QED
  BY <1>1, <1>3, <1>4, <1>5

\* The message returned is counted once, and under its own type.
LEMMA ReturnCounts == Inv /\ CountsExact /\ Return => CountsExact'
<1> SUFFICES ASSUME Inv, CountsExact, Return, NEW t \in Types
             PROVE  counts_'[t] = Cardinality({k \in 1..total_' : TypeOf[k] = t})
  BY DEF CountsExact
<1>0. TypeOK /\ Streams /\ BytesInv /\ CallInv
  BY DEF Inv
<1>1. /\ pc = "payload" /\ Enough /\ total_' = total_ + 1
      /\ counts_'[t] = IF IsType(buf[head_ + 2], t) THEN counts_[t] + 1 ELSE counts_[t]
  BY DEF Return
<1>2. Last \in Frame /\ n > 0 /\ Buffered >= 2 + n
  BY <1>0, <1>1 DEF CallInv, Enough, Want
<1>3. /\ Front \in Nat /\ head_ \in Nat /\ tail_ \in Nat /\ tail_ <= BufBytes
      /\ Buffered = tail_ - head_ /\ n \in Nat /\ total_ \in Nat /\ Last = total_ + 1
  BY <1>0, Numbers, Zenon
<1>4. buf[head_ + 2] = Front + 2
  <2>1. head_ + 2 \in Index /\ head_ <= head_ + 2 /\ head_ + 2 < tail_
    BY <1>2, <1>3 DEF Index
  <2>2. buf[head_ + 2] = Front + ((head_ + 2) - head_)
    BY <1>0, <2>1 DEF BytesInv
  <2> QED
    BY <1>3, <2>2
<1>5. IsType(buf[head_ + 2], t) <=> t = TypeOf[total_ + 1]
  BY <1>0, <1>2, <1>3, <1>4, TypeOfFirstByte
<1>6. counts_[t] = Cardinality(Counted(total_, t))
  BY DEF CountsExact, Counted
<1>7. total_ + 1 \in Frame
  BY <1>2, <1>3
<1>8. counts_'[t] = Cardinality(Counted(total_ + 1, t))
  <2>1. CASE t = TypeOf[total_ + 1]
    BY <1>1, <1>3, <1>5, <1>6, <1>7, <2>1, CountOneMore
  <2>2. CASE t # TypeOf[total_ + 1]
    BY <1>1, <1>3, <1>5, <1>6, <1>7, <2>2, CountOneMore
  <2> QED
    BY <2>1, <2>2
<1> QED
  BY <1>1, <1>8 DEF Counted

\* Every step keeps the counts.
LEMMA CountsStep == Inv /\ CountsExact /\ [Next]_vars => CountsExact'
<1> SUFFICES ASSUME Inv, CountsExact, [Next]_vars PROVE CountsExact'
  OBVIOUS
<1>1. CASE Return
  BY <1>1, ReturnCounts
<1>2. CASE ~Return
  <2>1. total_' = total_ /\ counts_' = counts_
    BY <1>2 DEF Next, InCall, Call, Read, ReadNothing, ReadFails, Refill, ReadPrefix, ReadMarker,
       EndMarker, NoPrefix, NoPayload, ReturnNull, vars
  <2> QED
    BY <2>1 DEF CountsExact
<1> QED
  BY <1>1, <1>2

-----------------------------------------------------------------------------
(***************************************************************************)
(* The refinement.                                                         *)
(***************************************************************************)

\* A caller that holds no message holds no bytes.
LEMMA HoldsNothing ==
    ASSUME msg = NoMessage
    PROVE  Held = <<>>
<1>1. msg.len = 0
  BY DEF NoMessage
<1> QED
  BY <1>1 DEF Held

\* Every step of next is one of MessageStream, or changes nothing there.
LEMMA StepRefines == Inv /\ [Next]_vars => [Stream!Next]_(Stream!vars)
<1> SUFFICES ASSUME Inv, [Next]_vars PROVE [Stream!Next]_(Stream!vars)
  OBVIOUS
<1>1. CASE Call
  <2>1. msg' = NoMessage /\ UNCHANGED <<starts, avail, total_, ended>>
    BY <1>1 DEF Call, stream
  <2>2. Held' = <<>>
    <3>1. msg'.len = 0
      BY <2>1 DEF NoMessage
    <3> QED
      BY <3>1 DEF Held
  <2> QED
    BY <2>1, <2>2 DEF Stream!Next, Stream!Release
<1>2. CASE Read \/ ReadNothing \/ ReadFails
  <2>1. msg = NoMessage
    BY <1>2, WaitingFor DEF Read, ReadNothing, ReadFails
  <2>2. UNCHANGED <<starts, avail, total_, msg, ended>>
    BY <1>2 DEF Read, ReadNothing, ReadFails, Refill, stream
  <2>3. Held = <<>> /\ Held' = <<>>
    BY <2>1, <2>2, HoldsNothing DEF Held, NoMessage
  <2> QED
    BY <2>2, <2>3 DEF Stream!vars
<1>3. CASE ReadPrefix
  BY <1>3 DEF ReadPrefix, stream, Stream!vars, Held
<1>4. CASE ReadMarker \/ NoPrefix \/ NoPayload
  <2>1. ReturnNull /\ pc # "idle"
    BY <1>4 DEF ReadMarker, EndMarker, NoPrefix, NoPayload
  <2>2. UNCHANGED <<starts, avail, total_, msg, buf>> /\ ended' = TRUE
    BY <2>1 DEF ReturnNull, stream
  <2>3. msg = NoMessage
    BY <2>1 DEF Inv, CallInv
  <2>4. Held = <<>> /\ Held' = Held
    BY <2>2, <2>3, HoldsNothing DEF Held
  <2>5. ~Stream!Readable(total_ + 1)
    BY <1>4, NullUnreadable DEF Readable, Last
  <2> QED
    BY <2>2, <2>4, <2>5 DEF Stream!Next, Stream!End
<1>5. CASE Return
  <2>1. /\ ~ended /\ Readable /\ Last = total_ + 1 /\ msg = NoMessage
        /\ msg'.len = Length(Last)
        /\ \A i \in 1..msg'.len : buf'[msg'.at + i - 1] = starts[Last] + 1 + i
    BY <1>5, ReturnInv
  <2>2. total_' = total_ + 1 /\ UNCHANGED <<starts, avail, ended>>
    BY <1>5 DEF Return, stream
  <2>3. Held' = Stream!Payload(total_ + 1)
    <3>1. Held' = [i \in 1..msg'.len |-> buf'[msg'.at + i - 1]]
      BY DEF Held
    <3>2. Stream!Payload(Last) = [i \in 1..Length(Last) |-> starts[Last] + 1 + i]
      BY DEF Stream!Payload, Stream!Length, Length
    <3> QED
      BY <2>1, <3>1, <3>2
  <2>4. Held = <<>>
    BY <2>1, HoldsNothing
  <2> QED
    BY <2>1, <2>2, <2>3, <2>4 DEF Stream!Next, Stream!Deliver, Readable
<1>6. CASE UNCHANGED vars
  BY <1>6 DEF vars, Stream!vars, Held
<1> QED
  BY <1>1, <1>2, <1>3, <1>4, <1>5, <1>6 DEF Next, InCall

\* Every variable of the parser keeps its type; in particular what is buffered
\* stays within the buffer.
THEOREM TypeCorrect == Spec => []TypeOK
<1>1. Init => Inv
  BY InitInv
<1>2. Inv /\ [Next]_vars => Inv'
  BY NextInv
<1>3. Inv => TypeOK
  BY DEF Inv
<1> QED
  BY <1>1, <1>2, <1>3, PTL DEF Spec

\* next returns the messages of the stream, complete, in order and with their own
\* bytes, however the reads and the buffer cut them; after nullptr it returns no
\* message any more.
THEOREM ImplementsStream == Spec => MessagesAsFramed
<1>1. Init => Inv
  BY InitInv
<1>2. Inv /\ [Next]_vars => Inv'
  BY NextInv
<1>3. Init => Stream!Init
  <2> SUFFICES ASSUME Init PROVE Stream!Init
    OBVIOUS
  <2>1. total_ = 0 /\ ended = FALSE /\ msg = NoMessage
    BY DEF Init, Reset
  <2> QED
    BY <2>1, HoldsNothing DEF Stream!Init
<1>4. Inv /\ [Next]_vars => [Stream!Next]_(Stream!vars)
  BY StepRefines
<1> QED
  BY <1>1, <1>2, <1>3, <1>4, PTL DEF Spec, MessagesAsFramed, Stream!Spec

\* error() tells a source that failed, and a stream cut within a message, from
\* the end marker and from an end between two frames.
THEOREM ErrorIsExact == Spec => []ErrorExact
<1>1. Init => Inv
  BY InitInv
<1>2. Inv /\ [Next]_vars => Inv'
  BY NextInv
<1>3. Inv => ErrorExact
  <2> SUFFICES ASSUME Inv, ended
               PROVE  error_ <=> ~Marker /\ (fails \/ avail > starts[Last] + 2)
    BY DEF ErrorExact, Marker, Front
  <2>1. Front \in Nat /\ avail \in Nat
    BY Numbers DEF Inv
  <2>2. ErrorInv /\ EndInv
    BY DEF Inv
  <2>3. avail <= Front + 2 <=> ~(avail > Front + 2)
    BY <2>1
  <2> QED
    BY <2>2, <2>3 DEF ErrorInv, EndInv, Front
<1> QED
  BY <1>1, <1>2, <1>3, PTL DEF Spec

\* The counts by type are those of the messages returned: nothing is counted
\* twice, under another type, or for the frame a stream is cut in.
THEOREM CountsAreExact == Spec => []CountsExact
<1>1. Init => Inv /\ CountsExact
  <2> SUFFICES ASSUME Init PROVE CountsExact
    BY InitInv
  <2>1. total_ = 0 /\ counts_ = [t \in Types |-> 0]
    BY DEF Init, Reset
  <2>2. ASSUME NEW t \in Types PROVE {k \in 1..total_ : TypeOf[k] = t} = {}
    BY <2>1
  <2> QED
    BY <2>1, <2>2, FS_EmptySet DEF CountsExact
<1>2. Inv /\ CountsExact /\ [Next]_vars => (Inv /\ CountsExact)'
  BY NextInv, CountsStep
<1> QED
  BY <1>1, <1>2, PTL DEF Spec
=============================================================================
