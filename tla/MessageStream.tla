---------------------------- MODULE MessageStream ----------------------------
(***************************************************************************)
(* What ItchParser::next (src/src/parser/itch_parser.cpp) promises to its  *)
(* caller: the messages of the stream, each once, in order and with its    *)
(* own bytes, up to the first one that cannot be had; then nothing more.   *)
(*                                                                         *)
(* The stream is a row of frames.  Frame k starts at byte starts[k] with a *)
(* length prefix of two bytes; its payload fills the rest, up to the start *)
(* of the next frame.  Only the first avail bytes can be read.             *)
(***************************************************************************)
EXTENDS Naturals, Sequences

CONSTANTS
    NFrames,     \* number of frames of the stream
    BufBytes     \* the longest frame that can be handled

VARIABLES
    starts, avail,
    delivered,   \* number of messages handed out
    held,        \* the bytes of the message the caller holds, as stream positions
    ended        \* nullptr has been returned

vars == <<starts, avail, delivered, held, ended>>

-----------------------------------------------------------------------------
Frame == 1..NFrames

\* The value of the length prefix of frame k; 0 is the end-of-session marker.
Length(k) == starts[k+1] - starts[k] - 2

Readable(k) ==
    /\ k \in Frame
    /\ Length(k) > 0
    /\ Length(k) + 2 <= BufBytes
    /\ starts[k+1] <= avail

Payload(k) == [i \in 1..Length(k) |-> starts[k] + 1 + i]

Init == delivered = 0 /\ held = <<>> /\ ended = FALSE

\* The caller asks for the next message, and lets go of the last one.
Release ==
    /\ held' = <<>>
    /\ UNCHANGED <<starts, avail, delivered, ended>>

Deliver ==
    /\ ~ended
    /\ held = <<>>
    /\ Readable(delivered + 1)
    /\ delivered' = delivered + 1
    /\ held' = Payload(delivered + 1)
    /\ UNCHANGED <<starts, avail, ended>>

End ==
    /\ held = <<>>
    /\ ~Readable(delivered + 1)
    /\ ended' = TRUE
    /\ UNCHANGED <<starts, avail, delivered, held>>

Next == Release \/ Deliver \/ End

Spec == Init /\ [][Next]_vars
=============================================================================
