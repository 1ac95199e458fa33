---------------------------- MODULE FrameAssembler ----------------------------
(***************************************************************************)
(* Framing on a byte stream (protocol.cpp): what encode_frame puts on the  *)
(* wire, and how FrameAssembler finds the frames again in whatever pieces  *)
(* recv_some returns.                                                      *)
(*                                                                         *)
(* Bytes are counted in units: the header with its integrity trailer is    *)
(* one unit, the payload frame.payload units.  A unit carries the frame it *)
(* belongs to and its place in it.  frame.wire says what is wrong with the *)
(* encoding: "ok", "header" (magic, version or message identifier) or      *)
(* "trailer" (checksum or digest).                                         *)
(***************************************************************************)
EXTENDS Naturals, Sequences

CONSTANTS
    MaxFrameUnits,      \* limits.max_frame_bytes
    MaxAssemblyUnits    \* limits.max_frame_assembly_bytes

ASSUME FramingLimits ==    \* validate_limits
    /\ MaxFrameUnits \in Nat /\ MaxAssemblyUnits \in Nat
    /\ MaxAssemblyUnits >= MaxFrameUnits

\* frame_size.
Size(frame) == 1 + frame.payload

\* encode_frame refuses a payload that is too large.
Encodable(frame) == frame.payload <= MaxFrameUnits

\* encode_frame.
Units(frame) == [k \in 1..Size(frame) |-> [frame |-> frame, part |-> k]]

\* push: refused when the buffer would exceed its limit.
CanPush(buffer, chunk) == Len(buffer) + Len(chunk) <= MaxAssemblyUnits

\* pop: can the header at the front of the buffer not be accepted?
BadHeader(buffer) ==
    LET first == Head(buffer)
    IN \/ first.part # 1
       \/ first.frame.wire = "header"
       \/ ~Encodable(first.frame)

\* decode_frame: the bytes are those of one frame, as it was encoded.
Decodes(raw, frame) == raw = Units(frame) /\ frame.wire = "ok"

\* pop: it waits for more bytes, fails, or produces the first frame.
PopStatus(buffer) ==
    CASE buffer = <<>> -> "Waits"
      [] buffer # <<>> /\ BadHeader(buffer) -> "Fails"
      [] buffer # <<>> /\ ~BadHeader(buffer) ->
            LET frame == Head(buffer).frame
            IN CASE Len(buffer) < Size(frame) -> "Waits"
                 [] Len(buffer) >= Size(frame) ->
                       IF Decodes(SubSeq(buffer, 1, Size(frame)), frame)
                       THEN "Produces" ELSE "Fails"

Popped(buffer) == Head(buffer).frame

\* Mutant: the bytes that follow the frame are thrown away with it.
DiscardsRest(buffer) == <<>>

\* What stays in the buffer once its first frame was produced.
Rest(buffer) == SubSeq(buffer, Size(Popped(buffer)) + 1, Len(buffer))
===============================================================================
