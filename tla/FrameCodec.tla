----------------------------- MODULE FrameCodec -----------------------------
(***************************************************************************)
(* The frames of agent-rust/src/protocol/mod.rs.  A frame on the wire is a *)
(* sequence of cells: one for each field of the header (the magic bytes,   *)
(* the version, the type, the flags, the sequence number, the origin's     *)
(* time, the length) and one for each unit of the payload.  Version 2 has  *)
(* no version field, so its header is one cell, as it is one byte,         *)
(* shorter.  Flags are 0 in every frame the code makes.                    *)
(***************************************************************************)
EXTENDS Integers, Sequences

CONSTANT MaxPayload   \* MAX_FRAME_SIZE, 1 MB

ASSUME PayloadAssumption == MaxPayload \in Nat

Magic == 72
Handshake == 1
Data == 2
Heartbeat == 3
Close == 4
FrameType == 1..7

HeaderSize == 7
V2HeaderSize == 6

\* Frame::encode, which does not look at the size of the payload.
Encode(f) == <<Magic, f.version, f.type, 0, f.seq, f.ts, Len(f.payload)>> \o f.payload

\* What a peer of the older version sends.
EncodeV2(f) == <<Magic, f.type, 0, f.seq, f.ts, Len(f.payload)>> \o f.payload

OnWire(f) == IF f.version = 2 THEN EncodeV2(f) ELSE Encode(f)

-----------------------------------------------------------------------------
(* Decoding.  The result is a frame and the cells it takes, "none" when    *)
(* more cells are needed, or "error".                                      *)

Result(r) == [res |-> r, frame |-> << >>, used |-> 0]

\* The part both versions share: the header has h cells and the type is its
\* cell t.
DecodeFrom(data, version, h, t) ==
    LET len == data[h]
    IN  IF data[t] \notin FrameType \/ len > MaxPayload THEN Result("error")
        ELSE IF Len(data) < h + len THEN Result("none")
        ELSE [res   |-> "frame",
              frame |-> [version |-> version, type |-> data[t], seq |-> data[h - 2],
                         ts |-> data[h - 1], payload |-> SubSeq(data, h + 1, h + len)],
              used  |-> h + len]

DecodeV2(data) == DecodeFrom(data, 2, V2HeaderSize, 2)

\* Fault: every frame is of the current version.
DecodeV3Only(data) ==
    IF Len(data) < HeaderSize THEN Result("none")
    ELSE IF data[1] # Magic THEN Result("error")
    ELSE DecodeFrom(data, data[2], HeaderSize, 3)

\* Frame::decode: a cell below 3 where the version is expected is the type of a
\* version 2 frame, which is decoded only once a version 3 header would fit.
Decode(data) ==
    IF Len(data) < HeaderSize THEN Result("none")
    ELSE IF data[1] # Magic THEN Result("error")
    ELSE IF data[2] < 3 THEN DecodeV2(data)
    ELSE DecodeFrom(data, data[2], HeaderSize, 3)

\* Frames that Decode reads as what they are: of version 2 only the types below
\* 3, the others look like version 3 with the flags as type.
Readable(f) ==
    /\ f.version = 2 => f.type < 3
    /\ Len(f.payload) <= MaxPayload
=============================================================================
