-------------------------------- MODULE Wire --------------------------------
(***************************************************************************)
(* One connection over which an agent sends: frames (protocol/mod.rs), or  *)
(* the tags of a stream as HTTP-FLV.  The receiver is one of three:        *)
(*                                                                         *)
(*   "decoder"  FrameDecoder, fed with the chunks of a byte stream;        *)
(*   "ws"       PlainWsConn (transport/registry.rs), a frame a message;    *)
(*   "flv"      pull_flv_stream (relay/flv.rs), the agent that cascades.   *)
(*                                                                         *)
(* The payloads of Data frames are sealed by a StreamEncryptor and opened  *)
(* by a StreamDecryptor (crypto/mod.rs), whose counters say which key to   *)
(* derive; a sealed payload is its number, repeated, and an empty payload  *)
(* stands for one that is shorter than a nonce and a tag.                  *)
(***************************************************************************)
EXTENDS FrameCodec, FlvCodec, SequencesExt, FiniteSetsExt

CONSTANTS
    Receiver,   \* the receivers looked at, of "decoder", "ws" and "flv"
    Tags,       \* tags a stream is made of
    MaxSent,    \* bound: frames or tags sent
    MaxSealed   \* bound: payloads sealed before the connection is made

\* Times are of 32 bits, and the tags an agent sends are those it has read, whose
\* size is written in three bytes.
ASSUME WireAssumption ==
    /\ Receiver \subseteq {"decoder", "ws", "flv"}
    /\ \A t \in Tags : /\ t \in [type : TagType, ts : Nat, data : Seq(0..255)]
                       /\ Fits(t.ts, 4) /\ Fits(Len(t.data), 3)
    /\ {MaxSent, MaxSealed} \subseteq Nat

VARIABLES
    recv,     \* the receiver
    conn,     \* "none", "up", "down", or "failed" (the last dial was refused)
    sent,     \* history: the frames or tags sent, in order
    line,     \* what is under way: cells, or for "ws" whole messages
    arrived,  \* history: the cells handed to the receiver
    buffer,   \* FrameDecoder.buffer
    parser,   \* the state of pull_flv_stream
    got,      \* history: the frames the receiver has handed on
    first,    \* the encryptor's counter when the connection was made
    enc,      \* StreamEncryptor.seq
    dec,      \* StreamDecryptor.seq
    opened    \* history: numbers of the payloads opened, in order

wireVars == <<recv, conn, sent, line, arrived, buffer, parser, got, first, enc, dec, opened>>

cipherVars == <<enc, dec, opened>>

\* The relay's encryptor may have been in use for a while; a byte stream is
\* there from the start.
WireInit ==
    /\ recv \in Receiver
    /\ conn = IF recv = "ws" THEN "none" ELSE "up"
    /\ sent = << >>
    /\ line = IF recv = "flv" THEN BuildFlvHeader ELSE << >>
    /\ arrived = << >>
    /\ buffer = << >>
    /\ parser = NewParser
    /\ got = << >>
    /\ first \in IF recv = "flv" THEN {0} ELSE 0..MaxSealed
    /\ enc = first
    /\ dec = 0
    /\ opened = << >>
-----------------------------------------------------------------------------
(* The sender.                                                             *)

Seal(n, c) == [i \in 1..n |-> c]

\* What goes on the line for a frame.
Post(f) == line' = IF recv = "ws" THEN Append(line, [kind |-> "binary", cells |-> OnWire(f)])
                                  ELSE line \o OnWire(f)

Send(version, type, payload) ==
    LET f == [version |-> version, type |-> type, seq |-> Len(sent),
              ts |-> IF type = Data THEN 1 ELSE 0, payload |-> payload]
    IN  /\ recv # "flv" /\ conn = "up"
        /\ Len(sent) < MaxSent
        /\ sent' = Append(sent, f)
        /\ Post(f)
        /\ UNCHANGED <<recv, conn, arrived, buffer, parser, got, first, dec, opened>>

\* A Data frame whose payload is sealed; nothing bounds its size.
SendSealed(version, n) ==
    /\ Send(version, Data, Seal(n, enc))
    /\ enc' = enc + 1

\* A frame without payload: a heartbeat, a handshake, or Data too short to
\* have been sealed.
SendEmpty(version, type) ==
    /\ Send(version, type, << >>)
    /\ UNCHANGED enc

SendTag(t) ==
    /\ recv = "flv"
    /\ Len(sent) < MaxSent
    /\ sent' = Append(sent, t)
    /\ line' = line \o BuildFlvTagWire(t)
    /\ UNCHANGED <<recv, conn, arrived, buffer, parser, got, first, cipherVars>>
-----------------------------------------------------------------------------
(* Opening what was received.                                              *)

\* Fault: the counter follows the frames, not the sealed payloads.
DecryptCountsFrames(f) ==
    IF f.type # Data THEN UNCHANGED <<dec, opened>>
    ELSE /\ dec' = dec + 1
         /\ opened' = IF f.payload # << >> /\ f.payload[1] = dec
                      THEN Append(opened, dec) ELSE opened

\* decrypt: a short payload is refused before the counter moves; any other
\* moves it, also if it does not open.
Decrypt(f) ==
    IF f.type # Data \/ f.payload = << >> THEN UNCHANGED <<dec, opened>>
    ELSE /\ dec' = dec + 1
         /\ opened' = IF f.payload[1] = dec THEN Append(opened, dec) ELSE opened

HandOn(f) ==
    /\ got' = Append(got, f)
    /\ Decrypt(f)
-----------------------------------------------------------------------------
(* FrameDecoder: feed, and decode until it has nothing more.               *)

Feed(k) ==
    /\ recv = "decoder"
    /\ arrived' = arrived \o SubSeq(line, 1, k)
    /\ buffer' = buffer \o SubSeq(line, 1, k)
    /\ line' = SubSeq(line, k + 1, Len(line))
    /\ UNCHANGED <<recv, conn, sent, parser, got, first, cipherVars>>

\* Only a frame takes cells from the buffer: after an error every call finds
\* the same error.
DecodeOne ==
    LET r == Decode(buffer)
    IN  /\ recv = "decoder"
        /\ r.res = "frame"
        /\ buffer' = SubSeq(buffer, r.used + 1, Len(buffer))
        /\ HandOn(r.frame)
        /\ UNCHANGED <<recv, conn, sent, line, arrived, parser, first, enc>>

\* pull_flv_stream, a chunk of the response.
PullChunk(k) ==
    /\ recv = "flv"
    /\ ~parser.error
    /\ arrived' = arrived \o SubSeq(line, 1, k)
    /\ parser' = OnChunk(parser, SubSeq(line, 1, k))
    /\ line' = SubSeq(line, k + 1, Len(line))
    /\ UNCHANGED <<recv, conn, sent, buffer, got, first, cipherVars>>
-----------------------------------------------------------------------------
(* The transport registry and PlainWsConn.                                 *)

TransportType == {"plain-ws", "reality", "hysteria2", "grpc"}

\* The factories global_registry registers.
Registered == {"plain-ws"}

\* dial_transport: no factory, or connecting fails or succeeds.
Dial(tt) ==
    /\ recv = "ws" /\ conn \in {"none", "failed"}
    /\ conn' \in IF tt \in Registered THEN {"up", "failed"} ELSE {"failed"}
    /\ UNCHANGED <<recv, sent, line, arrived, buffer, parser, got, first, cipherVars>>

\* Fault: the first cells of a message wait for the next one.
WsRecvJoins ==
    LET cells == buffer \o line[1].cells
        r     == Decode(cells)
    IN  /\ recv = "ws" /\ conn = "up" /\ line # << >> /\ line[1].kind = "binary"
        /\ line' = Tail(line)
        /\ buffer' = IF r.res = "none" THEN cells ELSE << >>
        /\ IF r.res = "frame" THEN HandOn(r.frame) ELSE UNCHANGED <<got, dec, opened>>
        /\ UNCHANGED <<recv, conn, sent, arrived, parser, first, enc>>

\* recv_frame on a binary message.  Each is decoded by itself: one that is too
\* short is dropped, and one in error is reported and leaves the connection up.
WsRecv ==
    LET r == Decode(line[1].cells)
    IN  /\ recv = "ws" /\ conn = "up" /\ line # << >> /\ line[1].kind = "binary"
        /\ line' = Tail(line)
        /\ IF r.res = "frame" THEN HandOn(r.frame) ELSE UNCHANGED <<got, dec, opened>>
        /\ UNCHANGED <<recv, conn, sent, arrived, buffer, parser, first, enc>>

\* A ping, a pong or a text.
WsOther ==
    /\ recv = "ws" /\ conn = "up"
    /\ Len(line) < MaxSent
    /\ line' = Append(line, [kind |-> "other"])
    /\ UNCHANGED <<recv, conn, sent, arrived, buffer, parser, got, first, cipherVars>>

WsIgnores ==
    /\ recv = "ws" /\ conn = "up" /\ line # << >> /\ line[1].kind = "other"
    /\ line' = Tail(line)
    /\ UNCHANGED <<recv, conn, sent, arrived, buffer, parser, got, first, cipherVars>>

\* A close message or the end of the stream, an error of receiving or sending,
\* or close(): the connection is down for good.
WsDown ==
    /\ recv = "ws" /\ conn = "up"
    /\ conn' = "down"
    /\ UNCHANGED <<recv, sent, line, arrived, buffer, parser, got, first, cipherVars>>
-----------------------------------------------------------------------------

WireNext ==
    \/ \E n \in 1..(MaxPayload + 1) : SendSealed(3, n)
    \/ \E t \in {Data, Heartbeat} : SendEmpty(3, t)
    \/ SendSealed(2, 1)
    \/ \E t \in {Handshake, Heartbeat} : SendEmpty(2, t)
    \/ \E t \in Tags : SendTag(t)
    \/ \E k \in 1..Len(line) : Feed(k) \/ PullChunk(k)
    \/ DecodeOne
    \/ \E tt \in TransportType : Dial(tt)
    \/ WsRecv
    \/ WsOther
    \/ WsIgnores
    \/ WsDown

WireSpec == WireInit /\ [][WireNext]_wireVars
-----------------------------------------------------------------------------
(* Properties.                                                             *)

\* The frames in a run of cells, decoded in one go: last[n] those in the last
\* n cells.
FramesIn(cells) ==
    LET last[n \in 0..Len(cells)] ==
            LET r == Decode(SubSeq(cells, Len(cells) - n + 1, Len(cells)))
            IN  IF r.res = "frame" THEN <<r.frame>> \o last[n - r.used] ELSE << >>
    IN  last[Len(cells)]

\* How the bytes were cut into chunks makes no difference: FrameDecoder has
\* handed on, or holds, exactly the frames that are in all it was fed
\* (FrameDecoder::decode), and the FLV parser's state is the one it would have
\* reached had all come at once (pull_flv_stream).
ChunkingIsInvisible ==
    /\ recv = "decoder" => got \o FramesIn(buffer) = FramesIn(arrived)
    /\ recv = "flv" => parser = OnChunk(NewParser, arrived)

\* The frames before the first one that Decode does not read.
ReadablePrefix(s) ==
    LET bad == {i \in DOMAIN s : ~Readable(s[i])}
    IN  IF bad = {} THEN s ELSE SubSeq(s, 1, Min(bad) - 1)

\* An older peer's frame without payload is shorter than a current header.
Short(f) == f.version = 2 /\ f.payload = << >>

ReadableAlone(f) == Readable(f) /\ ~Short(f)

\* The frames of s that can be read by themselves; of[i] those of the first i.
AllReadable(s) ==
    LET of[i \in 0..Len(s)] == IF i = 0 THEN << >>
                               ELSE IF ReadableAlone(s[i]) THEN Append(of[i - 1], s[i]) ELSE of[i - 1]
    IN  of[Len(s)]

\* What Frame::decode lets come through, of what was sent; that this is less than
\* the code says of version 2 is what OlderFramesArrive shows.
Deliverable == IF recv = "ws" THEN AllReadable(sent) ELSE ReadablePrefix(sent)

\* Frames are handed on unchanged, in order and without a gap: by FrameDecoder
\* up to the first frame it cannot read, which stops it, by PlainWsConn all
\* those that can be read by themselves.
FramesArriveAsSent == recv # "flv" => IsPrefix(got, Deliverable)

\* Nothing that can be read is left behind: when all that was sent has come and
\* the receiver waits for more, it has handed on all of it, except that
\* FrameDecoder holds an older peer's empty frame until something follows.
NothingIsLeftBehind ==
    LET d == Deliverable
    IN  /\ recv # "flv" /\ conn = "up" /\ line = << >>
        /\ recv = "decoder" => Decode(buffer).res # "frame"
        => \/ got = d
           \/ recv = "decoder" /\ Short(Last(d)) /\ got = Front(d)

\* The receiver has been handed all that was sent and waits for more, and no frame
\* was too large for it.
AllHasCome ==
    /\ recv # "flv" /\ conn = "up" /\ line = << >>
    /\ recv = "decoder" => Decode(buffer).res # "frame"
    /\ \A i \in DOMAIN sent : Len(sent[i].payload) <= MaxPayload

\* "版本兼容: 支持 v2 (无 version 字段) 和 v3" (protocol/mod.rs:132): an older peer's
\* frames are handed on once they have come.  Of a type from 3 on (heartbeats and
\* all later ones) Frame::decode takes the type for a version (protocol/mod.rs:135),
\* fails, and FrameDecoder gets no further; one without payload is shorter than a
\* current header, for which Frame::decode waits first (protocol/mod.rs:122).
OlderFramesArrive ==
    AllHasCome => \A f \in Range(sent) : f.version = 2 => f \in Range(got)

\* The two counters stay in step: what is opened is the run of payloads from
\* number 0 to the first one that did not come, whatever came in between and
\* after; so a receiver that joins late opens nothing, and one that loses a
\* sealed frame opens nothing from then on (StreamDecryptor::decrypt).
CipherKeepsStep ==
    LET came == {got[i].payload[1] : i \in {j \in DOMAIN got : got[j].type = Data
                                                               /\ got[j].payload # << >>}}
        next == Min({c \in 0..enc : c \notin came})
    IN  opened = [i \in 1..next |-> i - 1]

\* All tags that have come have been handed on, as they were sent (the format at
\* the top of relay/flv.rs: a header of 9 bytes, PreviousTagSize, the tags).
TagsArriveAsSent == recv = "flv" /\ line = << >> => parser.out = sent
=============================================================================
