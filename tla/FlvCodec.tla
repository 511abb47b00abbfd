------------------------------ MODULE FlvCodec ------------------------------
(***************************************************************************)
(* The bytes of an FLV stream: what an agent writes to a viewer or to an   *)
(* agent that cascades from it (relay/flv_output.rs), and the incremental  *)
(* parser of the puller that reads them (pull_flv_stream, relay/flv.rs).   *)
(***************************************************************************)
EXTENDS Integers, Sequences

TagType == {8, 9, 18}
TagHeaderLen == 11
FlvHeaderLen == 9
PrevTagSizeLen == 4

\* "FLV", version, flags, four bytes of header size, PreviousTagSize0.
BuildFlvHeader == <<70, 76, 86>> \o <<1>> \o <<5>> \o <<0, 0, 0, 9>> \o <<0, 0, 0, 0>>

\* The k-th byte of n, the lowest being number 0.
Byte(n, k) == (n \div 256^k) % 256

\* A number of three or of four bytes, highest first.
Size(n) == <<Byte(n, 2), Byte(n, 1), Byte(n, 0)>>
Word(n) == <<Byte(n, 3), Byte(n, 2), Byte(n, 1), Byte(n, 0)>>

\* n needs at most k bytes.
Fits(n, k) == n \div 256^(k - 1) < 256

BuildFlvTagWire(tag) ==
    <<tag.type>>
        \o Size(Len(tag.data))
        \o <<Byte(tag.ts, 2), Byte(tag.ts, 1), Byte(tag.ts, 0), Byte(tag.ts, 3)>>
        \o <<0, 0, 0>>
        \o tag.data
        \o Word(TagHeaderLen + Len(tag.data))

-----------------------------------------------------------------------------
(* The parser: the buffer, whether the header was read, the tags found, and *)
(* whether it gave up.                                                     *)

NewParser == [buffer |-> << >>, header |-> FALSE, out |-> << >>, error |-> FALSE]

\* A number of three bytes.
BigEndian(x, y, z) == (x * 256 + y) * 256 + z

Drain(p, n) == [p EXCEPT !.buffer = SubSeq(@, n + 1, Len(@))]

\* The header size is made of the bytes at 5, 6 and 7, counted from 0; the
\* fourth byte, at 8, is not used.
HeaderSizeRead(b) == BigEndian(b[6], b[7], b[8])

ParseHeader(p) ==
    LET skip == HeaderSizeRead(p.buffer) + PrevTagSizeLen
    IN  IF SubSeq(p.buffer, 1, 3) # <<70, 76, 86>> THEN [p EXCEPT !.error = TRUE]
        ELSE IF Len(p.buffer) < skip THEN p
        ELSE [Drain(p, skip) EXCEPT !.header = TRUE]

\* A byte that is not a type of tag costs as many bytes as a tag's header.
ParseTag(p) ==
    LET b    == p.buffer
        size == BigEndian(b[2], b[3], b[4])
        len  == TagHeaderLen + size + PrevTagSizeLen
        tag  == [type |-> b[1], ts |-> BigEndian(b[8] * 256 + b[5], b[6], b[7]),
                 data |-> SubSeq(b, TagHeaderLen + 1, TagHeaderLen + size)]
    IN  IF b[1] \notin TagType THEN Drain(p, TagHeaderLen)
        ELSE IF Len(b) < len THEN p
        ELSE [Drain(p, len) EXCEPT !.out = Append(@, tag)]

\* One turn of the parser's loop; a turn that changes nothing waits for bytes.
ParseTurn(p) ==
    IF p.error THEN p
    ELSE IF ~p.header
         THEN IF Len(p.buffer) < FlvHeaderLen THEN p ELSE ParseHeader(p)
    ELSE IF Len(p.buffer) < TagHeaderLen THEN p ELSE ParseTag(p)

\* Fault: the loop looks at most once at what has come.
OnChunkOneTurn(p, chunk) == ParseTurn([p EXCEPT !.buffer = @ \o chunk])

\* The parser after n turns.
Turns(p, n) ==
    LET turn[k \in Nat] == IF k = 0 THEN p ELSE ParseTurn(turn[k - 1])
    IN  turn[n]

\* A chunk of the response: the loop goes on until it waits.  Every other turn
\* takes bytes, so there are no more turns than bytes.
OnChunk(p, chunk) ==
    LET start == [p EXCEPT !.buffer = @ \o chunk]
    IN  Turns(start, Len(start.buffer))
=============================================================================
