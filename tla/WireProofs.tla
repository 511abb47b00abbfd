----------------------------- MODULE WireProofs -----------------------------
(***************************************************************************)
(* Proofs about Wire: any number of frames, of any size, sent by peers of  *)
(* both versions, or of tags, cut into chunks anywhere.                    *)
(*                                                                         *)
(* The decoders loop over a buffer, which the model writes as recursive    *)
(* functions.  That those functions exist, that they are unique and what   *)
(* a step of them does is proved first, from the induction UpTo.  Chunked  *)
(* then says that the rest of a stream is read as if it had come at once,  *)
(* Delivered which frames have been taken from it, and Numbered and        *)
(* Counted which payloads the decryptor has opened.                        *)
(***************************************************************************)
EXTENDS Wire, SequenceTheorems, WellFoundedInduction, TLAPS

-----------------------------------------------------------------------------
(* Induction and cells.                                                    *)

\* Induction up to n, for the members of a set: the library's theorems take the
\* formula as an operator, but that < is well-founded on Nat needs no formula.
LEMMA LeastExists ==
  ASSUME NEW B, B \subseteq Nat, B # {}
  PROVE  \E x \in B : \A y \in B : x <= y
<1>1. PICK x \in B : \A y \in B : ~ (<<y, x>> \in OpToRel(<, Nat))
  BY NatLessThanWellFounded, WFMin, Zenon
<1>2. \A y \in B : ~ (y < x)
  BY <1>1 DEF OpToRel
<1> QED
  BY <1>2

LEMMA UpTo ==
  ASSUME NEW n \in Nat, NEW G, 0 \in G, \A i \in 0..(n - 1) : i \in G => i + 1 \in G
  PROVE  \A i \in 0..n : i \in G
<1> DEFINE Bad == {i \in 0..n : i \notin G}
<1> SUFFICES ASSUME Bad # {} PROVE FALSE
  OBVIOUS
<1>1. Bad \subseteq Nat
  OBVIOUS
<1> HIDE DEF Bad
<1>2. PICK x \in Bad : \A y \in Bad : x <= y
  BY <1>1, LeastExists
<1>3. x \in 0..n /\ x \notin G /\ x # 0
  BY DEF Bad
<1>4. x - 1 \in 0..(n - 1) /\ x - 1 \in 0..n /\ ~ (x <= x - 1) /\ (x - 1) + 1 = x
  BY <1>3
<1>5. x - 1 \in G
  BY <1>2, <1>4 DEF Bad
<1> QED
  BY <1>3, <1>4, <1>5

\* Min is the least number, also where it is only needed that there is one.
LEMMA MinIs ==
  ASSUME NEW B, B \subseteq Nat, NEW x \in B, \A y \in B : x <= y
  PROVE  Min(B) = x
<1>1. \A y \in B : (\A z \in B : y <= z) => y = x
  BY DEF Min
<1>2. Min(B) \in B /\ \A z \in B : Min(B) <= z
  BY DEF Min
<1> QED
  BY <1>1, <1>2

\* Cutting a sequence.
LEMMA CutIs ==
  ASSUME NEW S, NEW s \in Seq(S), NEW a \in Nat, NEW n \in Nat, a + n <= Len(s)
  PROVE  /\ SubSeq(s, a + 1, a + n) \in Seq(S)
         /\ Len(SubSeq(s, a + 1, a + n)) = n
         /\ \A i \in 1..n : SubSeq(s, a + 1, a + n)[i] = s[a + i]
<1>1. Len(s) \in Nat /\ \A i \in 1..Len(s) : s[i] \in S
  BY LenProperties, ElementOfSeq
<1>2. /\ a + 1 \in Int /\ a + n \in Int
      /\ \A i \in (a + 1)..(a + n) : i \in 1..Len(s)
  BY <1>1
<1>3. \A i \in (a + 1)..(a + n) : s[i] \in S
  BY <1>1, <1>2
<1>4. /\ SubSeq(s, a + 1, a + n) \in Seq(S)
      /\ Len(SubSeq(s, a + 1, a + n)) = IF a + 1 <= a + n THEN (a + n) - (a + 1) + 1 ELSE 0
      /\ \A i \in 1..((a + n) - (a + 1) + 1) : SubSeq(s, a + 1, a + n)[i] = s[(a + 1) + i - 1]
  BY <1>2, <1>3, SubSeqProperties
<1>5. /\ (a + n) - (a + 1) + 1 = n
      /\ (IF a + 1 <= a + n THEN (a + n) - (a + 1) + 1 ELSE 0) = n
      /\ \A i \in 1..n : (a + 1) + i - 1 = a + i
  OBVIOUS
<1> QED
  BY <1>4, <1>5

LEMMA TakeIs ==
  ASSUME NEW S, NEW s \in Seq(S), NEW n \in 0..Len(s)
  PROVE  /\ SubSeq(s, 1, n) \in Seq(S)
         /\ Len(SubSeq(s, 1, n)) = n
         /\ \A i \in 1..n : SubSeq(s, 1, n)[i] = s[i]
<1>1. Len(s) \in Nat
  BY LenProperties
<1>2. PICK z \in Nat : z = 0
  OBVIOUS
<1>3. n \in Nat /\ z + 1 = 1 /\ z + n = n /\ z + n <= Len(s) /\ \A i \in 1..n : z + i = i
  BY <1>1, <1>2
<1>4. /\ SubSeq(s, z + 1, z + n) \in Seq(S)
      /\ Len(SubSeq(s, z + 1, z + n)) = n
      /\ \A i \in 1..n : SubSeq(s, z + 1, z + n)[i] = s[z + i]
  <2>1. z \in Nat /\ n \in Nat /\ z + n <= Len(s)
    BY <1>2, <1>3
  <2> QED
    BY <2>1, CutIs, Zenon
<1> QED
  BY <1>3, <1>4

LEMMA DropIs ==
  ASSUME NEW S, NEW s \in Seq(S), NEW k \in 0..Len(s)
  PROVE  /\ SubSeq(s, k + 1, Len(s)) \in Seq(S)
         /\ Len(SubSeq(s, k + 1, Len(s))) = Len(s) - k
         /\ \A i \in 1..(Len(s) - k) : SubSeq(s, k + 1, Len(s))[i] = s[k + i]
<1>1. Len(s) \in Nat
  BY LenProperties
<1> DEFINE n == Len(s) - k
<1>2. k \in Nat /\ n \in Nat /\ k + n = Len(s) /\ k + n <= Len(s)
  BY <1>1
<1> HIDE DEF n
<1>3. /\ SubSeq(s, k + 1, k + n) \in Seq(S)
      /\ Len(SubSeq(s, k + 1, k + n)) = n
      /\ \A i \in 1..n : SubSeq(s, k + 1, k + n)[i] = s[k + i]
  BY <1>2, CutIs, Zenon
<1> QED
  BY <1>2, <1>3 DEF n

-----------------------------------------------------------------------------
(* What Decode returns.                                                    *)

Cells == Seq(Nat)

Frame == [version : Nat, type : FrameType, seq : Nat, ts : Nat, payload : Cells]

LEMMA DecodeFromFrame ==
  ASSUME NEW data \in Cells, NEW v \in Nat, NEW h \in {6, 7}, NEW t \in {2, 3}, Len(data) >= 7,
         DecodeFrom(data, v, h, t).res = "frame"
  PROVE  LET r == DecodeFrom(data, v, h, t)
         IN  /\ r.frame \in Frame
             /\ r.used \in 1..Len(data)
             /\ \A rest \in Cells : DecodeFrom(data \o rest, v, h, t) = r
<1> DEFINE r == DecodeFrom(data, v, h, t)
           len == data[h]
<1>0. data \in Seq(Nat)
  BY DEF Cells
<1>1. MaxPayload \in Nat /\ Len(data) \in Nat /\ \A i \in 1..Len(data) : data[i] \in Nat
  BY PayloadAssumption, LenProperties, ElementOfSeq DEF Cells
<1>2. /\ h \in Nat /\ h \in 1..Len(data) /\ t \in 1..Len(data)
      /\ h - 2 \in 1..Len(data) /\ h - 1 \in 1..Len(data)
  BY <1>1
<1>3. /\ len \in Nat /\ data[t] \in FrameType /\ ~(len > MaxPayload) /\ ~(Len(data) < h + len)
      /\ r = [res   |-> "frame",
              frame |-> [version |-> v, type |-> data[t], seq |-> data[h - 2],
                         ts |-> data[h - 1], payload |-> SubSeq(data, h + 1, h + len)],
              used  |-> h + len]
  BY <1>1, <1>2 DEF DecodeFrom, Result
<1>8. len = data[h]
  OBVIOUS
<1> HIDE DEF len, r
<1>4. h + len \in 1..Len(data) /\ h + len <= Len(data)
  BY <1>1, <1>2, <1>3
<1>5. /\ SubSeq(data, h + 1, h + len) \in Cells
      /\ Len(SubSeq(data, h + 1, h + len)) = len
      /\ \A i \in 1..len : SubSeq(data, h + 1, h + len)[i] = data[h + i]
  <2>1. h \in Nat /\ len \in Nat /\ h + len <= Len(data)
    BY <1>2, <1>3, <1>4
  <2> QED
    BY <1>0, <2>1, CutIs, Zenon DEF Cells
<1>6. r.frame \in Frame /\ r.used \in 1..Len(data)
  BY <1>1, <1>2, <1>3, <1>4, <1>5 DEF Frame
<1>7. ASSUME NEW rest \in Cells PROVE DecodeFrom(data \o rest, v, h, t) = r
  <2> DEFINE d == data \o rest
  <2>1. /\ d \in Cells /\ Len(d) = Len(data) + Len(rest) /\ Len(rest) \in Nat
        /\ \A i \in 1..Len(data) : d[i] = data[i]
    <3>1. Len(rest) \in Nat
      BY LenProperties DEF Cells
    <3>2. \A i \in 1..Len(data) : i \in 1..(Len(data) + Len(rest)) /\ i <= Len(data)
      BY <1>1, <3>1
    <3> QED
      BY <3>1, <3>2, ConcatProperties DEF Cells
  <2> HIDE DEF d
  <2>2. ~(Len(d) < h + len) /\ h + len <= Len(d)
    BY <1>1, <1>2, <1>3, <1>4, <2>1
  <2>3. /\ SubSeq(d, h + 1, h + len) \in Cells
        /\ Len(SubSeq(d, h + 1, h + len)) = len
        /\ \A i \in 1..len : SubSeq(d, h + 1, h + len)[i] = d[h + i]
    <3>1. d \in Seq(Nat) /\ h \in Nat /\ len \in Nat /\ h + len <= Len(d)
      BY <1>2, <1>3, <2>1, <2>2 DEF Cells
    <3> QED
      BY <3>1, CutIs, Zenon DEF Cells
  <2>4. SubSeq(d, h + 1, h + len) = SubSeq(data, h + 1, h + len)
    <3>1. \A i \in 1..len : h + i \in 1..Len(data)
      BY <1>1, <1>2, <1>3, <1>4
    <3>2. \A i \in 1..len : SubSeq(d, h + 1, h + len)[i] = SubSeq(data, h + 1, h + len)[i]
      BY <1>5, <2>1, <2>3, <3>1
    <3> QED
      BY <1>5, <2>3, <3>2, SeqEqual, Zenon DEF Cells
  <2>5. d[h] = len /\ d[t] = data[t] /\ d[h - 2] = data[h - 2] /\ d[h - 1] = data[h - 1]
    BY <1>2, <1>8, <2>1
  <2>6. DecodeFrom(d, v, h, t) = r
    BY <1>3, <2>2, <2>4, <2>5 DEF DecodeFrom
  <2> QED
    BY <2>6 DEF d
<1> QED
  BY <1>6, <1>7 DEF r

\* A frame that is complete is read the same whatever follows it.
LEMMA DecodeFrame ==
  ASSUME NEW data \in Cells, Decode(data).res = "frame"
  PROVE  LET r == Decode(data)
         IN  /\ r.frame \in Frame
             /\ r.used \in 1..Len(data)
             /\ \A rest \in Cells : Decode(data \o rest) = r
<1>1. Len(data) \in Nat /\ \A i \in 1..Len(data) : data[i] \in Nat
  BY LenProperties, ElementOfSeq DEF Cells
<1>2. ~(Len(data) < HeaderSize) /\ data[1] = Magic /\ Len(data) >= 7
  BY <1>1 DEF Decode, Result, HeaderSize
<1>3. 1 \in 1..Len(data) /\ 2 \in 1..Len(data) /\ data[2] \in Nat
  BY <1>1, <1>2
<1>4. ASSUME NEW rest \in Cells
      PROVE  ~(Len(data \o rest) < HeaderSize) /\ (data \o rest)[1] = Magic /\ (data \o rest)[2] = data[2]
  <2>1. Len(rest) \in Nat
    BY LenProperties DEF Cells
  <2>2. 1 \in 1..(Len(data) + Len(rest)) /\ 2 \in 1..(Len(data) + Len(rest)) /\ 1 <= Len(data) /\ 2 <= Len(data)
    BY <1>1, <1>2, <2>1
  <2>3. Len(data \o rest) = Len(data) + Len(rest) /\ (data \o rest)[1] = data[1] /\ (data \o rest)[2] = data[2]
    BY <2>2, ConcatProperties DEF Cells
  <2> QED
    BY <1>1, <1>2, <2>1, <2>3 DEF HeaderSize
<1>5. CASE data[2] < 3
  <2>1. Decode(data) = DecodeFrom(data, 2, 6, 2)
    BY <1>2, <1>5 DEF Decode, DecodeV2, V2HeaderSize
  <2>2. \A rest \in Cells : Decode(data \o rest) = DecodeFrom(data \o rest, 2, 6, 2)
    BY <1>4, <1>5 DEF Decode, DecodeV2, V2HeaderSize
  <2>3. 2 \in Nat /\ 6 \in {6, 7} /\ 2 \in {2, 3}
    OBVIOUS
  <2> QED
    BY <1>2, <2>1, <2>2, <2>3, DecodeFromFrame
<1>6. CASE ~(data[2] < 3)
  <2>1. Decode(data) = DecodeFrom(data, data[2], 7, 3)
    BY <1>2, <1>6 DEF Decode, HeaderSize
  <2>2. \A rest \in Cells : Decode(data \o rest) = DecodeFrom(data \o rest, data[2], 7, 3)
    BY <1>4, <1>6 DEF Decode, HeaderSize
  <2>3. data[2] \in Nat /\ 7 \in {6, 7} /\ 3 \in {2, 3}
    BY <1>3
  <2> QED
    BY <1>2, <2>1, <2>2, <2>3, DecodeFromFrame
<1> QED
  BY <1>5, <1>6
-----------------------------------------------------------------------------
(* FramesIn takes one frame after another.                                 *)

\* The last n cells.
Ending(cells, n) == SubSeq(cells, Len(cells) - n + 1, Len(cells))

\* What FramesIn says of the last n cells, f being what it says of fewer.
InEnding(f, cells, n) ==
    LET r == Decode(Ending(cells, n))
    IN  IF r.res = "frame" THEN <<r.frame>> \o f[n - r.used] ELSE << >>

LEMMA EndingIs ==
  ASSUME NEW cells \in Cells, NEW n \in 0..Len(cells)
  PROVE  /\ Ending(cells, n) \in Cells
         /\ Len(Ending(cells, n)) = n
         /\ \A i \in 1..n : Ending(cells, n)[i] = cells[Len(cells) - n + i]
<1> DEFINE k == Len(cells) - n
<1>1. cells \in Seq(Nat) /\ Len(cells) \in Nat
  BY LenProperties DEF Cells
<1>2. k \in 0..Len(cells) /\ Len(cells) - k = n
  BY <1>1
<1> HIDE DEF k
<1>3. /\ SubSeq(cells, k + 1, Len(cells)) \in Seq(Nat)
      /\ Len(SubSeq(cells, k + 1, Len(cells))) = Len(cells) - k
      /\ \A i \in 1..(Len(cells) - k) : SubSeq(cells, k + 1, Len(cells))[i] = cells[k + i]
  <2>1. k \in 0..Len(cells)
    BY <1>2
  <2> QED
    BY <1>1, <2>1, DropIs, Zenon
<1>4. Ending(cells, n) = SubSeq(cells, k + 1, Len(cells))
  BY DEF Ending, k
<1> QED
  BY <1>2, <1>3, <1>4 DEF Cells, k

LEMMA EndingFrame ==
  ASSUME NEW cells \in Cells, NEW n \in 0..Len(cells), Decode(Ending(cells, n)).res = "frame"
  PROVE  LET r == Decode(Ending(cells, n))
         IN  r.frame \in Frame /\ r.used \in 1..n /\ n - r.used \in 0..(n - 1)
<1>1. Ending(cells, n) \in Cells /\ Len(Ending(cells, n)) = n
  BY EndingIs
<1> DEFINE r == Decode(Ending(cells, n))
<1>2. r.frame \in Frame /\ r.used \in 1..n
  BY <1>1, DecodeFrame
<1> HIDE DEF r
<1>3. n - r.used \in 0..(n - 1)
  BY <1>2
<1> QED
  BY <1>2, <1>3 DEF r

LEMMA InEndingExists ==
  ASSUME NEW cells \in Cells
  PROVE  \E f \in [0..Len(cells) -> Seq(Frame)] : \A k \in 0..Len(cells) : f[k] = InEnding(f, cells, k)
<1> DEFINE G == {n \in 0..Len(cells) :
                   \E f \in [0..n -> Seq(Frame)] : \A k \in 0..n : f[k] = InEnding(f, cells, k)}
<1>1. Len(cells) \in Nat
  BY LenProperties DEF Cells
<1>2. ASSUME NEW n \in 0..Len(cells), NEW S, NEW f \in [S -> Seq(Frame)], 0..(n - 1) \subseteq S
      PROVE  InEnding(f, cells, n) \in Seq(Frame)
  <2> DEFINE r == Decode(Ending(cells, n))
  <2>1. CASE r.res = "frame"
    <3>1. r.frame \in Frame /\ n - r.used \in 0..(n - 1)
      BY <2>1, EndingFrame
    <3> HIDE DEF r
    <3>2. <<r.frame>> \in Seq(Frame) /\ f[n - r.used] \in Seq(Frame)
      BY <1>2, <3>1
    <3>3. <<r.frame>> \o f[n - r.used] \in Seq(Frame)
      BY <3>2, ConcatProperties
    <3> QED
      BY <2>1, <3>3 DEF InEnding, r
  <2>2. CASE r.res # "frame"
    BY <2>2 DEF InEnding
  <2> QED
    BY <2>1, <2>2
<1>3. ASSUME NEW n \in 0..Len(cells), NEW f, NEW g, \A k \in 0..(n - 1) : f[k] = g[k]
      PROVE  InEnding(f, cells, n) = InEnding(g, cells, n)
  BY <1>3, EndingFrame DEF InEnding
<1>4. 0 \in G
  <2> DEFINE e == << >>
             f == [k \in 0..0 |-> InEnding(e, cells, 0)]
  <2>1. 0 \in 0..Len(cells) /\ 0..(0 - 1) = {} /\ 0..0 = {0} /\ e \in [{} -> Seq(Frame)]
    BY <1>1
  <2>2. InEnding(e, cells, 0) \in Seq(Frame)
    BY <1>2, <2>1
  <2>3. f \in [0..0 -> Seq(Frame)] /\ f[0] = InEnding(e, cells, 0)
    BY <2>1, <2>2
  <2>4. f[0] = InEnding(f, cells, 0)
    BY <1>3, <2>1, <2>3
  <2> HIDE DEF f
  <2> QED
    BY <2>1, <2>3, <2>4
<1>5. ASSUME NEW n \in 0..(Len(cells) - 1), n \in G PROVE n + 1 \in G
  <2>1. /\ n \in Nat /\ n + 1 \in 0..Len(cells) /\ (n + 1) - 1 = n
        /\ \A k \in 0..(n + 1) : k = n + 1 \/ k \in 0..n
        /\ \A k \in 0..n : k # n + 1 /\ k \in 0..Len(cells) /\ k \in 0..(n + 1) /\ 0..(k - 1) \subseteq 0..n
    BY <1>1
  <2>2. PICK f \in [0..n -> Seq(Frame)] : \A k \in 0..n : f[k] = InEnding(f, cells, k)
    BY <1>5
  <2> DEFINE g == [k \in 0..(n + 1) |-> IF k = n + 1 THEN InEnding(f, cells, n + 1) ELSE f[k]]
  <2>3. InEnding(f, cells, n + 1) \in Seq(Frame)
    BY <1>2, <2>1
  <2>4. g \in [0..(n + 1) -> Seq(Frame)]
    BY <2>1, <2>3
  <2>5. g[n + 1] = InEnding(f, cells, n + 1) /\ \A k \in 0..n : g[k] = f[k]
    BY <2>1
  <2> HIDE DEF g
  <2>6. g[n + 1] = InEnding(g, cells, n + 1)
    BY <1>3, <2>1, <2>5
  <2>7. ASSUME NEW k \in 0..n PROVE g[k] = InEnding(g, cells, k)
    <3>1. \A j \in 0..(k - 1) : f[j] = g[j]
      BY <2>1, <2>5
    <3>2. InEnding(f, cells, k) = InEnding(g, cells, k)
      BY <1>3, <2>1, <3>1
    <3> QED
      BY <2>2, <2>5, <3>2
  <2> QED
    BY <2>1, <2>4, <2>6, <2>7
<1> HIDE DEF G
<1>6. \A n \in 0..Len(cells) : n \in G
  BY <1>1, <1>4, <1>5, UpTo
<1>7. Len(cells) \in G
  BY <1>1, <1>6
<1> QED
  BY <1>7 DEF G

\* There is no other such function, and only the cells at the end count.
LEMMA InEndingUnique ==
  ASSUME NEW c \in Cells, NEW d \in Cells, NEW n \in 0..Len(c), n \in 0..Len(d), NEW f, NEW g,
         \A k \in 0..n : Ending(c, k) = Ending(d, k),
         \A k \in 0..n : f[k] = InEnding(f, c, k),
         \A k \in 0..n : g[k] = InEnding(g, d, k)
  PROVE  f[n] = g[n]
<1> DEFINE G == {m \in 0..n : \A k \in 0..m : f[k] = g[k]}
<1>1. n \in Nat /\ \A k \in 0..n : k \in 0..Len(c)
  <2>1. Len(c) \in Nat
    BY LenProperties DEF Cells
  <2> QED
    BY <2>1
<1>2. ASSUME NEW m \in 0..n, \A k \in 0..(m - 1) : f[k] = g[k]
      PROVE  f[m] = g[m]
  <2>1. InEnding(f, c, m) = InEnding(g, d, m)
    BY <1>1, <1>2, EndingFrame DEF InEnding
  <2> QED
    BY <2>1
<1>3. 0 \in G
  <2>1. 0 \in 0..n /\ 0..(0 - 1) = {} /\ 0..0 = {0}
    BY <1>1
  <2> QED
    BY <1>2, <2>1
<1>4. ASSUME NEW m \in 0..(n - 1), m \in G PROVE m + 1 \in G
  <2>1. m + 1 \in 0..n /\ (m + 1) - 1 = m /\ \A k \in 0..(m + 1) : k \in 0..m \/ k = m + 1
    BY <1>1
  <2>2. \A k \in 0..m : f[k] = g[k]
    BY <1>4
  <2>3. f[m + 1] = g[m + 1]
    BY <1>2, <2>1, <2>2
  <2> QED
    BY <2>1, <2>2, <2>3
<1> HIDE DEF G
<1>5. \A m \in 0..n : m \in G
  BY <1>1, <1>3, <1>4, UpTo
<1>6. n \in 0..n
  BY <1>1
<1> QED
  BY <1>5, <1>6 DEF G

LEMMA FramesInIs ==
  ASSUME NEW cells \in Cells
  PROVE  \E f \in [0..Len(cells) -> Seq(Frame)] :
            /\ \A k \in 0..Len(cells) : f[k] = InEnding(f, cells, k)
            /\ FramesIn(cells) = f[Len(cells)]
<1> DEFINE F(f) == f = [n \in 0..Len(cells) |->
                          LET r == Decode(SubSeq(cells, Len(cells) - n + 1, Len(cells)))
                          IN  IF r.res = "frame" THEN <<r.frame>> \o f[n - r.used] ELSE << >>]
           c == CHOOSE f : F(f)
<1>1. PICK f \in [0..Len(cells) -> Seq(Frame)] : \A k \in 0..Len(cells) : f[k] = InEnding(f, cells, k)
  BY InEndingExists
<1>2. F(f)
  BY <1>1 DEF InEnding, Ending
<1>3. F(c)
  <2> HIDE DEF F
  <2> QED
    BY <1>2
<1>4. FramesIn(cells) = c[Len(cells)]
  BY DEF FramesIn
<1> HIDE DEF c
<1>5. \A k \in 0..Len(cells) : c[k] = InEnding(c, cells, k)
  BY <1>3 DEF InEnding, Ending
<1> HIDE DEF F
<1>6. c[Len(cells)] = f[Len(cells)]
  <2>1. Len(cells) \in 0..Len(cells)
    <3>1. Len(cells) \in Nat
      BY LenProperties DEF Cells
    <3> QED
      BY <3>1
  <2> QED
    BY <1>1, <1>5, <2>1, InEndingUnique
<1> QED
  BY <1>1, <1>4, <1>6

LEMMA FramesInEnding ==
  ASSUME NEW cells \in Cells, NEW n \in 0..Len(cells), NEW f,
         \A k \in 0..Len(cells) : f[k] = InEnding(f, cells, k)
  PROVE  f[n] = FramesIn(Ending(cells, n))
<1>1. Len(cells) \in Nat
  BY LenProperties DEF Cells
<1> DEFINE N == Len(cells)
           e == Ending(cells, n)
<1>2. e \in Cells /\ Len(e) = n /\ \A i \in 1..n : e[i] = cells[N - n + i]
  BY EndingIs
<1> HIDE DEF e
<1>3. ASSUME NEW k \in 0..n PROVE Ending(cells, k) = Ending(e, k)
  <2>1. /\ k \in 0..N /\ k \in 0..Len(e)
        /\ \A i \in 1..k : n - k + i \in 1..n /\ N - n + (n - k + i) = N - k + i
    BY <1>1, <1>2
  <2>2. /\ Ending(cells, k) \in Cells /\ Len(Ending(cells, k)) = k
        /\ \A i \in 1..k : Ending(cells, k)[i] = cells[N - k + i]
    BY <2>1, EndingIs
  <2>3. /\ Ending(e, k) \in Cells /\ Len(Ending(e, k)) = k
        /\ \A i \in 1..k : Ending(e, k)[i] = e[n - k + i]
    BY <1>2, <2>1, EndingIs
  <2>4. \A i \in 1..k : Ending(cells, k)[i] = Ending(e, k)[i]
    BY <1>2, <2>1, <2>2, <2>3
  <2> QED
    BY <2>2, <2>3, <2>4, SeqEqual DEF Cells
<1>4. PICK g \in [0..Len(e) -> Seq(Frame)] :
         (\A k \in 0..Len(e) : g[k] = InEnding(g, e, k)) /\ FramesIn(e) = g[Len(e)]
  BY <1>2, FramesInIs
<1>5. f[n] = g[n]
  <2>1. n \in 0..Len(e)
    BY <1>1, <1>2
  <2>3. \A k \in 0..n : f[k] = InEnding(f, cells, k)
    BY <1>1
  <2>4. \A k \in 0..n : Ending(cells, k) = Ending(e, k)
    BY <1>3
  <2>5. e \in Cells
    BY <1>2
  <2>2. \A k \in 0..n : g[k] = InEnding(g, e, k)
    BY <1>2, <1>4
  <2> QED
    BY ONLY <2>1, <2>2, <2>3, <2>4, <2>5, InEndingUnique
<1> QED
  BY <1>2, <1>4, <1>5 DEF e

LEMMA FramesInStep ==
  ASSUME NEW data \in Cells
  PROVE  LET r == Decode(data)
         IN  /\ FramesIn(data) \in Seq(Frame)
             /\ r.res # "frame" => FramesIn(data) = << >>
             /\ r.res = "frame" =>
                  /\ r.frame \in Frame
                  /\ SubSeq(data, r.used + 1, Len(data)) \in Cells
                  /\ FramesIn(data) = <<r.frame>> \o FramesIn(SubSeq(data, r.used + 1, Len(data)))
<1> DEFINE r == Decode(data)
           N == Len(data)
<1>1. N \in Nat /\ N \in 0..N /\ N - N + 1 = 1
  <2>1. N \in Nat
    BY LenProperties DEF Cells
  <2> QED
    BY <2>1
<1>2. Ending(data, N) = data
  BY <1>1, SubSeqFull DEF Ending, Cells
<1>3. PICK f \in [0..N -> Seq(Frame)] :
         (\A k \in 0..N : f[k] = InEnding(f, data, k)) /\ FramesIn(data) = f[N]
  BY FramesInIs
<1>4. FramesIn(data) \in Seq(Frame) /\ FramesIn(data) = InEnding(f, data, N)
  BY <1>1, <1>3
<1>5. r.res # "frame" => FramesIn(data) = << >>
  BY <1>2, <1>4 DEF InEnding
<1>6. ASSUME r.res = "frame"
      PROVE  /\ r.frame \in Frame
             /\ SubSeq(data, r.used + 1, N) \in Cells
             /\ FramesIn(data) = <<r.frame>> \o FramesIn(SubSeq(data, r.used + 1, N))
  <2> DEFINE rest == SubSeq(data, r.used + 1, N)
             M == N - r.used
  <2>1. FramesIn(data) = <<r.frame>> \o f[M]
    BY <1>2, <1>4, <1>6 DEF InEnding
  <2>2. r.frame \in Frame /\ r.used \in 1..N
    BY <1>6, DecodeFrame
  <2> HIDE DEF r
  <2>3. M \in 0..N /\ M \in Nat /\ r.used = N - M
    BY <1>1, <2>2
  <2> HIDE DEF M
  <2>4. rest = Ending(data, M)
    BY <2>3 DEF Ending
  <2> HIDE DEF rest
  <2>5. rest \in Cells
    BY <2>3, <2>4, EndingIs
  <2>6. f[M] = FramesIn(rest)
    BY <1>3, <2>3, <2>4, FramesInEnding
  <2> QED
    BY <2>1, <2>2, <2>5, <2>6 DEF rest
<1> HIDE DEF r
<1> QED
  BY <1>4, <1>5, <1>6 DEF r
-----------------------------------------------------------------------------
(* The turns of the FLV parser's loop.                                     *)

\* The first n turns, as a function of their number.
InTurns(f, p, n) ==
    \A k \in 0..n : f[k] = IF k = 0 THEN p ELSE ParseTurn(f[k - 1])

LEMMA InTurnsExists ==
  ASSUME NEW p, NEW n \in Nat
  PROVE  \E f : InTurns(f, p, n)
<1> DEFINE G == {m \in 0..n : \E f : InTurns(f, p, m)}
<1>1. 0 \in G
  <2> DEFINE f == [k \in 0..0 |-> p]
  <2>1. f[0] = p /\ 0 \in 0..n /\ \A k \in 0..0 : k = 0
    OBVIOUS
  <2> HIDE DEF f
  <2>2. InTurns(f, p, 0)
    BY <2>1 DEF InTurns
  <2> QED
    BY <2>1, <2>2
<1>2. ASSUME NEW m \in 0..(n - 1), m \in G PROVE m + 1 \in G
  <2>1. PICK f : InTurns(f, p, m)
    BY <1>2
  <2> DEFINE g == [k \in 0..(m + 1) |-> IF k = m + 1 THEN ParseTurn(f[m]) ELSE f[k]]
  <2>2. /\ m + 1 \in 0..n /\ (m + 1) - 1 = m /\ m + 1 # 0 /\ m \in 0..m
        /\ \A k \in 0..m : k # m + 1 /\ k \in 0..(m + 1) /\ (k # 0 => k - 1 \in 0..m)
        /\ \A k \in 0..(m + 1) : k = m + 1 \/ k \in 0..m
    OBVIOUS
  <2>3. g[m + 1] = ParseTurn(f[m]) /\ \A k \in 0..m : g[k] = f[k]
    BY <2>2
  <2> HIDE DEF g
  <2>4. ASSUME NEW k \in 0..(m + 1) PROVE g[k] = IF k = 0 THEN p ELSE ParseTurn(g[k - 1])
    <3>1. CASE k = m + 1
      BY <2>2, <2>3, <3>1
    <3>2. CASE k \in 0..m
      BY <2>1, <2>2, <2>3, <3>2 DEF InTurns
    <3> QED
      BY <2>2, <3>1, <3>2
  <2>5. InTurns(g, p, m + 1)
    BY <2>4 DEF InTurns
  <2> QED
    BY <2>2, <2>5
<1> HIDE DEF G
<1>3. \A m \in 0..n : m \in G
  BY <1>1, <1>2, UpTo
<1>4. n \in 0..n
  OBVIOUS
<1> QED
  BY <1>3, <1>4 DEF G

LEMMA InTurnsUnique ==
  ASSUME NEW p, NEW n \in Nat, NEW f, NEW g, InTurns(f, p, n), InTurns(g, p, n)
  PROVE  f[n] = g[n]
<1> DEFINE G == {m \in 0..n : f[m] = g[m]}
<1>1. 0 \in G
  <2>1. 0 \in 0..n
    OBVIOUS
  <2> QED
    BY <2>1 DEF InTurns
<1>2. ASSUME NEW m \in 0..(n - 1), m \in G PROVE m + 1 \in G
  <2>1. m + 1 \in 0..n /\ (m + 1) - 1 = m /\ m + 1 # 0
    OBVIOUS
  <2>2. f[m + 1] = ParseTurn(f[m]) /\ g[m + 1] = ParseTurn(g[m])
    BY <2>1 DEF InTurns
  <2> QED
    BY <1>2, <2>1, <2>2
<1> HIDE DEF G
<1>3. \A m \in 0..n : m \in G
  BY <1>1, <1>2, UpTo
<1>4. n \in 0..n
  OBVIOUS
<1> QED
  BY <1>3, <1>4 DEF G

LEMMA TurnsIs ==
  ASSUME NEW p
  PROVE  Turns(p, 0) = p /\ \A n \in Nat : Turns(p, n + 1) = ParseTurn(Turns(p, n))
<1> DEFINE T(t) == t = [k \in Nat |-> IF k = 0 THEN p ELSE ParseTurn(t[k - 1])]
           c == CHOOSE t : T(t)
           upto(n) == CHOOSE f : InTurns(f, p, n)
           t0 == [n \in Nat |-> upto(n)[n]]
<1>1. \A n \in Nat : InTurns(upto(n), p, n)
  BY InTurnsExists
<1> HIDE DEF upto
<1>2. ASSUME NEW n \in Nat PROVE t0[n] = IF n = 0 THEN p ELSE ParseTurn(t0[n - 1])
  <2>1. n \in 0..n /\ (n # 0 => n - 1 \in Nat /\ \A k \in 0..(n - 1) : k \in 0..n)
    OBVIOUS
  <2>2. t0[n] = IF n = 0 THEN p ELSE ParseTurn(upto(n)[n - 1])
    BY <1>1, <2>1 DEF InTurns
  <2>3. ASSUME n # 0 PROVE upto(n)[n - 1] = t0[n - 1]
    <3>1. InTurns(upto(n), p, n - 1) /\ InTurns(upto(n - 1), p, n - 1) /\ n - 1 \in Nat
      BY <1>1, <2>1, <2>3 DEF InTurns
    <3>2. upto(n)[n - 1] = upto(n - 1)[n - 1]
      BY <3>1, InTurnsUnique
    <3> QED
      BY <3>1, <3>2
  <2> QED
    BY <2>2, <2>3
<1>3. T(t0)
  <2> DEFINE e == [k \in Nat |-> IF k = 0 THEN p ELSE ParseTurn(t0[k - 1])]
  <2>1. \A k \in Nat : t0[k] = e[k]
    BY <1>2
  <2>2. t0 = e
    BY <2>1
  <2> QED
    BY <2>2
<1> HIDE DEF t0
<1>4. T(c)
  <2> HIDE DEF T
  <2> QED
    BY <1>3
<1>5. \A n \in Nat : Turns(p, n) = c[n]
  BY DEF Turns
<1> HIDE DEF c
<1>6. \A k \in Nat : c[k] = IF k = 0 THEN p ELSE ParseTurn(c[k - 1])
  BY <1>4
<1> HIDE DEF T
<1>7. ASSUME NEW n \in Nat PROVE Turns(p, n + 1) = ParseTurn(Turns(p, n))
  <2>1. n + 1 \in Nat /\ n + 1 # 0 /\ (n + 1) - 1 = n
    OBVIOUS
  <2> QED
    BY <1>5, <1>6, <2>1
<1> QED
  BY <1>5, <1>6, <1>7
-----------------------------------------------------------------------------
(* One turn of the FLV parser's loop.                                      *)

Tag == [type : TagType, ts : Nat, data : Cells]

Parser == [buffer : Cells, header : BOOLEAN, out : Seq(Tag), error : BOOLEAN]

\* The parser with more bytes to look at.
Fed(p, cells) == [p EXCEPT !.buffer = @ \o cells]

\* Cells that come after those that are dropped.
LEMMA DropConcat ==
  ASSUME NEW b \in Cells, NEW c \in Cells, NEW n \in 0..Len(b)
  PROVE  /\ SubSeq(b, n + 1, Len(b)) \in Cells
         /\ Len(SubSeq(b, n + 1, Len(b))) = Len(b) - n
         /\ SubSeq(b \o c, n + 1, Len(b \o c)) = SubSeq(b, n + 1, Len(b)) \o c
<1>1. /\ b \in Seq(Nat) /\ c \in Seq(Nat) /\ Len(b) \in Nat /\ Len(c) \in Nat
  BY LenProperties DEF Cells
<1>2. /\ b \o c \in Seq(Nat) /\ Len(b \o c) = Len(b) + Len(c)
      /\ \A i \in 1..(Len(b) + Len(c)) : (b \o c)[i] = IF i <= Len(b) THEN b[i] ELSE c[i - Len(b)]
  BY <1>1, ConcatProperties
<1> DEFINE d == SubSeq(b, n + 1, Len(b))
           w == b \o c
           e == SubSeq(w, n + 1, Len(w))
<1>3. d \in Seq(Nat) /\ Len(d) = Len(b) - n /\ \A i \in 1..(Len(b) - n) : d[i] = b[n + i]
  BY <1>1, DropIs, Zenon
<1>4. e \in Seq(Nat) /\ Len(e) = Len(w) - n /\ \A i \in 1..(Len(w) - n) : e[i] = w[n + i]
  <2>1. n \in 0..Len(w)
    BY <1>1, <1>2
  <2> QED
    BY <1>2, <2>1, DropIs, Zenon
<1> HIDE DEF d, w, e
<1>5. /\ d \o c \in Seq(Nat) /\ Len(d \o c) = Len(d) + Len(c)
      /\ \A i \in 1..(Len(d) + Len(c)) : (d \o c)[i] = IF i <= Len(d) THEN d[i] ELSE c[i - Len(d)]
  BY <1>1, <1>3, ConcatProperties
<1>6. Len(w) = Len(b) + Len(c) /\ \A i \in 1..(Len(b) + Len(c)) : w[i] = IF i <= Len(b) THEN b[i] ELSE c[i - Len(b)]
  BY <1>2 DEF w
<1>7. ASSUME NEW i \in 1..Len(e) PROVE e[i] = (d \o c)[i]
  <2>1. i \in 1..(Len(w) - n) /\ n + i \in 1..(Len(b) + Len(c)) /\ i \in 1..(Len(d) + Len(c))
    BY <1>1, <1>3, <1>4, <1>6
  <2>4. e[i] = w[n + i]
    BY <1>4, <2>1
  <2>2. CASE i <= Len(d)
    <3>1. n + i <= Len(b) /\ i \in 1..(Len(b) - n)
      BY <1>1, <1>3, <2>1, <2>2
    <3>2. w[n + i] = b[n + i] /\ d[i] = b[n + i]
      BY <1>3, <1>6, <2>1, <3>1
    <3>3. (d \o c)[i] = d[i]
      BY <1>5, <2>1, <2>2
    <3> QED
      BY <2>4, <3>2, <3>3
  <2>3. CASE ~(i <= Len(d))
    <3>1. ~(n + i <= Len(b)) /\ n + i - Len(b) = i - Len(d)
      BY <1>1, <1>3, <2>1, <2>3
    <3>2. w[n + i] = c[n + i - Len(b)]
      BY <1>6, <2>1, <3>1
    <3>3. (d \o c)[i] = c[i - Len(d)]
      BY <1>5, <2>1, <2>3
    <3> QED
      BY <2>4, <3>1, <3>2, <3>3
  <2> QED
    BY <2>2, <2>3
<1>8. Len(e) = Len(d \o c)
  BY <1>1, <1>3, <1>4, <1>5, <1>6
<1>9. e = d \o c
  BY <1>4, <1>5, <1>7, <1>8, SeqEqual
<1> QED
  BY <1>3, <1>9 DEF Cells, d, e, w

\* The first cells stay where they are when others are added.
LEMMA PrefixStays ==
  ASSUME NEW b \in Cells, NEW c \in Cells
  PROVE  /\ b \o c \in Cells /\ Len(b \o c) = Len(b) + Len(c) /\ Len(b) \in Nat /\ Len(c) \in Nat
         /\ \A i \in 1..Len(b) : (b \o c)[i] = b[i] /\ b[i] \in Nat
         /\ \A n \in Nat : \A m \in Nat : n + m <= Len(b) =>
              /\ SubSeq(b \o c, n + 1, n + m) = SubSeq(b, n + 1, n + m)
              /\ SubSeq(b, n + 1, n + m) \in Cells
<1>1. /\ b \in Seq(Nat) /\ c \in Seq(Nat) /\ Len(b) \in Nat /\ Len(c) \in Nat
      /\ \A i \in 1..Len(b) : b[i] \in Nat
  BY LenProperties, ElementOfSeq DEF Cells
<1> DEFINE w == b \o c
<1>2. /\ w \in Seq(Nat) /\ Len(w) = Len(b) + Len(c)
      /\ \A i \in 1..(Len(b) + Len(c)) : w[i] = IF i <= Len(b) THEN b[i] ELSE c[i - Len(b)]
  BY <1>1, ConcatProperties
<1> HIDE DEF w
<1>3. \A i \in 1..Len(b) : i \in 1..(Len(b) + Len(c)) /\ i <= Len(b)
  BY <1>1
<1>4. \A i \in 1..Len(b) : w[i] = b[i]
  BY <1>2, <1>3
<1>5. ASSUME NEW n \in Nat, NEW m \in Nat, n + m <= Len(b)
      PROVE  SubSeq(w, n + 1, n + m) = SubSeq(b, n + 1, n + m) /\ SubSeq(b, n + 1, n + m) \in Cells
  <2> DEFINE x == SubSeq(w, n + 1, n + m)
             y == SubSeq(b, n + 1, n + m)
  <2>1. y \in Seq(Nat) /\ Len(y) = m /\ \A i \in 1..m : y[i] = b[n + i]
    <3>1. b \in Seq(Nat) /\ n + m <= Len(b)
      BY <1>1, <1>5
    <3> QED
      BY <3>1, CutIs, Zenon
  <2>2. x \in Seq(Nat) /\ Len(x) = m /\ \A i \in 1..m : x[i] = w[n + i]
    <3>1. w \in Seq(Nat) /\ n + m <= Len(w)
      BY <1>1, <1>2, <1>5
    <3> QED
      BY <3>1, CutIs, Zenon
  <2> HIDE DEF x, y
  <2>3. \A i \in 1..m : n + i \in 1..Len(b)
    BY <1>1, <1>5
  <2>4. \A i \in 1..m : x[i] = y[i]
    BY <1>4, <2>1, <2>2, <2>3
  <2>5. x = y
    BY <2>1, <2>2, <2>4, SeqEqual
  <2> QED
    BY <2>1, <2>5 DEF x, y, Cells
<1> QED
  BY <1>1, <1>2, <1>4, <1>5 DEF w, Cells

\* What a turn may do: nothing, give up, or take bytes.  A turn that does
\* something does the same if more bytes have come.
Progress(q) ==
    LET t == ParseTurn(q)
    IN  /\ t \in Parser
        /\ t.error \/ Len(t.buffer) < Len(q.buffer)
        /\ Len(q.buffer) > 0
        /\ \A c \in Cells : ParseTurn(Fed(q, c)) = Fed(t, c)

LEMMA FedIs ==
  ASSUME NEW q \in Parser, NEW c \in Cells
  PROVE  /\ Fed(q, c) \in Parser
         /\ Fed(q, c).buffer = q.buffer \o c /\ Fed(q, c).header = q.header
         /\ Fed(q, c).out = q.out /\ Fed(q, c).error = q.error
<1>1. q.buffer \o c \in Cells
  BY PrefixStays DEF Parser
<1> QED
  BY <1>1 DEF Fed, Parser

\* Dropping the first bytes is progress of that kind.
LEMMA DrainIs ==
  ASSUME NEW q \in Parser, NEW n \in 1..Len(q.buffer)
  PROVE  /\ Drain(q, n) \in Parser
         /\ Len(Drain(q, n).buffer) < Len(q.buffer)
         /\ \A c \in Cells : Drain(Fed(q, c), n) = Fed(Drain(q, n), c)
<1> DEFINE b == q.buffer
<1>1. b \in Cells /\ Len(b) \in Nat /\ n \in 0..Len(b)
  <2>1. b \in Cells
    BY DEF Parser
  <2>2. Len(b) \in Nat
    BY <2>1, LenProperties DEF Cells
  <2> QED
    BY <2>1, <2>2
<1>2. /\ SubSeq(b, n + 1, Len(b)) \in Cells
      /\ Len(SubSeq(b, n + 1, Len(b))) = Len(b) - n
      /\ \A c \in Cells : SubSeq(b \o c, n + 1, Len(b \o c)) = SubSeq(b, n + 1, Len(b)) \o c
  BY <1>1, DropConcat
<1>3. Drain(q, n) = [q EXCEPT !.buffer = SubSeq(b, n + 1, Len(b))]
  BY DEF Drain
<1>4. Drain(q, n) \in Parser /\ Drain(q, n).buffer = SubSeq(b, n + 1, Len(b))
  BY <1>2, <1>3 DEF Parser
<1>5. Len(b) - n < Len(b)
  BY <1>1
<1>6. ASSUME NEW c \in Cells PROVE Drain(Fed(q, c), n) = Fed(Drain(q, n), c)
  <2>1. Fed(q, c) = [q EXCEPT !.buffer = b \o c]
    BY DEF Fed
  <2>2. Drain(Fed(q, c), n) = [q EXCEPT !.buffer = SubSeq(b \o c, n + 1, Len(b \o c))]
    BY <2>1 DEF Drain, Parser
  <2>3. Fed(Drain(q, n), c) = [q EXCEPT !.buffer = SubSeq(b, n + 1, Len(b)) \o c]
    BY <1>3 DEF Fed, Parser
  <2> QED
    BY <1>2, <2>2, <2>3
<1> QED
  BY <1>2, <1>4, <1>5, <1>6

LEMMA BigEndianIsNat ==
  ASSUME NEW x \in Nat, NEW y \in Nat, NEW z \in Nat
  PROVE  BigEndian(x, y, z) \in Nat
BY DEF BigEndian

\* The result of a turn that makes progress.
LEMMA ProgressBy ==
  ASSUME NEW q \in Parser, NEW t \in Parser, ParseTurn(q) = t, Len(q.buffer) > 0,
         t.error \/ Len(t.buffer) < Len(q.buffer),
         \A c \in Cells : ParseTurn(Fed(q, c)) = Fed(t, c)
  PROVE  Progress(q)
BY DEF Progress

LEMMA HeaderProgress ==
  ASSUME NEW q \in Parser, ~q.error, ~q.header, ~(Len(q.buffer) < FlvHeaderLen), ParseHeader(q) # q
  PROVE  Progress(q)
<1> DEFINE b == q.buffer
           skip == HeaderSizeRead(b) + PrevTagSizeLen
           t == ParseHeader(q)
<1>0. b = q.buffer
  OBVIOUS
<1> HIDE DEF b
<1>1. b \in Cells /\ Len(b) \in Nat /\ Len(b) >= 9
  <2>1. b \in Cells
    BY <1>0 DEF Parser
  <2>2. Len(b) \in Nat
    BY <2>1, LenProperties DEF Cells
  <2> QED
    BY <1>0, <2>1, <2>2 DEF FlvHeaderLen
<1>2. ASSUME NEW c \in Cells
      PROVE  /\ b \o c \in Cells /\ Len(b \o c) = Len(b) + Len(c) /\ Len(c) \in Nat
             /\ SubSeq(b \o c, 1, 3) = SubSeq(b, 1, 3)
             /\ HeaderSizeRead(b \o c) = HeaderSizeRead(b)
  <2>0. b \in Cells
    BY <1>1
  <2>1. /\ b \o c \in Cells /\ Len(b \o c) = Len(b) + Len(c) /\ Len(c) \in Nat
        /\ \A i \in 1..Len(b) : (b \o c)[i] = b[i]
        /\ \A n \in Nat : \A m \in Nat : n + m <= Len(b) =>
             SubSeq(b \o c, n + 1, n + m) = SubSeq(b, n + 1, n + m)
    BY <2>0, PrefixStays, Zenon
  <2>2. PICK z \in Nat : z = 0
    OBVIOUS
  <2>3. (b \o c)[6] = b[6] /\ (b \o c)[7] = b[7] /\ (b \o c)[8] = b[8]
    BY <1>1, <2>1
  <2>4. SubSeq(b \o c, 1, 3) = SubSeq(b, 1, 3)
    <3>1. z + 1 = 1 /\ z + 3 = 3 /\ z + 3 <= Len(b)
      BY <1>1, <2>2
    <3>2. SubSeq(b \o c, z + 1, z + 3) = SubSeq(b, z + 1, z + 3)
      BY <2>1, <3>1
    <3> QED
      BY <3>1, <3>2
  <2> DEFINE w == b \o c
  <2>6. w[6] = b[6] /\ w[7] = b[7] /\ w[8] = b[8]
    BY <2>3
  <2> HIDE DEF w
  <2>7. HeaderSizeRead(w) = HeaderSizeRead(b)
    BY <2>6 DEF HeaderSizeRead
  <2>5. HeaderSizeRead(b \o c) = HeaderSizeRead(b)
    BY <2>7 DEF w
  <2> QED
    BY <2>1, <2>4, <2>5
<1>3. HeaderSizeRead(b) \in Nat /\ skip \in Nat /\ skip > 0
  <2>1. b[6] \in Nat /\ b[7] \in Nat /\ b[8] \in Nat
    <3>1. b \in Seq(Nat) /\ 6 \in 1..Len(b) /\ 7 \in 1..Len(b) /\ 8 \in 1..Len(b)
      BY <1>1 DEF Cells
    <3> QED
      BY <3>1, ElementOfSeq
  <2>2. HeaderSizeRead(b) \in Nat
    BY <2>1, BigEndianIsNat DEF HeaderSizeRead
  <2> QED
    BY <2>2 DEF PrevTagSizeLen
<1> HIDE DEF skip
<1>8. skip = HeaderSizeRead(b) + PrevTagSizeLen
  BY DEF skip
<1>4. ParseTurn(q) = t
  BY DEF ParseTurn
<1>5. \A c \in Cells : ParseTurn(Fed(q, c)) = ParseHeader(Fed(q, c)) /\ Fed(q, c).buffer = b \o c
  <2> SUFFICES ASSUME NEW c \in Cells
               PROVE  ParseTurn(Fed(q, c)) = ParseHeader(Fed(q, c)) /\ Fed(q, c).buffer = b \o c
    OBVIOUS
  <2>1. Fed(q, c).buffer = b \o c /\ Fed(q, c).header = q.header /\ Fed(q, c).error = q.error
    BY <1>0, FedIs
  <2>2. ~(Len(b \o c) < FlvHeaderLen)
    BY <1>1, <1>2 DEF FlvHeaderLen
  <2> QED
    BY <2>1, <2>2 DEF ParseTurn
<1>6. CASE SubSeq(b, 1, 3) # <<70, 76, 86>>
  <2>1. t = [q EXCEPT !.error = TRUE] /\ t \in Parser /\ t.error
    BY <1>0, <1>6 DEF ParseHeader, Parser
  <2>2. ASSUME NEW c \in Cells PROVE ParseHeader(Fed(q, c)) = Fed(t, c)
    <3>0. SubSeq(Fed(q, c).buffer, 1, 3) # <<70, 76, 86>>
      BY <1>2, <1>5, <1>6
    <3>1. ParseHeader(Fed(q, c)) = [Fed(q, c) EXCEPT !.error = TRUE]
      BY <3>0 DEF ParseHeader
    <3>2. [Fed(q, c) EXCEPT !.error = TRUE] = Fed(t, c)
      BY <2>1 DEF Fed, Parser
    <3> QED
      BY <3>1, <3>2
  <2> HIDE DEF t
  <2> QED
    <3>1. ParseTurn(q) = t /\ t \in Parser /\ t.error /\ Len(q.buffer) > 0
      BY <1>0, <1>1, <1>4, <2>1
    <3>2. \A c \in Cells : ParseTurn(Fed(q, c)) = Fed(t, c)
      BY <1>5, <2>2
    <3> QED
      BY <3>1, <3>2, ProgressBy
<1>7. CASE SubSeq(b, 1, 3) = <<70, 76, 86>>
  <2>1. ~(Len(b) < skip) /\ t = [Drain(q, skip) EXCEPT !.header = TRUE]
    BY <1>0, <1>7, <1>8 DEF ParseHeader
  <2>2. skip \in 1..Len(b)
    BY <1>1, <1>3, <2>1
  <2>3. /\ Drain(q, skip) \in Parser /\ Len(Drain(q, skip).buffer) < Len(b)
        /\ \A c \in Cells : Drain(Fed(q, c), skip) = Fed(Drain(q, skip), c)
    BY <1>0, <2>2, DrainIs
  <2>4. t \in Parser /\ t.buffer = Drain(q, skip).buffer
    BY <2>1, <2>3 DEF Parser
  <2>5. ASSUME NEW c \in Cells PROVE ParseHeader(Fed(q, c)) = Fed(t, c)
    <3>0. b \o c = Fed(q, c).buffer
      BY <1>5
    <3>1. SubSeq(b \o c, 1, 3) = <<70, 76, 86>>
      BY <1>2, <1>7
    <3>4. HeaderSizeRead(b \o c) + PrevTagSizeLen = skip
      BY <1>2, <1>8
    <3>5. ~(Len(b \o c) < skip)
      BY <1>1, <1>2, <1>3, <2>1
    <3>2. ParseHeader(Fed(q, c)) = [Drain(Fed(q, c), skip) EXCEPT !.header = TRUE]
      BY <3>0, <3>1, <3>4, <3>5 DEF ParseHeader
    <3>3. [Fed(Drain(q, skip), c) EXCEPT !.header = TRUE] = Fed(t, c)
      BY <2>1, <2>3 DEF Fed, Parser
    <3> QED
      BY <2>3, <3>2, <3>3
  <2> HIDE DEF t
  <2> QED
    BY <1>0, <1>1, <1>4, <1>5, <2>3, <2>4, <2>5, ProgressBy
<1> QED
  BY <1>6, <1>7

\* The tag that ParseTag finds at the start of b.
TagAt(b) ==
    LET size == BigEndian(b[2], b[3], b[4])
    IN  [type |-> b[1], ts |-> BigEndian(b[8] * 256 + b[5], b[6], b[7]),
         data |-> SubSeq(b, TagHeaderLen + 1, TagHeaderLen + size)]

TagSpan(b) == TagHeaderLen + BigEndian(b[2], b[3], b[4]) + PrevTagSizeLen

LEMMA TagAtIs ==
  ASSUME NEW b \in Cells, Len(b) >= 11
  PROVE  /\ TagSpan(b) \in Nat /\ TagSpan(b) > 0
         /\ \A c \in Cells : TagSpan(b \o c) = TagSpan(b) /\ (b \o c)[1] = b[1]
         /\ b[1] \in TagType /\ TagSpan(b) <= Len(b) =>
              TagAt(b) \in Tag /\ \A c \in Cells : TagAt(b \o c) = TagAt(b)
<1> DEFINE size == BigEndian(b[2], b[3], b[4])
<1>1. Len(b) \in Nat /\ \A i \in 1..8 : b[i] \in Nat /\ i \in 1..Len(b)
  <2>1. b \in Seq(Nat) /\ Len(b) \in Nat
    BY LenProperties DEF Cells
  <2>2. \A i \in 1..8 : i \in 1..Len(b)
    BY <2>1
  <2> QED
    BY <2>1, <2>2, ElementOfSeq
<1>2. size \in Nat
  <2>1. b[2] \in Nat /\ b[3] \in Nat /\ b[4] \in Nat
    BY <1>1
  <2> QED
    BY <2>1, BigEndianIsNat
<1>3. BigEndian(b[8] * 256 + b[5], b[6], b[7]) \in Nat
  <2>1. b[5] \in Nat /\ b[6] \in Nat /\ b[7] \in Nat /\ b[8] \in Nat
    BY <1>1
  <2>2. b[8] * 256 + b[5] \in Nat
    BY <2>1
  <2> QED
    BY <2>1, <2>2, BigEndianIsNat
<1>4. TagHeaderLen \in Nat /\ TagHeaderLen = 11 /\ PrevTagSizeLen = 4
  BY DEF TagHeaderLen, PrevTagSizeLen
<1>5. TagSpan(b) = TagHeaderLen + size + PrevTagSizeLen
  BY DEF TagSpan
<1> HIDE DEF size
<1>6. TagSpan(b) \in Nat /\ TagSpan(b) > 0
  BY <1>2, <1>4, <1>5
<1>7. ASSUME NEW c \in Cells
      PROVE  /\ \A i \in 1..8 : (b \o c)[i] = b[i]
             /\ \A n \in Nat : \A m \in Nat : n + m <= Len(b) =>
                  /\ SubSeq(b \o c, n + 1, n + m) = SubSeq(b, n + 1, n + m)
                  /\ SubSeq(b, n + 1, n + m) \in Cells
  <2>1. /\ \A i \in 1..Len(b) : (b \o c)[i] = b[i] /\ b[i] \in Nat
        /\ \A n \in Nat : \A m \in Nat : n + m <= Len(b) =>
             /\ SubSeq(b \o c, n + 1, n + m) = SubSeq(b, n + 1, n + m)
             /\ SubSeq(b, n + 1, n + m) \in Cells
    BY PrefixStays, Zenon
  <2> QED
    BY <1>1, <2>1
<1>8. ASSUME NEW c \in Cells
      PROVE  /\ (b \o c)[1] = b[1] /\ TagSpan(b \o c) = TagSpan(b)
             /\ SubSeq(b \o c, TagHeaderLen + 1, TagHeaderLen + size)
                  = SubSeq(b, TagHeaderLen + 1, TagHeaderLen + size) => TagAt(b \o c) = TagAt(b)
  <2> DEFINE w == b \o c
  <2>1. \A i \in 1..8 : w[i] = b[i]
    BY <1>7
  <2> HIDE DEF w
  <2>2. /\ w[1] = b[1] /\ w[2] = b[2] /\ w[3] = b[3] /\ w[4] = b[4]
        /\ w[5] = b[5] /\ w[6] = b[6] /\ w[7] = b[7] /\ w[8] = b[8]
    BY <2>1
  <2>3. TagSpan(w) = TagSpan(b)
    BY <2>2 DEF TagSpan
  <2>4. SubSeq(w, TagHeaderLen + 1, TagHeaderLen + size) = SubSeq(b, TagHeaderLen + 1, TagHeaderLen + size)
          => TagAt(w) = TagAt(b)
    BY <2>2 DEF TagAt, size
  <2> QED
    BY <2>2, <2>3, <2>4 DEF w
<1>9. ASSUME b[1] \in TagType, TagSpan(b) <= Len(b)
      PROVE  TagAt(b) \in Tag /\ \A c \in Cells : TagAt(b \o c) = TagAt(b)
  <2>1. TagHeaderLen + size <= Len(b)
    BY <1>1, <1>2, <1>4, <1>5, <1>9
  <2>2. SubSeq(b, TagHeaderLen + 1, TagHeaderLen + size) \in Cells
    <3>1. b \in Seq(Nat)
      BY DEF Cells
    <3>2. SubSeq(b, TagHeaderLen + 1, TagHeaderLen + size) \in Seq(Nat)
      BY <1>2, <1>4, <2>1, <3>1, CutIs
    <3> QED
      BY <3>2 DEF Cells
  <2>3. TagAt(b) \in Tag
    BY <1>3, <1>9, <2>2 DEF TagAt, Tag, size
  <2>4. ASSUME NEW c \in Cells PROVE TagAt(b \o c) = TagAt(b)
    <3>1. SubSeq(b \o c, TagHeaderLen + 1, TagHeaderLen + size) = SubSeq(b, TagHeaderLen + 1, TagHeaderLen + size)
      BY <1>2, <1>4, <1>7, <2>1
    <3> QED
      BY <1>8, <3>1
  <2> QED
    BY <2>3, <2>4
<1> QED
  BY <1>6, <1>8, <1>9

LEMMA ParseTagIs ==
  ASSUME NEW p
  PROVE  LET b == p.buffer
         IN  /\ b[1] \notin TagType => ParseTag(p) = Drain(p, TagHeaderLen)
             /\ b[1] \in TagType /\ Len(b) < TagSpan(b) => ParseTag(p) = p
             /\ b[1] \in TagType /\ ~(Len(b) < TagSpan(b)) =>
                  ParseTag(p) = [Drain(p, TagSpan(b)) EXCEPT !.out = Append(@, TagAt(b))]
BY DEF ParseTag, TagSpan, TagAt

LEMMA TagProgress ==
  ASSUME NEW q \in Parser, ~q.error, q.header, ~(Len(q.buffer) < TagHeaderLen), ParseTag(q) # q
  PROVE  Progress(q)
<1> DEFINE b == q.buffer
           t == ParseTag(q)
<1>0. b = q.buffer
  OBVIOUS
<1> HIDE DEF b
<1>1. b \in Cells /\ Len(b) \in Nat /\ Len(b) >= 11
  <2>1. b \in Cells
    BY <1>0 DEF Parser
  <2>2. Len(b) \in Nat
    BY <2>1, LenProperties DEF Cells
  <2> QED
    BY <1>0, <2>1, <2>2 DEF TagHeaderLen
<1>2. /\ TagSpan(b) \in Nat /\ TagSpan(b) > 0
      /\ \A c \in Cells : TagSpan(b \o c) = TagSpan(b) /\ (b \o c)[1] = b[1]
      /\ b[1] \in TagType /\ TagSpan(b) <= Len(b) =>
           TagAt(b) \in Tag /\ \A c \in Cells : TagAt(b \o c) = TagAt(b)
  BY <1>1, TagAtIs
<1>3. ParseTurn(q) = t
  BY DEF ParseTurn
<1>4. ASSUME NEW c \in Cells
      PROVE  /\ ParseTurn(Fed(q, c)) = ParseTag(Fed(q, c)) /\ Fed(q, c).buffer = b \o c
             /\ Len(b \o c) = Len(b) + Len(c) /\ Len(c) \in Nat
  <2>1. Fed(q, c).buffer = b \o c /\ Fed(q, c).header = q.header /\ Fed(q, c).error = q.error
    BY <1>0, FedIs
  <2>2. Len(b \o c) = Len(b) + Len(c) /\ Len(c) \in Nat
    BY <1>1, PrefixStays
  <2>3. ~(Len(b \o c) < TagHeaderLen)
    BY <1>1, <2>2 DEF TagHeaderLen
  <2> QED
    BY <2>1, <2>2, <2>3 DEF ParseTurn
<1>5. CASE b[1] \notin TagType
  <2>1. t = Drain(q, TagHeaderLen) /\ TagHeaderLen \in 1..Len(b)
    BY <1>0, <1>1, <1>5, ParseTagIs DEF TagHeaderLen
  <2>2. /\ Drain(q, TagHeaderLen) \in Parser /\ Len(Drain(q, TagHeaderLen).buffer) < Len(b)
        /\ \A c \in Cells : Drain(Fed(q, c), TagHeaderLen) = Fed(Drain(q, TagHeaderLen), c)
    BY <1>0, <2>1, DrainIs
  <2>3. \A c \in Cells : ParseTag(Fed(q, c)) = Drain(Fed(q, c), TagHeaderLen)
    BY <1>2, <1>4, <1>5, ParseTagIs
  <2> HIDE DEF t
  <2>4. \A c \in Cells : ParseTurn(Fed(q, c)) = Fed(t, c)
    BY <1>4, <2>1, <2>2, <2>3
  <2>5. t \in Parser /\ Len(t.buffer) < Len(q.buffer) /\ Len(q.buffer) > 0
    BY <1>0, <1>1, <2>1, <2>2
  <2> QED
    BY <1>3, <2>4, <2>5, ProgressBy
<1>6. CASE b[1] \in TagType
  <2> DEFINE n == TagSpan(b)
             tag == TagAt(b)
  <2>1. ~(Len(b) < n) /\ t = [Drain(q, n) EXCEPT !.out = Append(@, tag)]
    BY <1>0, <1>6, ParseTagIs
  <2>2. n \in 1..Len(b) /\ n <= Len(b)
    BY <1>1, <1>2, <2>1
  <2>3. tag \in Tag /\ \A c \in Cells : TagAt(b \o c) = tag /\ TagSpan(b \o c) = n /\ (b \o c)[1] = b[1]
    BY <1>2, <1>6, <2>2
  <2> HIDE DEF n, tag, t
  <2>4. /\ Drain(q, n) \in Parser /\ Len(Drain(q, n).buffer) < Len(b)
        /\ \A c \in Cells : Drain(Fed(q, c), n) = Fed(Drain(q, n), c)
    BY <1>0, <2>2, DrainIs
  <2>5. t \in Parser /\ t.buffer = Drain(q, n).buffer
    <3>1. Append(Drain(q, n).out, tag) \in Seq(Tag)
      BY <2>3, <2>4, AppendProperties DEF Parser
    <3> QED
      BY <2>1, <2>4, <3>1 DEF Parser
  <2>6. ASSUME NEW c \in Cells PROVE ParseTurn(Fed(q, c)) = Fed(t, c)
    <3>1. (b \o c)[1] \in TagType /\ ~(Len(b \o c) < n)
      BY <1>1, <1>4, <1>6, <2>2, <2>3
    <3>2. ParseTag(Fed(q, c)) = [Drain(Fed(q, c), n) EXCEPT !.out = Append(@, tag)]
      BY <1>4, <2>3, <3>1, ParseTagIs
    <3>3. [Fed(Drain(q, n), c) EXCEPT !.out = Append(@, tag)] = Fed(t, c)
      BY <2>1, <2>4 DEF Fed, Parser
    <3> QED
      BY <1>4, <2>4, <3>2, <3>3
  <2>7. t \in Parser /\ Len(t.buffer) < Len(q.buffer) /\ Len(q.buffer) > 0
    BY <1>0, <1>1, <2>4, <2>5
  <2> QED
    BY <1>3, <2>6, <2>7, ProgressBy
<1> QED
  BY <1>5, <1>6

LEMMA ParseTurnIs ==
  ASSUME NEW q \in Parser
  PROVE  /\ ParseTurn(q) = q \/ Progress(q)
         /\ ParseTurn(q) \in Parser
         /\ q.error => ParseTurn(q) = q
<1>1. ParseTurn(q) = q \/ Progress(q)
  <2>1. CASE q.error
    BY <2>1 DEF ParseTurn
  <2>2. CASE ~q.error /\ ~q.header
    <3>1. Len(q.buffer) < FlvHeaderLen => ParseTurn(q) = q
      BY <2>2 DEF ParseTurn
    <3>2. ~(Len(q.buffer) < FlvHeaderLen) => ParseTurn(q) = ParseHeader(q)
      BY <2>2 DEF ParseTurn
    <3> QED
      BY <2>2, <3>1, <3>2, HeaderProgress
  <2>3. CASE ~q.error /\ q.header
    <3>1. Len(q.buffer) < TagHeaderLen => ParseTurn(q) = q
      BY <2>3 DEF ParseTurn
    <3>2. ~(Len(q.buffer) < TagHeaderLen) => ParseTurn(q) = ParseTag(q)
      BY <2>3 DEF ParseTurn
    <3> QED
      BY <2>3, <3>1, <3>2, TagProgress
  <2> QED
    BY <2>1, <2>2, <2>3
<1> QED
  BY <1>1 DEF Progress, ParseTurn
-----------------------------------------------------------------------------
(* The loop stops where it does however the bytes are cut.                 *)

\* Where the loop stops, waiting for bytes or in error.
Settled(q) == Turns(q, Len(q.buffer))

LEMMA TurnsTyped ==
  ASSUME NEW q \in Parser, NEW n \in Nat
  PROVE  Turns(q, n) \in Parser
<1> DEFINE G == {k \in 0..n : Turns(q, k) \in Parser}
<1>1. 0 \in G
  BY TurnsIs
<1>2. ASSUME NEW k \in 0..(n - 1), k \in G PROVE k + 1 \in G
  <2>1. k \in Nat /\ k + 1 \in 0..n
    OBVIOUS
  <2>2. Turns(q, k + 1) = ParseTurn(Turns(q, k))
    BY <2>1, TurnsIs
  <2> QED
    BY <1>2, <2>1, <2>2, ParseTurnIs
<1> HIDE DEF G
<1>3. \A k \in 0..n : k \in G
  BY <1>1, <1>2, UpTo
<1>4. n \in 0..n
  OBVIOUS
<1> QED
  BY <1>3, <1>4 DEF G

\* Once a turn does nothing, no turn does anything.
LEMMA TurnsStay ==
  ASSUME NEW q, NEW n \in Nat, ParseTurn(Turns(q, n)) = Turns(q, n), NEW d \in Nat
  PROVE  Turns(q, n + d) = Turns(q, n)
<1> DEFINE G == {k \in 0..d : Turns(q, n + k) = Turns(q, n)}
<1>1. 0 \in G
  <2>1. n + 0 = n /\ 0 \in 0..d
    OBVIOUS
  <2> QED
    BY <2>1
<1>2. ASSUME NEW k \in 0..(d - 1), k \in G PROVE k + 1 \in G
  <2>1. n + k \in Nat /\ n + (k + 1) = (n + k) + 1 /\ k + 1 \in 0..d
    OBVIOUS
  <2>2. Turns(q, (n + k) + 1) = ParseTurn(Turns(q, n + k))
    BY <2>1, TurnsIs
  <2>3. Turns(q, n + k) = Turns(q, n)
    BY <1>2
  <2> QED
    BY <2>1, <2>2, <2>3
<1> HIDE DEF G
<1>3. \A k \in 0..d : k \in G
  BY <1>1, <1>2, UpTo
<1>4. d \in 0..d
  OBVIOUS
<1> QED
  BY <1>3, <1>4 DEF G

\* As many turns as there are bytes are enough.
LEMMA SettledStays ==
  ASSUME NEW q \in Parser
  PROVE  Settled(q) \in Parser /\ ParseTurn(Settled(q)) = Settled(q)
<1> DEFINE L == Len(q.buffer)
           still(p) == ParseTurn(p) = p
           G == {n \in 0..L : still(Turns(q, n)) \/ Len(Turns(q, n).buffer) <= L - n}
<1>1. L \in Nat
  BY LenProperties DEF Parser, Cells
<1>2. \A p \in Parser : Len(p.buffer) \in Nat /\ (still(p) \/ Progress(p))
  BY LenProperties, ParseTurnIs DEF Parser, Cells
<1>3. 0 \in G
  <2>1. Turns(q, 0) = q
    BY TurnsIs
  <2> QED
    BY <1>1, <2>1
<1>4. ASSUME NEW n \in 0..(L - 1), n \in G PROVE n + 1 \in G
  <2> DEFINE t == Turns(q, n)
             u == Turns(q, n + 1)
  <2>1. n \in Nat /\ n + 1 \in Nat /\ n + 1 \in 0..L /\ L - (n + 1) = (L - n) - 1 /\ L - n \in Nat
    BY <1>1
  <2>2. t \in Parser /\ u \in Parser /\ u = ParseTurn(t)
    BY <2>1, TurnsIs, TurnsTyped
  <2>3. still(t) \/ Len(t.buffer) <= L - n
    BY <1>4
  <2> HIDE DEF t, u
  <2>4. still(u) \/ Len(u.buffer) <= L - (n + 1)
    <3>1. CASE still(t)
      BY <2>2, <3>1
    <3>2. CASE ~still(t)
      <4>1. u.error \/ Len(u.buffer) < Len(t.buffer)
        BY <1>2, <2>2, <3>2 DEF Progress
      <4>2. u.error => still(u)
        BY <2>2, ParseTurnIs
      <4>3. Len(u.buffer) \in Nat /\ Len(t.buffer) \in Nat
        BY <1>2, <2>2
      <4> HIDE DEF still
      <4> QED
        BY <2>1, <2>3, <3>2, <4>1, <4>2, <4>3
    <3> QED
      BY <3>1, <3>2
  <2> QED
    BY <2>1, <2>4 DEF u
<1> HIDE DEF G
<1>5. \A n \in 0..L : n \in G
  BY <1>1, <1>3, <1>4, UpTo
<1>6. L \in 0..L
  BY <1>1
<1>7. Turns(q, L) \in Parser
  BY <1>1, TurnsTyped
<1> DEFINE s == Turns(q, L)
<1>8. still(s) \/ Len(s.buffer) <= L - L
  BY <1>5, <1>6 DEF G
<1> HIDE DEF s
<1>9. still(s)
  <2>1. s \in Parser
    BY <1>7 DEF s
  <2>2. Len(s.buffer) > 0 => ~ (Len(s.buffer) <= L - L)
    BY <1>1, <1>2, <2>1
  <2> QED
    BY <1>2, <1>8, <2>1, <2>2 DEF Progress
<1> QED
  BY <1>7, <1>9 DEF s, Settled

LEMMA TurnsShift ==
  ASSUME NEW q, NEW n \in Nat
  PROVE  Turns(ParseTurn(q), n) = Turns(q, n + 1)
<1> DEFINE t == ParseTurn(q)
           G == {k \in 0..n : Turns(t, k) = Turns(q, k + 1)}
<1>1. 0 \in G
  <2>1. Turns(t, 0) = t /\ Turns(q, 0 + 1) = ParseTurn(Turns(q, 0)) /\ Turns(q, 0) = q /\ 0 \in 0..n
    BY TurnsIs
  <2> QED
    BY <2>1
<1> HIDE DEF t
<1>2. ASSUME NEW k \in 0..(n - 1), k \in G PROVE k + 1 \in G
  <2>1. k \in Nat /\ k + 1 \in Nat /\ k + 1 \in 0..n
    OBVIOUS
  <2>2. Turns(t, k + 1) = ParseTurn(Turns(t, k)) /\ Turns(q, (k + 1) + 1) = ParseTurn(Turns(q, k + 1))
    BY <2>1, TurnsIs
  <2> QED
    BY <1>2, <2>1, <2>2
<1> HIDE DEF G
<1>3. \A k \in 0..n : k \in G
  BY <1>1, <1>2, UpTo
<1>4. n \in 0..n
  OBVIOUS
<1> QED
  BY <1>3, <1>4 DEF G, t

LEMMA SettledAfterTurn ==
  ASSUME NEW q \in Parser
  PROVE  Settled(ParseTurn(q)) = Settled(q)
<1> DEFINE t == ParseTurn(q)
           L == Len(q.buffer)
           K == Len(t.buffer)
<1>1. CASE t = q
  BY <1>1
<1>2. CASE t # q
  <2>1. Progress(q) /\ t \in Parser
    BY <1>2, ParseTurnIs
  <2>2. L \in Nat /\ K \in Nat
    BY <2>1, LenProperties DEF Parser, Cells
  <2>3. L > 0 /\ (t.error \/ K < L)
    BY <2>1 DEF Progress
  <2>4. L - 1 \in Nat /\ (L - 1) + 1 = L
    BY <2>2, <2>3
  <2>5. Turns(q, L) = Turns(t, L - 1)
    BY <2>4, TurnsShift
  <2>6. Settled(t) = Turns(t, K) /\ Settled(q) = Turns(q, L)
    BY DEF Settled
  <2>7. ParseTurn(Turns(t, K)) = Turns(t, K)
    BY <2>1, <2>6, SettledStays
  <2> HIDE DEF t, L, K
  <2>8. CASE K < L
    <3>1. L - 1 - K \in Nat /\ K + (L - 1 - K) = L - 1
      BY <2>2, <2>8
    <3>2. Turns(t, K + (L - 1 - K)) = Turns(t, K)
      BY <2>2, <2>7, <3>1, TurnsStay
    <3> QED
      BY <2>5, <2>6, <3>1, <3>2 DEF t
  <2>9. CASE t.error
    <3>1. Turns(t, 0) = t /\ ParseTurn(t) = t
      BY <2>1, <2>9, ParseTurnIs, TurnsIs
    <3>2. \A d \in Nat : Turns(t, 0 + d) = t
      <4>1. 0 \in Nat /\ ParseTurn(Turns(t, 0)) = Turns(t, 0)
        BY <3>1
      <4> QED
        BY <3>1, <4>1, TurnsStay
    <3>3. 0 + K = K /\ 0 + (L - 1) = L - 1
      BY <2>2
    <3> QED
      BY <2>2, <2>4, <2>5, <2>6, <3>2, <3>3 DEF t
  <2> QED
    BY <2>3, <2>8, <2>9
<1> QED
  BY <1>1, <1>2

\* Turns taken before more bytes come are turns taken after.
LEMMA FedLater ==
  ASSUME NEW q \in Parser, NEW c \in Cells, NEW n \in Nat
  PROVE  Settled(Fed(Turns(q, n), c)) = Settled(Fed(q, c))
<1> DEFINE G == {k \in 0..n : Settled(Fed(Turns(q, k), c)) = Settled(Fed(q, c))}
<1>1. 0 \in G
  BY TurnsIs
<1>2. ASSUME NEW k \in 0..(n - 1), k \in G PROVE k + 1 \in G
  <2>1. k \in Nat /\ k + 1 \in 0..n
    OBVIOUS
  <2> DEFINE t == Turns(q, k)
  <2>2. Turns(q, k + 1) = ParseTurn(t) /\ t \in Parser
    BY <2>1, TurnsIs, TurnsTyped
  <2>3. Settled(Fed(t, c)) = Settled(Fed(q, c))
    BY <1>2
  <2> HIDE DEF t
  <2>4. Settled(Fed(ParseTurn(t), c)) = Settled(Fed(t, c))
    <3>1. CASE ParseTurn(t) = t
      BY <3>1
    <3>2. CASE ParseTurn(t) # t
      <4>1. ParseTurn(Fed(t, c)) = Fed(ParseTurn(t), c)
        BY <2>2, <3>2, ParseTurnIs DEF Progress
      <4>2. Fed(t, c) \in Parser
        BY <2>2, FedIs
      <4> QED
        BY <4>1, <4>2, SettledAfterTurn
    <3> QED
      BY <3>1, <3>2
  <2> QED
    BY <2>1, <2>2, <2>3, <2>4
<1> HIDE DEF G
<1>3. \A k \in 0..n : k \in G
  BY <1>1, <1>2, UpTo
<1>4. n \in 0..n
  OBVIOUS
<1> QED
  BY <1>3, <1>4 DEF G

\* A stream that comes in two chunks is parsed as if it had come in one.
LEMMA TwoChunks ==
  ASSUME NEW p \in Parser, NEW a \in Cells, NEW b \in Cells
  PROVE  /\ OnChunk(p, a) \in Parser
         /\ ParseTurn(OnChunk(p, a)) = OnChunk(p, a)
         /\ OnChunk(OnChunk(p, a), b) = OnChunk(p, a \o b)
<1>1. \A q, c : OnChunk(q, c) = Settled(Fed(q, c))
  BY DEF OnChunk, Settled, Fed
<1> DEFINE q == Fed(p, a)
           L == Len(q.buffer)
<1>2. q \in Parser
  BY FedIs
<1>3. L \in Nat
  <2>1. \A x \in Parser : Len(x.buffer) \in Nat
    BY LenProperties DEF Parser, Cells
  <2> HIDE DEF q
  <2> QED
    BY <1>2, <2>1
<1>4. Settled(Fed(Turns(q, L), b)) = Settled(Fed(q, b))
  BY <1>2, <1>3, FedLater
<1>5. Fed(q, b) = Fed(p, a \o b)
  <2>1. (p.buffer \o a) \o b = p.buffer \o (a \o b)
    <3>1. p.buffer \in Seq(Nat) /\ a \in Seq(Nat) /\ b \in Seq(Nat)
      BY DEF Parser, Cells
    <3>2. \A x, y, z \in Seq(Nat) : (x \o y) \o z = x \o (y \o z)
      BY ONLY ConcatAssociative
    <3> QED
      BY ONLY <3>1, <3>2
  <2>2. Fed(q, b) = [p EXCEPT !.buffer = (p.buffer \o a) \o b]
    BY DEF Fed, Parser
  <2> QED
    BY <2>1, <2>2 DEF Fed
<1>6. Turns(q, L) = Settled(q)
  BY DEF Settled
<1>7. Settled(q) \in Parser /\ ParseTurn(Settled(q)) = Settled(q)
  BY <1>2, SettledStays
<1>8. OnChunk(p, a) = Settled(q)
  BY <1>1
<1>9. OnChunk(OnChunk(p, a), b) = OnChunk(p, a \o b)
  BY <1>1, <1>4, <1>5, <1>6, <1>8
<1> QED
  BY <1>7, <1>8, <1>9

\* A parser that waits is not changed by a chunk without bytes.
LEMMA EmptyChunk ==
  ASSUME NEW p \in Parser, ParseTurn(p) = p
  PROVE  OnChunk(p, << >>) = p
<1>1. p.buffer \o << >> = p.buffer /\ Len(p.buffer) \in Nat
  BY ConcatEmptySeq, LenProperties DEF Parser, Cells
<1>2. [p EXCEPT !.buffer = @ \o << >>] = p
  BY <1>1 DEF Parser
<1>3. OnChunk(p, << >>) = Turns(p, Len(p.buffer))
  BY <1>2 DEF OnChunk
<1> DEFINE L == Len(p.buffer)
<1>4. Turns(p, 0 + L) = Turns(p, 0)
  <2>1. 0 \in Nat /\ Turns(p, 0) = p /\ L \in Nat
    BY <1>1, TurnsIs
  <2> HIDE DEF L
  <2> QED
    BY <2>1, TurnsStay
<1>5. 0 + L = L
  BY <1>1
<1> QED
  BY <1>3, <1>4, <1>5, TurnsIs
-----------------------------------------------------------------------------
(* What is sent.                                                           *)

SentFrame == {f \in Frame : f.version \in {2, 3}}

LEMMA SealIs ==
  ASSUME NEW n \in Nat, NEW c \in Nat
  PROVE  Seal(n, c) \in Cells /\ Len(Seal(n, c)) = n /\ \A i \in 1..n : Seal(n, c)[i] = c
BY DEF Seal, Cells

\* The cells of a frame: the header, then the payload.
LEMMA OnWireIs ==
  ASSUME NEW f \in Frame
  PROVE  LET w == OnWire(f)
             n == Len(f.payload)
         IN  /\ w \in Cells /\ n \in Nat
             /\ f.version = 2 =>
                  /\ Len(w) = 6 + n /\ \A i \in 1..n : w[6 + i] = f.payload[i]
                  /\ w[1] = Magic /\ w[2] = f.type /\ w[3] = 0 /\ w[4] = f.seq /\ w[5] = f.ts /\ w[6] = n
             /\ f.version # 2 =>
                  /\ Len(w) = 7 + n /\ \A i \in 1..n : w[7 + i] = f.payload[i]
                  /\ w[1] = Magic /\ w[2] = f.version /\ w[3] = f.type /\ w[4] = 0 /\ w[5] = f.seq
                  /\ w[6] = f.ts /\ w[7] = n
<1> DEFINE w == OnWire(f)
           n == Len(f.payload)
           h2 == <<Magic, f.type, 0, f.seq, f.ts, n>>
           h3 == <<Magic, f.version, f.type, 0, f.seq, f.ts, n>>
<1>1. /\ f.payload \in Seq(Nat) /\ n \in Nat /\ Magic \in Nat /\ f.type \in Nat /\ f.version \in Nat
      /\ f.seq \in Nat /\ f.ts \in Nat
  <2>1. f.payload \in Seq(Nat)
    BY DEF Frame, Cells
  <2> QED
    BY <2>1, LenProperties DEF Frame, FrameType, Magic
<1> HIDE DEF n
<1>2. CASE f.version = 2
  <2>1. h2 \in Seq(Nat) /\ Len(h2) = 6
    BY <1>1
  <2>2. h2[1] = Magic /\ h2[2] = f.type /\ h2[3] = 0 /\ h2[4] = f.seq /\ h2[5] = f.ts /\ h2[6] = n
    OBVIOUS
  <2>3. w = h2 \o f.payload
    BY <1>2 DEF OnWire, EncodeV2, n
  <2> HIDE DEF h2, w
  <2>4. /\ w \in Seq(Nat) /\ Len(w) = 6 + n
        /\ \A i \in 1..(6 + n) : w[i] = IF i <= 6 THEN h2[i] ELSE f.payload[i - 6]
    <3>1. /\ h2 \o f.payload \in Seq(Nat)
          /\ Len(h2 \o f.payload) = Len(h2) + Len(f.payload)
          /\ \A i \in 1..(Len(h2) + Len(f.payload)) :
               (h2 \o f.payload)[i] = IF i <= Len(h2) THEN h2[i] ELSE f.payload[i - Len(h2)]
      BY <1>1, <2>1, ConcatProperties, Zenon
    <3> QED
      BY <2>1, <2>3, <3>1 DEF n
  <2>5. \A i \in 1..n : 6 + i \in 1..(6 + n) /\ ~(6 + i <= 6) /\ (6 + i) - 6 = i
    BY <1>1
  <2>6. \A i \in 1..n : w[6 + i] = f.payload[i]
    BY <2>4, <2>5
  <2>7. \A i \in 1..6 : i \in 1..(6 + n) /\ i <= 6
    BY <1>1
  <2>8. \A i \in 1..6 : w[i] = h2[i]
    BY <2>4, <2>7, Zenon
  <2>9. /\ w[1] = h2[1] /\ w[2] = h2[2] /\ w[3] = h2[3] /\ w[4] = h2[4] /\ w[5] = h2[5] /\ w[6] = h2[6]
    BY <2>8
  <2> QED
    BY <1>1, <1>2, <2>2, <2>4, <2>6, <2>9 DEF n, w, Cells
<1>3. CASE f.version # 2
  <2>1. h3 \in Seq(Nat) /\ Len(h3) = 7
    BY <1>1
  <2>2. /\ h3[1] = Magic /\ h3[2] = f.version /\ h3[3] = f.type /\ h3[4] = 0 /\ h3[5] = f.seq
        /\ h3[6] = f.ts /\ h3[7] = n
    OBVIOUS
  <2>3. w = h3 \o f.payload
    BY <1>3 DEF OnWire, Encode, n
  <2> HIDE DEF h3, w
  <2>4. /\ w \in Seq(Nat) /\ Len(w) = 7 + n
        /\ \A i \in 1..(7 + n) : w[i] = IF i <= 7 THEN h3[i] ELSE f.payload[i - 7]
    <3>1. /\ h3 \o f.payload \in Seq(Nat)
          /\ Len(h3 \o f.payload) = Len(h3) + Len(f.payload)
          /\ \A i \in 1..(Len(h3) + Len(f.payload)) :
               (h3 \o f.payload)[i] = IF i <= Len(h3) THEN h3[i] ELSE f.payload[i - Len(h3)]
      BY <1>1, <2>1, ConcatProperties, Zenon
    <3> QED
      BY <2>1, <2>3, <3>1 DEF n
  <2>5. \A i \in 1..n : 7 + i \in 1..(7 + n) /\ ~(7 + i <= 7) /\ (7 + i) - 7 = i
    BY <1>1
  <2>6. \A i \in 1..n : w[7 + i] = f.payload[i]
    BY <2>4, <2>5
  <2>7. \A i \in 1..7 : i \in 1..(7 + n) /\ i <= 7
    BY <1>1
  <2>8. \A i \in 1..7 : w[i] = h3[i]
    BY <2>4, <2>7
  <2>9. /\ w[1] = h3[1] /\ w[2] = h3[2] /\ w[3] = h3[3] /\ w[4] = h3[4] /\ w[5] = h3[5]
        /\ w[6] = h3[6] /\ w[7] = h3[7]
    BY <2>8
  <2> QED
    BY <1>1, <1>3, <2>2, <2>4, <2>6, <2>9 DEF n, w, Cells
<1> QED
  BY <1>2, <1>3

LEMMA TagIsTyped ==
  ASSUME NEW t \in Tags
  PROVE  /\ t.type \in TagType /\ t.type \in Nat /\ t.ts \in Nat /\ t.data \in Cells
         /\ t = [type |-> t.type, ts |-> t.ts, data |-> t.data]
<1>1. 0..255 \subseteq Nat
  OBVIOUS
<1>2. t \in [type : TagType, ts : Nat, data : Seq(0..255)]
  BY WireAssumption
<1>3. t.data \in Cells
  BY <1>1, <1>2, SeqMonotonic DEF Cells
<1> QED
  BY <1>2, <1>3 DEF TagType

LEMMA ByteIsNat ==
  ASSUME NEW n \in Nat, NEW k \in {0, 1, 2, 3}
  PROVE  Byte(n, k) \in Nat
<1>1. 256^0 = 1 /\ 256^1 = 256 /\ 256^2 = 65536 /\ 256^3 = 16777216
  OBVIOUS
<1>2. /\ Byte(n, 0) = (n \div 1) % 256 /\ Byte(n, 1) = (n \div 256) % 256
      /\ Byte(n, 2) = (n \div 65536) % 256 /\ Byte(n, 3) = (n \div 16777216) % 256
  BY <1>1 DEF Byte
<1>3. Byte(n, 0) \in Nat /\ Byte(n, 1) \in Nat /\ Byte(n, 2) \in Nat /\ Byte(n, 3) \in Nat
  BY <1>2
<1>4. k = 0 \/ k = 1 \/ k = 2 \/ k = 3
  OBVIOUS
<1> QED
  BY <1>3, <1>4

\* The bytes of a number.
LEMMA NumbersAreCells ==
  ASSUME NEW n \in Nat
  PROVE  /\ Size(n) \in Cells
         /\ Word(n) \in Cells /\ Len(Word(n)) = 4
<1>1. Byte(n, 0) \in Nat /\ Byte(n, 1) \in Nat /\ Byte(n, 2) \in Nat /\ Byte(n, 3) \in Nat
  BY ByteIsNat
<1> QED
  BY <1>1 DEF Size, Word, Cells

LEMMA FlvWireIs ==
  /\ BuildFlvHeader \in Cells
  /\ \A t \in Tags : BuildFlvTagWire(t) \in Cells
<1>1. \A x, y \in Cells : x \o y \in Cells
  BY ConcatProperties DEF Cells
<1>2. BuildFlvHeader \in Cells
  <2>1. /\ <<70, 76, 86>> \in Cells /\ <<1>> \in Cells /\ <<5>> \in Cells
        /\ <<0, 0, 0, 9>> \in Cells /\ <<0, 0, 0, 0>> \in Cells
    BY DEF Cells
  <2> QED
    BY <1>1, <2>1 DEF BuildFlvHeader
<1>3. ASSUME NEW t \in Tags PROVE BuildFlvTagWire(t) \in Cells
  <2>1. t.type \in Nat /\ t.ts \in Nat
    BY TagIsTyped
  <2>2. t.data \in Cells /\ Len(t.data) \in Nat
    BY TagIsTyped, LenProperties DEF Cells
  <2>3. \A k \in {0, 1, 2, 3} : Byte(t.ts, k) \in Nat
    BY <2>1, ByteIsNat
  <2>4. /\ <<t.type>> \in Cells /\ <<0, 0, 0>> \in Cells
        /\ <<Byte(t.ts, 2), Byte(t.ts, 1), Byte(t.ts, 0), Byte(t.ts, 3)>> \in Cells
    BY <2>1, <2>3 DEF Cells
  <2>5. Size(Len(t.data)) \in Cells
    BY <2>2, NumbersAreCells
  <2>6. Word(TagHeaderLen + Len(t.data)) \in Cells
    <3>1. TagHeaderLen + Len(t.data) \in Nat
      BY <2>2 DEF TagHeaderLen
    <3> QED
      BY <3>1, NumbersAreCells
  <2> QED
    BY <1>1, <2>2, <2>4, <2>5, <2>6 DEF BuildFlvTagWire
<1> QED
  BY <1>2, <1>3
-----------------------------------------------------------------------------
(* The types of the variables.                                             *)

Message == [kind : {"binary"}, cells : Cells] \cup [kind : {"other"}]

Typed ==
    /\ recv \in {"decoder", "ws", "flv"}
    /\ recv = "flv" => sent \in Seq(Tags)
    /\ recv # "flv" => sent \in Seq(SentFrame)
    /\ recv = "ws" => line \in Seq(Message)
    /\ recv # "ws" => line \in Cells
    /\ arrived \in Cells
    /\ buffer \in Cells
    /\ parser \in Parser
    /\ got \in Seq(Frame)
    /\ enc \in Nat
    /\ dec \in Nat
    /\ opened \in Seq(Nat)

LEMMA TypedInit == WireInit => Typed
<1> SUFFICES ASSUME WireInit PROVE Typed
  OBVIOUS
<1>1. recv \in {"decoder", "ws", "flv"}
  BY WireAssumption DEF WireInit
<1>2. enc \in Nat
  <2>1. MaxSealed \in Nat
    BY WireAssumption
  <2> QED
    BY <2>1 DEF WireInit
<1>3. << >> \in Cells /\ << >> \in Seq(Frame) /\ << >> \in Seq(Nat) /\ << >> \in Seq(Tags)
      /\ << >> \in Seq(SentFrame) /\ << >> \in Seq(Message) /\ << >> \in Seq(Tag)
  BY DEF Cells
<1>4. parser \in Parser
  BY <1>3 DEF WireInit, NewParser, Parser
<1>5. recv # "ws" => line \in Cells
  BY <1>3, FlvWireIs DEF WireInit
<1> QED
  BY <1>1, <1>2, <1>3, <1>4, <1>5 DEF WireInit, Typed

\* The frame that Send makes.
LEMMA SendIs ==
  ASSUME Typed, NEW v \in {2, 3}, NEW t \in {Handshake, Data, Heartbeat}, NEW p \in Cells, Send(v, t, p)
  PROVE  \E f \in SentFrame :
           /\ f.version = v /\ f.type = t /\ f.payload = p
           /\ recv # "flv" /\ conn = "up"
           /\ sent' = Append(sent, f) /\ Post(f)
           /\ UNCHANGED <<recv, conn, arrived, buffer, parser, got, first, dec, opened>>
<1> DEFINE f == [version |-> v, type |-> t, seq |-> Len(sent),
                 ts |-> IF t = Data THEN 1 ELSE 0, payload |-> p]
<1>1. Len(sent) \in Nat
  BY LenProperties DEF Typed, Send
<1>2. f \in SentFrame
  BY <1>1 DEF SentFrame, Frame, FrameType, Handshake, Data, Heartbeat
<1> QED
  BY <1>2 DEF Send

LEMMA PostTyped ==
  ASSUME Typed, NEW f \in SentFrame, recv # "flv", Post(f)
  PROVE  /\ recv = "ws" => line' \in Seq(Message)
         /\ recv # "ws" => line' \in Cells
<1>1. OnWire(f) \in Cells
  BY OnWireIs DEF SentFrame
<1>2. [kind |-> "binary", cells |-> OnWire(f)] \in Message
  BY <1>1 DEF Message
<1>3. ASSUME recv = "ws" PROVE line' \in Seq(Message)
  <2>1. line \in Seq(Message) /\ line' = Append(line, [kind |-> "binary", cells |-> OnWire(f)])
    BY <1>3 DEF Typed, Post
  <2> QED
    BY <1>2, <2>1, AppendProperties
<1>4. ASSUME recv # "ws" PROVE line' \in Cells
  <2>1. line \in Cells /\ line' = line \o OnWire(f)
    BY <1>4 DEF Typed, Post
  <2> QED
    BY <1>1, <2>1, ConcatProperties DEF Cells
<1> QED
  BY <1>3, <1>4

\* What a step of the sender may change, in one form.
SenderStep ==
    /\ UNCHANGED <<recv, conn, arrived, buffer, parser, got, first, dec, opened>>
    /\ \/ /\ recv = "flv"
          /\ \E t \in Tags : sent' = Append(sent, t) /\ line' = line \o BuildFlvTagWire(t)
          /\ UNCHANGED enc
       \/ /\ recv # "flv"
          /\ \E f \in SentFrame :
                /\ sent' = Append(sent, f) /\ Post(f)
                /\ \/ f.type = Data /\ f.payload # << >> /\ f.payload[1] = enc /\ enc' = enc + 1
                   \/ f.payload = << >> /\ enc' = enc

LEMMA SealedIsSent ==
  ASSUME Typed, NEW v \in {2, 3}, NEW n \in Nat \ {0}, SendSealed(v, n)
  PROVE  SenderStep
<1>1. enc \in Nat
  BY DEF Typed
<1>2. /\ Seal(n, enc) \in Cells /\ Seal(n, enc)[1] = enc
      /\ Seal(n, enc) # << >>
  <2>1. Len(Seal(n, enc)) = n /\ \A i \in 1..n : Seal(n, enc)[i] = enc
    BY <1>1, SealIs
  <2>2. 1 \in 1..n /\ n # 0
    OBVIOUS
  <2> QED
    BY <1>1, <2>1, <2>2, SealIs
<1>3. Send(v, Data, Seal(n, enc)) /\ enc' = enc + 1
  BY DEF SendSealed
<1>4. PICK f \in SentFrame :
        /\ f.version = v /\ f.type = Data /\ f.payload = Seal(n, enc)
        /\ recv # "flv" /\ conn = "up"
        /\ sent' = Append(sent, f) /\ Post(f)
        /\ UNCHANGED <<recv, conn, arrived, buffer, parser, got, first, dec, opened>>
  BY <1>2, <1>3, SendIs
<1> QED
  BY <1>2, <1>3, <1>4 DEF SenderStep

LEMMA EmptyIsSent ==
  ASSUME Typed, NEW v \in {2, 3}, NEW t \in {Handshake, Data, Heartbeat}, SendEmpty(v, t)
  PROVE  SenderStep
<1>1. << >> \in Cells
  BY DEF Cells
<1>2. Send(v, t, << >>) /\ enc' = enc
  BY DEF SendEmpty
<1>3. PICK f \in SentFrame :
        /\ f.version = v /\ f.type = t /\ f.payload = << >>
        /\ recv # "flv" /\ conn = "up"
        /\ sent' = Append(sent, f) /\ Post(f)
        /\ UNCHANGED <<recv, conn, arrived, buffer, parser, got, first, dec, opened>>
  BY <1>1, <1>2, SendIs
<1> QED
  BY <1>2, <1>3 DEF SenderStep

\* A step that only concerns the connection.
ConnStep == UNCHANGED <<recv, sent, line, arrived, buffer, parser, got, first, cipherVars>>

LEMMA NextIs ==
  ASSUME Typed, [WireNext]_wireVars
  PROVE  \/ SenderStep
         \/ \E k \in 1..Len(line) : Feed(k) \/ PullChunk(k)
         \/ DecodeOne \/ WsRecv \/ WsOther \/ WsIgnores
         \/ ConnStep
<1>1. MaxPayload \in Nat
  BY PayloadAssumption
<1>2. ASSUME NEW n \in 1..(MaxPayload + 1), SendSealed(3, n) PROVE SenderStep
  <2>1. n \in Nat \ {0} /\ 3 \in {2, 3}
    BY <1>1
  <2> QED
    BY <1>2, <2>1, SealedIsSent
<1>3. ASSUME SendSealed(2, 1) PROVE SenderStep
  <2>1. 1 \in Nat \ {0} /\ 2 \in {2, 3}
    OBVIOUS
  <2> QED
    BY <1>3, <2>1, SealedIsSent
<1>4. ASSUME NEW t \in {Handshake, Data, Heartbeat}, NEW v \in {2, 3}, SendEmpty(v, t) PROVE SenderStep
  BY <1>4, EmptyIsSent
<1>5. ASSUME NEW t \in Tags, SendTag(t) PROVE SenderStep
  BY <1>5 DEF SendTag, SenderStep, cipherVars
<1>6. ASSUME \/ \E tt \in TransportType : Dial(tt)
             \/ WsDown
             \/ UNCHANGED wireVars
      PROVE  ConnStep
  BY <1>6 DEF Dial, WsDown, wireVars, ConnStep, cipherVars
<1>7. CASE WireNext
  <2>1. ASSUME \/ \E n \in 1..(MaxPayload + 1) : SendSealed(3, n)
               \/ SendSealed(2, 1)
               \/ \E t \in Tags : SendTag(t)
        PROVE  SenderStep
    BY <1>2, <1>3, <1>5, <2>1
  <2>2. ASSUME \/ \E t \in {Data, Heartbeat} : SendEmpty(3, t)
               \/ \E t \in {Handshake, Heartbeat} : SendEmpty(2, t)
        PROVE  SenderStep
    <3>1. 2 \in {2, 3} /\ 3 \in {2, 3}
      OBVIOUS
    <3> QED
      BY <1>4, <2>2, <3>1
  <2> HIDE DEF SenderStep
  <2> QED
    BY <1>6, <1>7, <2>1, <2>2 DEF WireNext
<1> QED
  BY <1>6, <1>7

\* Opening a payload keeps the numbers numbers.
LEMMA HandOnTyped ==
  ASSUME Typed, NEW f \in Frame, HandOn(f)
  PROVE  got' \in Seq(Frame) /\ dec' \in Nat /\ opened' \in Seq(Nat)
<1>1. got \in Seq(Frame) /\ dec \in Nat /\ opened \in Seq(Nat)
  BY DEF Typed
<1>2. got' \in Seq(Frame)
  BY <1>1, AppendProperties DEF HandOn
<1>3. Append(opened, dec) \in Seq(Nat)
  BY <1>1, AppendProperties
<1>4. dec' = dec \/ dec' = dec + 1
  BY DEF HandOn, Decrypt
<1>5. opened' = opened \/ opened' = Append(opened, dec)
  BY DEF HandOn, Decrypt
<1>6. dec' \in Nat
  BY <1>1, <1>4
<1>7. opened' \in Seq(Nat)
  BY <1>1, <1>3, <1>5
<1> QED
  BY <1>2, <1>6, <1>7

\* Cutting a chunk from what is under way.
LEMMA ChunkIs ==
  ASSUME NEW s \in Cells, NEW k \in 1..Len(s)
  PROVE  /\ SubSeq(s, 1, k) \in Cells /\ SubSeq(s, k + 1, Len(s)) \in Cells
         /\ Len(SubSeq(s, 1, k)) = k
         /\ SubSeq(s, 1, k) \o SubSeq(s, k + 1, Len(s)) = s
<1>1. s \in Seq(Nat) /\ Len(s) \in Nat /\ k \in 0..Len(s) /\ k \in Nat
  <2>1. s \in Seq(Nat) /\ Len(s) \in Nat
    BY LenProperties DEF Cells
  <2> QED
    BY <2>1
<1> DEFINE a == SubSeq(s, 1, k)
           b == SubSeq(s, k + 1, Len(s))
<1>2. a \in Seq(Nat) /\ Len(a) = k /\ \A i \in 1..k : a[i] = s[i]
  <2>1. s \in Seq(Nat) /\ k \in 0..Len(s)
    BY <1>1
  <2> QED
    BY <2>1, TakeIs, Zenon
<1>3. b \in Seq(Nat) /\ Len(b) = Len(s) - k /\ \A i \in 1..(Len(s) - k) : b[i] = s[k + i]
  <2>1. s \in Seq(Nat) /\ k \in 0..Len(s)
    BY <1>1
  <2> QED
    BY <2>1, DropIs, Zenon
<1> HIDE DEF a, b
<1>4. /\ a \o b \in Seq(Nat) /\ Len(a \o b) = Len(a) + Len(b)
      /\ \A i \in 1..(Len(a) + Len(b)) : (a \o b)[i] = IF i <= Len(a) THEN a[i] ELSE b[i - Len(a)]
  BY <1>2, <1>3, ConcatProperties
<1>5. Len(a \o b) = Len(s)
  BY <1>1, <1>2, <1>3, <1>4
<1>6. ASSUME NEW i \in 1..Len(a \o b) PROVE (a \o b)[i] = s[i]
  <2>1. i \in 1..(Len(a) + Len(b)) /\ i \in Nat
    BY <1>1, <1>2, <1>3, <1>4
  <2>2. CASE i <= k
    BY <1>2, <1>4, <2>1, <2>2
  <2>3. CASE ~(i <= k)
    <3>1. i - k \in 1..(Len(s) - k) /\ k + (i - k) = i
      BY <1>1, <1>5, <2>1, <2>3
    <3>2. (a \o b)[i] = b[i - k]
      BY <1>2, <1>4, <2>1, <2>3
    <3> QED
      BY <1>3, <3>1, <3>2
  <2> QED
    BY <2>2, <2>3
<1>7. a \o b = s
  BY <1>1, <1>4, <1>5, <1>6, SeqEqual
<1> QED
  BY <1>2, <1>3, <1>7 DEF a, b, Cells

LEMMA SenderTyped ==
  ASSUME Typed, SenderStep
  PROVE  Typed'
<1>1. CASE recv = "flv"
  <2>1. PICK t \in Tags : sent' = Append(sent, t) /\ line' = line \o BuildFlvTagWire(t)
    BY <1>1 DEF SenderStep
  <2>2. sent' \in Seq(Tags)
    BY <1>1, <2>1, AppendProperties DEF Typed
  <2>3. line' \in Cells
    <3>1. line \in Seq(Nat) /\ BuildFlvTagWire(t) \in Seq(Nat)
      BY <1>1, FlvWireIs DEF Typed, Cells
    <3> QED
      BY <2>1, <3>1, ConcatProperties DEF Cells
  <2> QED
    BY <1>1, <2>2, <2>3 DEF Typed, SenderStep
<1>2. CASE recv # "flv"
  <2>1. PICK f \in SentFrame : sent' = Append(sent, f) /\ Post(f) /\ (enc' = enc + 1 \/ enc' = enc)
    BY <1>2 DEF SenderStep
  <2>2. sent' \in Seq(SentFrame)
    BY <1>2, <2>1, AppendProperties DEF Typed
  <2>3. (recv = "ws" => line' \in Seq(Message)) /\ (recv # "ws" => line' \in Cells)
    BY <1>2, <2>1, PostTyped
  <2>4. enc' \in Nat
    BY <2>1 DEF Typed
  <2> QED
    BY <1>2, <2>2, <2>3, <2>4 DEF Typed, SenderStep
<1> QED
  BY <1>1, <1>2

\* The first message, for "ws".
LEMMA MessageIs ==
  ASSUME Typed, recv = "ws", line # << >>
  PROVE  /\ line[1] \in Message /\ (line[1].kind = "binary" => line[1].cells \in Cells)
         /\ Len(line) \in Nat /\ Len(line) > 0
         /\ Tail(line) \in Seq(Message) /\ Len(Tail(line)) = Len(line) - 1
         /\ \A i \in 1..(Len(line) - 1) : Tail(line)[i] = line[i + 1]
<1>1. line \in Seq(Message)
  BY DEF Typed
<1>2. Len(line) \in Nat /\ Len(line) > 0
  <2>1. Len(line) \in Nat \ {0}
    BY <1>1, EmptySeq
  <2> QED
    BY <2>1
<1>3. 1 \in 1..Len(line)
  BY <1>2
<1>4. line[1] \in Message
  BY <1>1, <1>3, ElementOfSeq
<1>5. line[1].kind = "binary" => line[1].cells \in Cells
  BY <1>4 DEF Message
<1>6. /\ Tail(line) \in Seq(Message) /\ Len(Tail(line)) = Len(line) - 1
      /\ \A i \in 1..Len(Tail(line)) : Tail(line)[i] = line[i + 1]
  BY <1>1, HeadTailProperties
<1> QED
  BY <1>2, <1>4, <1>5, <1>6

LEMMA TypedStep ==
  ASSUME Typed, [WireNext]_wireVars
  PROVE  Typed'
<1>1. CASE SenderStep
  BY <1>1, SenderTyped
<1>2. ASSUME NEW k \in 1..Len(line), Feed(k) PROVE Typed'
  <2>1. recv = "decoder" /\ line \in Cells /\ buffer \in Cells /\ arrived \in Cells
    BY <1>2 DEF Feed, Typed
  <2>2. SubSeq(line, 1, k) \in Cells /\ SubSeq(line, k + 1, Len(line)) \in Cells
    BY <2>1, ChunkIs
  <2>3. buffer \o SubSeq(line, 1, k) \in Cells /\ arrived \o SubSeq(line, 1, k) \in Cells
    BY <2>1, <2>2, PrefixStays
  <2> QED
    BY <1>2, <2>1, <2>2, <2>3 DEF Feed, Typed, cipherVars
<1>3. ASSUME NEW k \in 1..Len(line), PullChunk(k) PROVE Typed'
  <2>1. recv = "flv" /\ line \in Cells /\ parser \in Parser /\ arrived \in Cells
    BY <1>3 DEF PullChunk, Typed
  <2>2. SubSeq(line, 1, k) \in Cells /\ SubSeq(line, k + 1, Len(line)) \in Cells
    BY <2>1, ChunkIs
  <2>3. arrived \o SubSeq(line, 1, k) \in Cells
    BY <2>1, <2>2, PrefixStays
  <2>4. OnChunk(parser, SubSeq(line, 1, k)) \in Parser
    BY <2>1, <2>2, TwoChunks
  <2> QED
    BY <1>3, <2>1, <2>2, <2>3, <2>4 DEF PullChunk, Typed, cipherVars
<1>4. CASE DecodeOne
  <2> DEFINE r == Decode(buffer)
  <2>1. recv = "decoder" /\ r.res = "frame" /\ buffer \in Cells
    BY <1>4 DEF DecodeOne, Typed
  <2>2. r.frame \in Frame /\ SubSeq(buffer, r.used + 1, Len(buffer)) \in Cells
    BY <2>1, FramesInStep
  <2>3. HandOn(r.frame) /\ buffer' = SubSeq(buffer, r.used + 1, Len(buffer))
    BY <1>4 DEF DecodeOne
  <2> HIDE DEF r
  <2>4. got' \in Seq(Frame) /\ dec' \in Nat /\ opened' \in Seq(Nat)
    BY <2>2, <2>3, HandOnTyped
  <2> QED
    BY <1>4, <2>1, <2>2, <2>3, <2>4 DEF DecodeOne, Typed
<1>5. CASE WsRecv
  <2> DEFINE r == Decode(line[1].cells)
  <2>1. recv = "ws" /\ line # << >> /\ line[1].kind = "binary"
    BY <1>5 DEF WsRecv
  <2>2. line[1].cells \in Cells /\ Tail(line) \in Seq(Message)
    BY <2>1, MessageIs
  <2>3. got' \in Seq(Frame) /\ dec' \in Nat /\ opened' \in Seq(Nat)
    <3>1. CASE r.res = "frame"
      <4>1. r.frame \in Frame
        BY <2>2, <3>1, DecodeFrame
      <4>2. HandOn(r.frame)
        BY <1>5, <3>1 DEF WsRecv
      <4> HIDE DEF r
      <4> QED
        BY <4>1, <4>2, HandOnTyped
    <3>2. CASE r.res # "frame"
      BY <1>5, <3>2 DEF WsRecv, Typed
    <3> QED
      BY <3>1, <3>2
  <2> QED
    BY <1>5, <2>1, <2>2, <2>3 DEF WsRecv, Typed
<1>6. CASE WsOther
  <2>1. line \in Seq(Message) /\ [kind |-> "other"] \in Message /\ recv = "ws"
    BY <1>6 DEF WsOther, Typed, Message
  <2>2. Append(line, [kind |-> "other"]) \in Seq(Message)
    BY <2>1, AppendProperties
  <2> QED
    BY <1>6, <2>1, <2>2 DEF WsOther, Typed, cipherVars
<1>7. CASE WsIgnores
  <2>1. recv = "ws" /\ line # << >>
    BY <1>7 DEF WsIgnores
  <2>2. Tail(line) \in Seq(Message)
    BY <2>1, MessageIs
  <2> QED
    BY <1>7, <2>1, <2>2 DEF WsIgnores, Typed, cipherVars
<1>8. CASE ConnStep
  BY <1>8 DEF ConnStep, Typed, cipherVars
<1> QED
  BY <1>1, <1>2, <1>3, <1>4, <1>5, <1>6, <1>7, <1>8, NextIs
-----------------------------------------------------------------------------
(* Chunks.                                                                 *)

\* ChunkingIsInvisible, whatever comes next: what follows is read from here as it
\* would have been from the start.
Chunked ==
    /\ recv = "decoder" =>
          \A rest \in Cells : FramesIn(arrived \o rest) = got \o FramesIn(buffer \o rest)
    /\ recv = "flv" =>
          /\ ParseTurn(parser) = parser
          /\ \A rest \in Cells : OnChunk(NewParser, arrived \o rest) = OnChunk(parser, rest)

LEMMA ChunkedInit ==
  ASSUME WireInit
  PROVE  Chunked
<1>1. arrived = << >> /\ got = << >> /\ buffer = << >> /\ parser = NewParser
  BY DEF WireInit
<1>2. ASSUME NEW rest \in Cells PROVE << >> \o rest = rest
  BY ConcatEmptySeq DEF Cells
<1>3. ASSUME NEW rest \in Cells PROVE FramesIn(arrived \o rest) = got \o FramesIn(buffer \o rest)
  <2>1. FramesIn(rest) \in Seq(Frame)
    BY FramesInStep
  <2>2. << >> \o FramesIn(rest) = FramesIn(rest)
    BY <2>1, ConcatEmptySeq
  <2> QED
    BY <1>1, <1>2, <2>2
<1>4. ParseTurn(NewParser) = NewParser
  <2>1. Len(NewParser.buffer) = 0
    BY DEF NewParser
  <2> QED
    BY <2>1 DEF ParseTurn, NewParser, FlvHeaderLen
<1>5. ASSUME NEW rest \in Cells PROVE OnChunk(NewParser, arrived \o rest) = OnChunk(parser, rest)
  BY <1>1, <1>2
<1> QED
  BY <1>1, <1>3, <1>4, <1>5 DEF Chunked

LEMMA ConcatCells ==
  ASSUME NEW x \in Cells, NEW y \in Cells, NEW z \in Cells
  PROVE  x \o y \in Cells /\ (x \o y) \o z = x \o (y \o z)
<1>1. x \in Seq(Nat) /\ y \in Seq(Nat) /\ z \in Seq(Nat)
  BY DEF Cells
<1>2. x \o y \in Seq(Nat)
  BY <1>1, ConcatProperties
<1>3. (x \o y) \o z = x \o (y \o z)
  BY ONLY <1>1, ConcatAssociative
<1> QED
  BY <1>2, <1>3 DEF Cells

\* A frame that DecodeOne takes is the first of those in the buffer.
LEMMA DecodeOneTakes ==
  ASSUME NEW data \in Cells, Decode(data).res = "frame", NEW rest \in Cells
  PROVE  LET r == Decode(data)
         IN  FramesIn(data \o rest)
               = <<r.frame>> \o FramesIn(SubSeq(data, r.used + 1, Len(data)) \o rest)
<1> DEFINE r == Decode(data)
           w == data \o rest
<1>1. w \in Cells
  BY ConcatProperties DEF Cells
<1>2. Decode(w) = r /\ r.used \in 1..Len(data)
  BY DecodeFrame
<1> HIDE DEF r
<1>3. SubSeq(w, r.used + 1, Len(w)) = SubSeq(data, r.used + 1, Len(data)) \o rest
  <2>1. r.used \in 0..Len(data)
    BY <1>2
  <2> QED
    BY <2>1, DropConcat
<1> HIDE DEF w
<1>4. FramesIn(w) = <<r.frame>> \o FramesIn(SubSeq(w, r.used + 1, Len(w)))
  <2>1. Decode(w).res = "frame"
    BY <1>2 DEF r
  <2> QED
    BY <1>1, <1>2, <2>1, FramesInStep
<1> QED
  BY <1>3, <1>4 DEF r, w

LEMMA ChunkedStep ==
  ASSUME Typed, Chunked, [WireNext]_wireVars
  PROVE  Chunked'
<1>1. ASSUME UNCHANGED <<recv, arrived, buffer, parser, got>> PROVE Chunked'
  BY <1>1 DEF Chunked
<1>2. ASSUME NEW k \in 1..Len(line), Feed(k) PROVE Chunked'
  <2> DEFINE c == SubSeq(line, 1, k)
  <2>1. /\ recv = "decoder" /\ recv' = "decoder" /\ got' = got
        /\ arrived' = arrived \o c /\ buffer' = buffer \o c
        /\ arrived \in Cells /\ buffer \in Cells /\ line \in Cells
    BY <1>2 DEF Feed, Typed
  <2>2. c \in Cells
    BY <2>1, ChunkIs
  <2> HIDE DEF c
  <2>3. ASSUME NEW rest \in Cells
        PROVE  FramesIn(arrived' \o rest) = got' \o FramesIn(buffer' \o rest)
    <3>1. c \o rest \in Cells /\ (arrived \o c) \o rest = arrived \o (c \o rest)
          /\ (buffer \o c) \o rest = buffer \o (c \o rest)
      <4>1. arrived \in Cells /\ c \in Cells /\ rest \in Cells
        BY <2>1, <2>2
      <4>2. c \o rest \in Cells /\ (arrived \o c) \o rest = arrived \o (c \o rest)
        BY <4>1, ConcatCells, Zenon
      <4>3. buffer \in Cells
        BY <2>1
      <4>4. (buffer \o c) \o rest = buffer \o (c \o rest)
        BY <4>1, <4>3, ConcatCells, Zenon
      <4> QED
        BY <4>2, <4>4
    <3>2. FramesIn(arrived \o (c \o rest)) = got \o FramesIn(buffer \o (c \o rest))
      <4>1. \A z \in Cells : FramesIn(arrived \o z) = got \o FramesIn(buffer \o z)
        BY <2>1 DEF Chunked
      <4> QED
        BY <3>1, <4>1, Zenon
    <3> QED
      BY <2>1, <3>1, <3>2
  <2> QED
    BY <2>1, <2>3 DEF Chunked
<1>3. ASSUME NEW k \in 1..Len(line), PullChunk(k) PROVE Chunked'
  <2> DEFINE c == SubSeq(line, 1, k)
  <2>1. /\ recv = "flv" /\ recv' = "flv" /\ arrived' = arrived \o c /\ parser' = OnChunk(parser, c)
        /\ arrived \in Cells /\ parser \in Parser /\ line \in Cells
    BY <1>3 DEF PullChunk, Typed
  <2>2. c \in Cells
    BY <2>1, ChunkIs
  <2> HIDE DEF c
  <2>3. ParseTurn(parser') = parser'
    BY <2>1, <2>2, TwoChunks
  <2>4. ASSUME NEW rest \in Cells
        PROVE  OnChunk(NewParser, arrived' \o rest) = OnChunk(parser', rest)
    <3>1. c \o rest \in Cells /\ (arrived \o c) \o rest = arrived \o (c \o rest)
      <4>1. arrived \in Cells /\ c \in Cells /\ rest \in Cells
        BY <2>1, <2>2
      <4> QED
        BY <4>1, ConcatCells, Zenon
    <3>2. OnChunk(NewParser, arrived \o (c \o rest)) = OnChunk(parser, c \o rest)
      <4>1. \A z \in Cells : OnChunk(NewParser, arrived \o z) = OnChunk(parser, z)
        BY <2>1 DEF Chunked
      <4> QED
        BY <3>1, <4>1, Zenon
    <3>3. OnChunk(OnChunk(parser, c), rest) = OnChunk(parser, c \o rest)
      BY <2>1, <2>2, TwoChunks
    <3> QED
      BY <2>1, <3>1, <3>2, <3>3
  <2> QED
    BY <2>1, <2>3, <2>4 DEF Chunked
<1>4. CASE DecodeOne
  <2> DEFINE r == Decode(buffer)
             left == SubSeq(buffer, r.used + 1, Len(buffer))
  <2>1. /\ recv = "decoder" /\ recv' = "decoder" /\ r.res = "frame" /\ arrived' = arrived
        /\ buffer' = left /\ got' = Append(got, r.frame)
        /\ got \in Seq(Frame) /\ buffer \in Cells
    BY <1>4 DEF DecodeOne, HandOn, Typed
  <2>2. r.frame \in Frame /\ left \in Cells
    BY <2>1, FramesInStep
  <2>3. ASSUME NEW rest \in Cells
        PROVE  FramesIn(arrived' \o rest) = got' \o FramesIn(buffer' \o rest)
    <3>1. FramesIn(buffer \o rest) = <<r.frame>> \o FramesIn(left \o rest)
      BY <2>1, DecodeOneTakes
    <3>2. FramesIn(arrived \o rest) = got \o FramesIn(buffer \o rest)
      BY <2>1 DEF Chunked
    <3> HIDE DEF r, left
    <3>3. FramesIn(left \o rest) \in Seq(Frame)
      <4>1. left \o rest \in Cells
        BY <2>2, ConcatCells
      <4> QED
        BY <4>1, FramesInStep
    <3> DEFINE x == FramesIn(left \o rest)
    <3>4. got \in Seq(Frame) /\ <<r.frame>> \in Seq(Frame) /\ x \in Seq(Frame)
      BY <2>1, <2>2, <3>3
    <3> HIDE DEF x
    <3>5. (got \o <<r.frame>>) \o x = got \o (<<r.frame>> \o x)
      BY ONLY <3>4, ConcatAssociative
    <3>6. Append(got, r.frame) = got \o <<r.frame>>
      BY <2>1, <2>2, AppendIsConcat
    <3> QED
      BY <2>1, <3>1, <3>2, <3>5, <3>6 DEF x
  <2> QED
    BY <2>1, <2>3 DEF Chunked
<1>5. CASE SenderStep \/ WsOther \/ WsIgnores \/ ConnStep
  BY <1>1, <1>5 DEF SenderStep, WsOther, WsIgnores, ConnStep
<1>6. CASE WsRecv
  BY <1>6 DEF WsRecv, Chunked
<1> QED
  BY <1>2, <1>3, <1>4, <1>5, <1>6, NextIs

LEMMA ChunkedSuffices ==
  ASSUME Typed, Chunked
  PROVE  ChunkingIsInvisible
<1>1. arrived \in Cells /\ buffer \in Cells /\ parser \in Parser /\ << >> \in Cells
  BY DEF Typed, Cells
<1>2. arrived \o << >> = arrived /\ buffer \o << >> = buffer
  BY <1>1, ConcatEmptySeq DEF Cells
<1>3. recv = "decoder" => got \o FramesIn(buffer) = FramesIn(arrived)
  BY <1>1, <1>2 DEF Chunked
<1>4. recv = "flv" => parser = OnChunk(NewParser, arrived)
  BY <1>1, <1>2, EmptyChunk DEF Chunked
<1> QED
  BY <1>3, <1>4 DEF ChunkingIsInvisible

\* However the bytes of a connection are cut into chunks, FrameDecoder has handed
\* on or holds the frames that are in all of them, and the FLV parser is where it
\* would be had they come at once: for chunks of any size, and frames or tags in any
\* number (FrameDecoder::decode, pull_flv_stream).
THEOREM ChunkingNeverShows == WireSpec => []ChunkingIsInvisible
<1>1. WireInit => Typed /\ Chunked
  BY TypedInit, ChunkedInit
<1>2. Typed /\ Chunked /\ [WireNext]_wireVars => (Typed /\ Chunked)'
  BY TypedStep, ChunkedStep
<1>3. Typed /\ Chunked => ChunkingIsInvisible
  BY ChunkedSuffices
<1> QED
  BY <1>1, <1>2, <1>3, PTL DEF WireSpec
-----------------------------------------------------------------------------
(* What Decode makes of a frame that was sent.                             *)

\* The first cells of data are those of w.
Begins(data, w) == Len(w) <= Len(data) /\ \A i \in 1..Len(w) : data[i] = w[i]

\* Data that begin with a frame, whichever version its peer speaks: what Decode
\* finds is this frame, if anything, and it finds it if it may be read and a
\* current header has come.
LEMMA DecodeBegins ==
  ASSUME NEW f \in SentFrame, NEW data \in Cells, Begins(data, OnWire(f))
  PROVE  /\ Decode(data).res = "frame" =>
              /\ Readable(f) /\ Decode(data).frame = f
              /\ Decode(data).used = Len(OnWire(f)) /\ Len(data) >= 7
         /\ Readable(f) /\ Len(data) >= 7 => Decode(data).res = "frame"
<1> DEFINE w == OnWire(f)
           n == Len(f.payload)
           r == Decode(data)
<1>1. /\ f \in Frame /\ f.version \in {2, 3} /\ f.type \in FrameType /\ f.payload \in Seq(Nat)
      /\ n \in Nat /\ Len(data) \in Nat /\ data \in Seq(Nat) /\ MaxPayload \in Nat
  BY LenProperties, PayloadAssumption DEF SentFrame, Frame, Cells
<1>2. /\ f.version = 2 =>
           /\ Len(w) = 6 + n /\ \A i \in 1..n : w[6 + i] = f.payload[i]
           /\ w[1] = Magic /\ w[2] = f.type /\ w[3] = 0 /\ w[4] = f.seq /\ w[5] = f.ts /\ w[6] = n
      /\ f.version # 2 =>
           /\ Len(w) = 7 + n /\ \A i \in 1..n : w[7 + i] = f.payload[i]
           /\ w[1] = Magic /\ w[2] = f.version /\ w[3] = f.type /\ w[4] = 0 /\ w[5] = f.seq
           /\ w[6] = f.ts /\ w[7] = n
  BY <1>1, OnWireIs
<1>3. Len(w) <= Len(data) /\ \A i \in 1..Len(w) : data[i] = w[i]
  BY DEF Begins
<1>4. f = [version |-> f.version, type |-> f.type, seq |-> f.seq, ts |-> f.ts, payload |-> f.payload]
  BY <1>1 DEF Frame
<1> HIDE DEF w
<1>5. ASSUME NEW h \in {6, 7}, Len(w) = h + n, \A i \in 1..n : w[h + i] = f.payload[i]
      PROVE  SubSeq(data, h + 1, h + n) = f.payload
  <2> HIDE DEF n
  <2>1. h \in Nat /\ h + n <= Len(data) /\ n \in Nat
    BY <1>1, <1>3, <1>5
  <2>2. /\ SubSeq(data, h + 1, h + n) \in Seq(Nat)
        /\ Len(SubSeq(data, h + 1, h + n)) = n
        /\ \A i \in 1..n : SubSeq(data, h + 1, h + n)[i] = data[h + i]
    <3>1. data \in Seq(Nat) /\ h \in Nat /\ n \in Nat /\ h + n <= Len(data)
      BY <1>1, <2>1
    <3> QED
      BY <3>1, CutIs, Zenon
  <2>3. \A i \in 1..n : h + i \in 1..Len(w)
    BY <1>5, <2>1
  <2>4. \A i \in 1..n : SubSeq(data, h + 1, h + n)[i] = f.payload[i]
    BY <1>3, <1>5, <2>2, <2>3
  <2>5. Len(f.payload) = n
    BY DEF n
  <2> QED
    BY <1>1, <2>2, <2>4, <2>5, SeqEqual, Zenon
<1> HIDE DEF n
<1>6. CASE f.version = 2 /\ f.type < 3
  <2>1. Len(w) = 6 + n
    BY <1>2, <1>6
  <2>2. 1 \in 1..Len(w) /\ 2 \in 1..Len(w) /\ 3 \in 1..Len(w) /\ 4 \in 1..Len(w) /\ 5 \in 1..Len(w)
        /\ 6 \in 1..Len(w)
    BY <1>1, <2>1
  <2>3. /\ data[1] = Magic /\ data[2] = f.type /\ data[4] = f.seq /\ data[5] = f.ts /\ data[6] = n
    BY <1>2, <1>3, <1>6, <2>2
  <2>4. SubSeq(data, 7, 6 + n) = f.payload
    <3>1. SubSeq(data, 6 + 1, 6 + n) = f.payload
      BY <1>2, <1>5, <1>6, <2>1
    <3> QED
      BY <3>1
  <2>5. r = IF Len(data) < 7 THEN Result("none") ELSE DecodeFrom(data, 2, 6, 2)
    BY <1>6, <2>3 DEF Decode, DecodeV2, V2HeaderSize, HeaderSize
  <2>6. DecodeFrom(data, 2, 6, 2) =
          IF n > MaxPayload THEN Result("error")
          ELSE [res |-> "frame", frame |-> f, used |-> 6 + n]
    <3>1. ~(Len(data) < 6 + n) /\ f.type \in FrameType
      BY <1>1, <1>3, <2>1
    <3>2. [version |-> 2, type |-> data[2], seq |-> data[6 - 2], ts |-> data[6 - 1],
           payload |-> SubSeq(data, 6 + 1, 6 + n)] = f
      BY <1>4, <1>6, <2>3, <2>4
    <3> QED
      BY <2>3, <3>1, <3>2 DEF DecodeFrom
  <2>7. Readable(f) <=> ~(n > MaxPayload)
    BY <1>1, <1>6 DEF Readable, n
  <2> HIDE DEF r
  <2>8. Result("none").res # "frame" /\ Result("error").res # "frame"
    BY DEF Result
  <2> QED
    BY <1>1, <2>1, <2>5, <2>6, <2>7, <2>8 DEF w, r
<1>7. CASE f.version = 2 /\ ~(f.type < 3)
  <2>1. Len(w) = 6 + n
    BY <1>2, <1>7
  <2>2. 1 \in 1..Len(w) /\ 2 \in 1..Len(w) /\ 3 \in 1..Len(w)
    BY <1>1, <2>1
  <2>3. data[1] = Magic /\ data[2] = f.type /\ data[3] = 0
    BY <1>2, <1>3, <1>7, <2>2
  <2>4. r = IF Len(data) < 7 THEN Result("none") ELSE DecodeFrom(data, data[2], 7, 3)
    BY <1>7, <2>3 DEF Decode, HeaderSize
  <2>5. DecodeFrom(data, data[2], 7, 3) = Result("error")
    BY <2>3 DEF DecodeFrom, FrameType
  <2>6. r.res # "frame"
    BY <2>4, <2>5 DEF Result
  <2>7. ~Readable(f)
    BY <1>7 DEF Readable
  <2> QED
    BY <2>6, <2>7
<1>8. CASE f.version = 3
  <2>1. Len(w) = 7 + n
    BY <1>2, <1>8
  <2>2. 1 \in 1..Len(w) /\ 2 \in 1..Len(w) /\ 3 \in 1..Len(w) /\ 4 \in 1..Len(w) /\ 5 \in 1..Len(w)
        /\ 6 \in 1..Len(w) /\ 7 \in 1..Len(w)
    BY <1>1, <2>1
  <2>3. /\ data[1] = Magic /\ data[2] = 3 /\ data[3] = f.type /\ data[5] = f.seq /\ data[6] = f.ts
        /\ data[7] = n
    BY <1>2, <1>3, <1>8, <2>2
  <2>4. SubSeq(data, 8, 7 + n) = f.payload
    <3>1. SubSeq(data, 7 + 1, 7 + n) = f.payload
      BY <1>2, <1>5, <1>8, <2>1
    <3> QED
      BY <3>1
  <2>5. r = IF Len(data) < 7 THEN Result("none") ELSE DecodeFrom(data, 3, 7, 3)
    BY <2>3 DEF Decode, HeaderSize
  <2>6. DecodeFrom(data, 3, 7, 3) =
          IF n > MaxPayload THEN Result("error")
          ELSE [res |-> "frame", frame |-> f, used |-> 7 + n]
    <3>1. ~(Len(data) < 7 + n) /\ f.type \in FrameType
      BY <1>1, <1>3, <2>1
    <3>2. [version |-> 3, type |-> data[3], seq |-> data[7 - 2], ts |-> data[7 - 1],
           payload |-> SubSeq(data, 7 + 1, 7 + n)] = f
      BY <1>4, <1>8, <2>3, <2>4
    <3> QED
      BY <2>3, <3>1, <3>2 DEF DecodeFrom
  <2>7. Readable(f) <=> ~(n > MaxPayload)
    BY <1>1, <1>8 DEF Readable, n
  <2> HIDE DEF r
  <2>8. Result("none").res # "frame" /\ Result("error").res # "frame"
    BY DEF Result
  <2> QED
    BY <1>1, <2>1, <2>5, <2>6, <2>7, <2>8 DEF w, r
<1> QED
  BY <1>1, <1>6, <1>7, <1>8

\* A frame that is a message of its own.
LEMMA DecodeAlone ==
  ASSUME NEW f \in SentFrame
  PROVE  /\ Decode(OnWire(f)).res = "frame" <=> ReadableAlone(f)
         /\ Decode(OnWire(f)).res = "frame" => Decode(OnWire(f)).frame = f
<1>1. f \in Frame /\ OnWire(f) \in Cells /\ Len(OnWire(f)) \in Nat
  BY OnWireIs, LenProperties DEF SentFrame, Cells
<1>2. Begins(OnWire(f), OnWire(f))
  BY <1>1 DEF Begins
<1>3. Len(OnWire(f)) >= 7 <=> ~Short(f)
  <2>1. f.payload \in Seq(Nat) /\ f.version \in {2, 3}
    BY DEF SentFrame, Frame, Cells
  <2>2. Len(f.payload) \in Nat /\ (Len(f.payload) = 0 <=> f.payload = << >>)
    BY <2>1, EmptySeq, LenProperties
  <2>3. Len(OnWire(f)) = IF f.version = 2 THEN 6 + Len(f.payload) ELSE 7 + Len(f.payload)
    BY <1>1, OnWireIs
  <2> QED
    BY <2>1, <2>2, <2>3 DEF Short
<1> QED
  BY <1>1, <1>2, <1>3, DecodeBegins DEF ReadableAlone
-----------------------------------------------------------------------------
(* The frames of a byte stream, one after the other.                       *)

\* The cells of s, and nothing else, make up all; frame i ends at at[i].
LaidOut(all, at, s) ==
    /\ at \in [0..Len(s) -> 0..Len(all)]
    /\ at[Len(s)] = Len(all)
    /\ \A i \in 1..Len(s) :
          /\ at[i] = at[i - 1] + Len(OnWire(s[i]))
          /\ \A j \in 1..Len(OnWire(s[i])) : all[at[i - 1] + j] = OnWire(s[i])[j]

\* One more frame at the end leaves the others where they are.
LEMMA OneMore ==
  ASSUME NEW s \in Seq(SentFrame), NEW all \in Cells, NEW at, LaidOut(all, at, s), NEW f \in SentFrame
  PROVE  \E to : /\ LaidOut(all \o OnWire(f), to, Append(s, f))
                 /\ \A i \in 0..Len(s) : to[i] = at[i]
<1> DEFINE w == OnWire(f)
           n == Len(s)
           t == Append(s, f)
           b == all \o w
           to == [i \in 0..(n + 1) |-> IF i <= n THEN at[i] ELSE Len(b)]
<1>1. w \in Cells /\ n \in Nat
  BY OnWireIs, LenProperties DEF SentFrame
<1>2. /\ Len(b) = Len(all) + Len(w) /\ Len(all) \in Nat /\ Len(w) \in Nat
      /\ \A i \in 1..(Len(all) + Len(w)) : b[i] = IF i <= Len(all) THEN all[i] ELSE w[i - Len(all)]
  BY <1>1, ConcatProperties, LenProperties DEF Cells
<1>3. Len(t) = n + 1 /\ t[n + 1] = f /\ \A i \in 1..n : t[i] = s[i]
  BY AppendProperties
<1>4. /\ at \in [0..n -> 0..Len(all)] /\ at[n] = Len(all)
      /\ \A i \in 1..n :
            /\ at[i] = at[i - 1] + Len(OnWire(s[i]))
            /\ \A j \in 1..Len(OnWire(s[i])) : all[at[i - 1] + j] = OnWire(s[i])[j]
  BY DEF LaidOut
<1> HIDE DEF w, n, t, b
<1>5. to \in [0..(n + 1) -> 0..Len(b)]
  <2>1. ASSUME NEW i \in 0..(n + 1), i <= n PROVE at[i] \in 0..Len(b)
    <3>1. i \in 0..n
      BY <1>1, <2>1
    <3>2. at[i] \in 0..Len(all)
      BY <1>4, <3>1
    <3> QED
      BY <1>2, <3>2
  <2>2. Len(b) \in 0..Len(b)
    BY <1>2
  <2> QED
    BY <2>1, <2>2
<1>6. /\ \A i \in 0..n : to[i] = at[i] /\ i \in 0..(n + 1)
      /\ to[n + 1] = Len(b)
  BY <1>1
<1> HIDE DEF to
<1>7. ASSUME NEW i \in 1..(n + 1)
      PROVE  /\ to[i] = to[i - 1] + Len(OnWire(t[i]))
             /\ \A j \in 1..Len(OnWire(t[i])) : b[to[i - 1] + j] = OnWire(t[i])[j]
  <2>1. CASE i <= n
    <3>1. i \in 1..n /\ i \in 0..n /\ i - 1 \in 0..n
      BY <1>1, <2>1
    <3>2. to[i] = at[i] /\ to[i - 1] = at[i - 1] /\ t[i] = s[i]
      BY <1>3, <1>6, <3>1
    <3> DEFINE x == OnWire(s[i])
    <3>3. at[i] = at[i - 1] + Len(x) /\ \A j \in 1..Len(x) : all[at[i - 1] + j] = x[j]
      BY <1>4, <3>1
    <3>4. at[i] \in 0..Len(all) /\ at[i - 1] \in 0..Len(all)
      BY <1>4, <3>1
    <3>5. Len(x) \in Nat
      <4>1. s[i] \in Frame
        BY <3>1, ElementOfSeq DEF n, SentFrame
      <4> QED
        BY <4>1, OnWireIs, LenProperties DEF Cells
    <3> HIDE DEF x
    <3>6. ASSUME NEW j \in 1..Len(x) PROVE b[at[i - 1] + j] = x[j]
      <4>1. at[i - 1] + j \in 1..(Len(all) + Len(w)) /\ at[i - 1] + j <= Len(all)
        BY <1>2, <3>3, <3>4, <3>5
      <4>2. b[at[i - 1] + j] = all[at[i - 1] + j]
        BY <1>2, <4>1
      <4> QED
        BY <3>3, <4>2
    <3> QED
      BY <3>2, <3>3, <3>6 DEF x
  <2>2. CASE ~(i <= n)
    <3>1. i = n + 1 /\ i - 1 = n /\ n \in 0..n
      BY <1>1, <2>2
    <3>2. to[i] = Len(b) /\ to[i - 1] = Len(all) /\ t[i] = f
      BY <1>3, <1>4, <1>6, <3>1
    <3>3. ASSUME NEW j \in 1..Len(w) PROVE b[Len(all) + j] = w[j]
      <4>1. /\ Len(all) + j \in 1..(Len(all) + Len(w)) /\ ~(Len(all) + j <= Len(all))
            /\ (Len(all) + j) - Len(all) = j
        BY <1>2
      <4> QED
        BY <1>2, <4>1
    <3> QED
      BY <1>2, <3>2, <3>3 DEF w
  <2> QED
    BY <2>1, <2>2
<1>8. LaidOut(b, to, t)
  <2>1. Len(t) = n + 1
    BY <1>3
  <2> QED
    BY <1>5, <1>6, <1>7, <2>1 DEF LaidOut
<1> QED
  BY <1>6, <1>8 DEF w, n, t, b

\* What is left when the first m frames are taken begins with the next one, or
\* is empty.
LEMMA NextBegins ==
  ASSUME NEW s \in Seq(SentFrame), NEW pre \in Cells, NEW data \in Cells, NEW at,
         LaidOut(pre \o data, at, s), NEW m \in 0..Len(s), at[m] = Len(pre)
  PROVE  /\ m = Len(s) => data = << >>
         /\ m < Len(s) => /\ m + 1 \in 1..Len(s) /\ s[m + 1] \in SentFrame
                          /\ Begins(data, OnWire(s[m + 1]))
                          /\ at[m + 1] = Len(pre) + Len(OnWire(s[m + 1]))
<1> DEFINE all == pre \o data
           n == Len(s)
<1>1. n \in Nat /\ Len(pre) \in Nat /\ Len(data) \in Nat /\ m \in Nat
  <2>1. n \in Nat /\ Len(pre) \in Nat /\ Len(data) \in Nat
    BY LenProperties DEF Cells
  <2> QED
    BY <2>1
<1>2. /\ Len(all) = Len(pre) + Len(data)
      /\ \A i \in 1..(Len(pre) + Len(data)) : all[i] = IF i <= Len(pre) THEN pre[i] ELSE data[i - Len(pre)]
  BY ConcatProperties DEF Cells
<1>3. /\ at \in [0..n -> 0..Len(all)] /\ at[n] = Len(all)
      /\ \A i \in 1..n :
            /\ at[i] = at[i - 1] + Len(OnWire(s[i]))
            /\ \A j \in 1..Len(OnWire(s[i])) : all[at[i - 1] + j] = OnWire(s[i])[j]
  BY DEF LaidOut
<1> HIDE DEF all
<1>4. m = n => data = << >>
  <2>1. m = n => Len(data) = 0
    BY <1>1, <1>2, <1>3
  <2> QED
    BY <2>1, EmptySeq DEF Cells
<1>5. ASSUME m < n
      PROVE  /\ m + 1 \in 1..n /\ s[m + 1] \in SentFrame
             /\ Begins(data, OnWire(s[m + 1]))
             /\ at[m + 1] = Len(pre) + Len(OnWire(s[m + 1]))
  <2>1. m + 1 \in 1..n /\ (m + 1) - 1 = m /\ m + 1 \in 0..n
    BY <1>1, <1>5
  <2>2. s[m + 1] \in SentFrame
    BY <2>1, ElementOfSeq
  <2> DEFINE x == OnWire(s[m + 1])
  <2>3. Len(x) \in Nat
    BY <2>2, OnWireIs, LenProperties DEF Cells, SentFrame
  <2>4. at[m + 1] = Len(pre) + Len(x) /\ \A j \in 1..Len(x) : all[Len(pre) + j] = x[j]
    BY <1>3, <2>1
  <2>5. at[m + 1] \in 0..Len(all)
    BY <1>3, <2>1
  <2> HIDE DEF x
  <2>6. Len(x) <= Len(data)
    BY <1>1, <1>2, <2>3, <2>4, <2>5
  <2>7. ASSUME NEW j \in 1..Len(x) PROVE data[j] = x[j]
    <3>1. /\ Len(pre) + j \in 1..(Len(pre) + Len(data)) /\ ~(Len(pre) + j <= Len(pre))
          /\ (Len(pre) + j) - Len(pre) = j
      BY <1>1, <2>3, <2>6
    <3>2. all[Len(pre) + j] = data[j]
      BY <1>2, <3>1
    <3> QED
      BY <2>4, <3>2
  <2> QED
    BY <2>1, <2>2, <2>4, <2>6, <2>7 DEF x, Begins
<1> QED
  BY <1>1, <1>4, <1>5
-----------------------------------------------------------------------------
(* The frames of a WebSocket, one a message.                               *)

\* The messages under way carry the frames of s that come after the at[0] first;
\* at[i] have been received when message i has.
Carried(msgs, at, s) ==
    /\ at \in [0..Len(msgs) -> 0..Len(s)]
    /\ at[Len(msgs)] = Len(s)
    /\ \A i \in 1..Len(msgs) :
          IF msgs[i].kind = "binary"
          THEN at[i] = at[i - 1] + 1 /\ msgs[i].cells = OnWire(s[at[i]])
          ELSE at[i] = at[i - 1]

LEMMA OneMoreMessage ==
  ASSUME NEW s \in Seq(SentFrame), NEW msgs \in Seq(Message), NEW at, Carried(msgs, at, s),
         NEW f \in SentFrame
  PROVE  \E to : /\ Carried(Append(msgs, [kind |-> "binary", cells |-> OnWire(f)]), to, Append(s, f))
                 /\ to[0] = at[0]
<1> DEFINE n == Len(s)
           m == Len(msgs)
           x == [kind |-> "binary", cells |-> OnWire(f)]
           t == Append(s, f)
           u == Append(msgs, x)
           to == [i \in 0..(m + 1) |-> IF i <= m THEN at[i] ELSE n + 1]
<1>1. n \in Nat /\ m \in Nat
  BY LenProperties
<1>2. x \in Message /\ x.kind = "binary" /\ x.cells = OnWire(f)
  BY OnWireIs DEF Message, SentFrame
<1>3. Len(t) = n + 1 /\ t[n + 1] = f /\ \A i \in 1..n : t[i] = s[i]
  BY AppendProperties
<1> HIDE DEF x
<1>4. Len(u) = m + 1 /\ u[m + 1] = x /\ \A i \in 1..m : u[i] = msgs[i]
  BY <1>2, AppendProperties
<1>5. /\ at \in [0..m -> 0..n] /\ at[m] = n
      /\ \A i \in 1..m : IF msgs[i].kind = "binary"
                         THEN at[i] = at[i - 1] + 1 /\ msgs[i].cells = OnWire(s[at[i]])
                         ELSE at[i] = at[i - 1]
  BY DEF Carried
<1> HIDE DEF n, m, t, u
<1>6. to \in [0..(m + 1) -> 0..(n + 1)]
  <2>1. ASSUME NEW i \in 0..(m + 1), i <= m PROVE at[i] \in 0..(n + 1)
    <3>1. i \in 0..m
      BY <1>1, <2>1
    <3>2. at[i] \in 0..n
      BY <1>5, <3>1
    <3> QED
      BY <1>1, <3>2
  <2>2. n + 1 \in 0..(n + 1)
    BY <1>1
  <2> QED
    BY <2>1, <2>2
<1>7. /\ \A i \in 0..m : to[i] = at[i] /\ i \in 0..(m + 1)
      /\ to[m + 1] = n + 1
  BY <1>1
<1> HIDE DEF to
<1>8. ASSUME NEW i \in 1..(m + 1)
      PROVE  IF u[i].kind = "binary"
             THEN to[i] = to[i - 1] + 1 /\ u[i].cells = OnWire(t[to[i]])
             ELSE to[i] = to[i - 1]
  <2>1. CASE i <= m
    <3>1. i \in 1..m /\ i \in 0..m /\ i - 1 \in 0..m
      BY <1>1, <2>1
    <3>2. to[i] = at[i] /\ to[i - 1] = at[i - 1] /\ u[i] = msgs[i]
      BY <1>4, <1>7, <3>1
    <3>3. CASE msgs[i].kind = "binary"
      <4>1. at[i] = at[i - 1] + 1 /\ msgs[i].cells = OnWire(s[at[i]])
        BY <1>5, <3>1, <3>3
      <4>2. at[i] \in 0..n /\ at[i - 1] \in 0..n
        BY <1>5, <3>1
      <4>3. at[i] \in 1..n
        BY <1>1, <4>1, <4>2
      <4>4. t[at[i]] = s[at[i]]
        BY <1>3, <4>3
      <4> QED
        BY <3>2, <3>3, <4>1, <4>4
    <3>4. CASE msgs[i].kind # "binary"
      BY <1>5, <3>1, <3>2, <3>4
    <3> QED
      BY <3>3, <3>4
  <2>2. CASE ~(i <= m)
    <3>1. i = m + 1 /\ i - 1 = m /\ m \in 0..m
      BY <1>1, <2>2
    <3>2. to[i] = n + 1 /\ to[i - 1] = n /\ u[i] = x
      BY <1>4, <1>5, <1>7, <3>1
    <3> QED
      BY <1>2, <1>3, <3>2
  <2> QED
    BY <2>1, <2>2
<1>9. Carried(u, to, t)
  BY <1>3, <1>4, <1>6, <1>7, <1>8 DEF Carried
<1>10. to[0] = at[0]
  BY <1>1, <1>7
<1> QED
  BY <1>9, <1>10 DEF x, t, u

LEMMA OneMoreOther ==
  ASSUME NEW s \in Seq(SentFrame), NEW msgs \in Seq(Message), NEW at, Carried(msgs, at, s)
  PROVE  \E to : Carried(Append(msgs, [kind |-> "other"]), to, s) /\ to[0] = at[0]
<1> DEFINE n == Len(s)
           m == Len(msgs)
           x == [kind |-> "other"]
           u == Append(msgs, x)
           to == [i \in 0..(m + 1) |-> IF i <= m THEN at[i] ELSE n]
<1>1. n \in Nat /\ m \in Nat
  BY LenProperties
<1>2. x \in Message /\ x.kind # "binary"
  BY DEF Message
<1> HIDE DEF x
<1>4. Len(u) = m + 1 /\ u[m + 1] = x /\ \A i \in 1..m : u[i] = msgs[i]
  BY <1>2, AppendProperties
<1>5. /\ at \in [0..m -> 0..n] /\ at[m] = n
      /\ \A i \in 1..m : IF msgs[i].kind = "binary"
                         THEN at[i] = at[i - 1] + 1 /\ msgs[i].cells = OnWire(s[at[i]])
                         ELSE at[i] = at[i - 1]
  BY DEF Carried
<1> HIDE DEF n, m, u
<1>6. to \in [0..(m + 1) -> 0..n]
  <2>1. ASSUME NEW i \in 0..(m + 1), i <= m PROVE at[i] \in 0..n
    <3>1. i \in 0..m
      BY <1>1, <2>1
    <3> QED
      BY <1>5, <3>1
  <2>2. n \in 0..n
    BY <1>1
  <2> QED
    BY <2>1, <2>2
<1>7. /\ \A i \in 0..m : to[i] = at[i] /\ i \in 0..(m + 1)
      /\ to[m + 1] = n
  BY <1>1
<1> HIDE DEF to
<1>8. ASSUME NEW i \in 1..(m + 1)
      PROVE  IF u[i].kind = "binary"
             THEN to[i] = to[i - 1] + 1 /\ u[i].cells = OnWire(s[to[i]])
             ELSE to[i] = to[i - 1]
  <2>1. CASE i <= m
    <3>1. i \in 1..m /\ i \in 0..m /\ i - 1 \in 0..m
      BY <1>1, <2>1
    <3>2. to[i] = at[i] /\ to[i - 1] = at[i - 1] /\ u[i] = msgs[i]
      BY <1>4, <1>7, <3>1
    <3> QED
      BY <1>5, <3>1, <3>2
  <2>2. CASE ~(i <= m)
    <3>1. i = m + 1 /\ i - 1 = m /\ m \in 0..m
      BY <1>1, <2>2
    <3>2. to[i] = n /\ to[i - 1] = n /\ u[i] = x
      BY <1>4, <1>5, <1>7, <3>1
    <3> QED
      BY <1>2, <3>2
  <2> QED
    BY <2>1, <2>2
<1>9. Carried(u, to, s)
  BY <1>4, <1>6, <1>7, <1>8 DEF Carried, n
<1>10. to[0] = at[0]
  BY <1>1, <1>7
<1> QED
  BY <1>9, <1>10 DEF x, u

LEMMA OneMessageLess ==
  ASSUME NEW s \in Seq(SentFrame), NEW msgs \in Seq(Message), msgs # << >>, NEW at, Carried(msgs, at, s)
  PROVE  /\ IF msgs[1].kind = "binary"
            THEN at[1] = at[0] + 1 /\ at[1] \in 1..Len(s) /\ msgs[1].cells = OnWire(s[at[1]])
            ELSE at[1] = at[0]
         /\ \E to : Carried(Tail(msgs), to, s) /\ to[0] = at[1]
<1> DEFINE n == Len(s)
           m == Len(msgs)
           u == Tail(msgs)
           to == [i \in 0..(m - 1) |-> at[i + 1]]
<1>1. n \in Nat /\ m \in Nat /\ m > 0
  <2>1. m \in Nat \ {0}
    BY EmptySeq, LenProperties
  <2> QED
    BY <2>1, LenProperties
<1>2. Len(u) = m - 1 /\ \A i \in 1..(m - 1) : u[i] = msgs[i + 1]
  BY HeadTailProperties
<1>5. /\ at \in [0..m -> 0..n] /\ at[m] = n
      /\ \A i \in 1..m : IF msgs[i].kind = "binary"
                         THEN at[i] = at[i - 1] + 1 /\ msgs[i].cells = OnWire(s[at[i]])
                         ELSE at[i] = at[i - 1]
  BY DEF Carried
<1> HIDE DEF n, m, u
<1>3. IF msgs[1].kind = "binary"
      THEN at[1] = at[0] + 1 /\ at[1] \in 1..n /\ msgs[1].cells = OnWire(s[at[1]])
      ELSE at[1] = at[0]
  <2>1. 1 \in 1..m /\ 1 \in 0..m /\ 0 \in 0..m
    BY <1>1
  <2>2. at[1] \in 0..n /\ at[0] \in 0..n /\ 1 - 1 = 0
    BY <1>5, <2>1
  <2>3. IF msgs[1].kind = "binary"
        THEN at[1] = at[1 - 1] + 1 /\ msgs[1].cells = OnWire(s[at[1]])
        ELSE at[1] = at[1 - 1]
    BY <1>5, <2>1
  <2>4. at[1] = at[0] + 1 => at[1] \in 1..n
    BY <1>1, <2>2
  <2> QED
    BY <2>3, <2>4
<1>6. to \in [0..(m - 1) -> 0..n]
  <2>1. ASSUME NEW i \in 0..(m - 1) PROVE at[i + 1] \in 0..n
    <3>1. i + 1 \in 0..m
      BY <1>1
    <3> QED
      BY <1>5, <3>1
  <2> QED
    BY <2>1
<1>7. \A i \in 0..(m - 1) : to[i] = at[i + 1]
  OBVIOUS
<1> HIDE DEF to
<1>8. ASSUME NEW i \in 1..(m - 1)
      PROVE  IF u[i].kind = "binary"
             THEN to[i] = to[i - 1] + 1 /\ u[i].cells = OnWire(s[to[i]])
             ELSE to[i] = to[i - 1]
  <2>1. i \in 0..(m - 1) /\ i - 1 \in 0..(m - 1) /\ (i - 1) + 1 = i /\ i + 1 \in 1..m /\ (i + 1) - 1 = i
    BY <1>1
  <2>2. to[i] = at[i + 1] /\ to[i - 1] = at[i] /\ u[i] = msgs[i + 1]
    BY <1>2, <1>7, <2>1
  <2>3. IF msgs[i + 1].kind = "binary"
        THEN at[i + 1] = at[i] + 1 /\ msgs[i + 1].cells = OnWire(s[at[i + 1]])
        ELSE at[i + 1] = at[i]
    BY <1>5, <2>1
  <2> QED
    BY <2>2, <2>3
<1>9. to[m - 1] = n /\ to[0] = at[1]
  <2>1. m - 1 \in 0..(m - 1) /\ (m - 1) + 1 = m /\ 0 \in 0..(m - 1) /\ 0 + 1 = 1
    BY <1>1
  <2> QED
    BY <1>5, <1>7, <2>1
<1>10. Carried(u, to, s)
  BY <1>2, <1>6, <1>8, <1>9 DEF Carried, n
<1> QED
  BY <1>3, <1>9, <1>10 DEF n, u
-----------------------------------------------------------------------------
(* The frames that can be read by themselves.                              *)

\* of[i] are those of the first i frames of s.
Picks(of, s) ==
    of = [i \in 0..Len(s) |-> IF i = 0 THEN << >>
                              ELSE IF ReadableAlone(s[i]) THEN Append(of[i - 1], s[i]) ELSE of[i - 1]]

PicksTyped(of, s) == Picks(of, s) /\ \A i \in 0..Len(s) : of[i] \in Seq(SentFrame)

LEMMA PicksIs ==
  ASSUME NEW s \in Seq(SentFrame), NEW of, Picks(of, s)
  PROVE  /\ of[0] = << >>
         /\ \A i \in 1..Len(s) :
               of[i] = IF ReadableAlone(s[i]) THEN Append(of[i - 1], s[i]) ELSE of[i - 1]
<1> DEFINE n == Len(s)
<1>1. n \in Nat
  BY LenProperties
<1>2. \A i \in 0..n :
         of[i] = IF i = 0 THEN << >>
                 ELSE IF ReadableAlone(s[i]) THEN Append(of[i - 1], s[i]) ELSE of[i - 1]
  BY DEF Picks
<1> HIDE DEF n
<1>3. 0 \in 0..n /\ \A i \in 1..n : i \in 0..n /\ i # 0
  BY <1>1
<1> QED
  BY <1>2, <1>3 DEF n

\* There is only one such function.
LEMMA PicksUnique ==
  ASSUME NEW s \in Seq(SentFrame), NEW of, NEW other, Picks(of, s), Picks(other, s)
  PROVE  of[Len(s)] = other[Len(s)]
<1> DEFINE n == Len(s)
           G == {m \in 0..n : of[m] = other[m]}
<1>1. n \in Nat /\ n \in 0..n
  BY LenProperties
<1>2. of[0] = << >> /\ other[0] = << >>
  BY PicksIs
<1>3. ASSUME NEW i \in 1..n, of[i - 1] = other[i - 1] PROVE of[i] = other[i]
  BY <1>3, PicksIs
<1> HIDE DEF n
<1>4. 0 \in G
  BY <1>1, <1>2
<1>5. ASSUME NEW m \in 0..(n - 1), m \in G PROVE m + 1 \in G
  <2>1. m + 1 \in 1..n /\ m + 1 \in 0..n /\ (m + 1) - 1 = m
    BY <1>1
  <2> QED
    BY <1>3, <1>5, <2>1
<1> HIDE DEF G
<1>6. \A m \in 0..n : m \in G
  BY <1>1, <1>4, <1>5, UpTo
<1>7. n \in G
  BY <1>1, <1>6
<1> QED
  BY <1>7 DEF G, n

LEMMA AllReadableIs ==
  ASSUME NEW s \in Seq(SentFrame), NEW of, Picks(of, s)
  PROVE  AllReadable(s) = of[Len(s)]
<1> DEFINE c == CHOOSE g : Picks(g, s)
<1>1. Picks(c, s)
  OBVIOUS
<1>2. AllReadable(s) = c[Len(s)]
  BY DEF AllReadable, Picks
<1> HIDE DEF c
<1>3. c[Len(s)] = of[Len(s)]
  BY <1>1, PicksUnique
<1> QED
  BY <1>2, <1>3

\* Another frame at the end leaves the others as they are.
LEMMA PicksMore ==
  ASSUME NEW s \in Seq(SentFrame), NEW of, PicksTyped(of, s), NEW f \in SentFrame
  PROVE  \E to : PicksTyped(to, Append(s, f)) /\ \A i \in 0..Len(s) : to[i] = of[i]
<1> DEFINE n == Len(s)
           t == Append(s, f)
           more == IF ReadableAlone(f) THEN Append(of[n], f) ELSE of[n]
           to == [i \in 0..(n + 1) |-> IF i <= n THEN of[i] ELSE more]
<1>1. n \in Nat
  BY LenProperties
<1>2. Len(t) = n + 1 /\ t[n + 1] = f /\ \A i \in 1..n : t[i] = s[i]
  BY AppendProperties
<1>3. of[0] = << >>
      /\ \A i \in 1..n : of[i] = IF ReadableAlone(s[i]) THEN Append(of[i - 1], s[i]) ELSE of[i - 1]
  BY PicksIs DEF PicksTyped
<1>4. \A i \in 0..n : of[i] \in Seq(SentFrame)
  BY DEF PicksTyped
<1> HIDE DEF n, t
<1>5. more \in Seq(SentFrame)
  <2>1. n \in 0..n
    BY <1>1
  <2>2. of[n] \in Seq(SentFrame)
    BY <1>4, <2>1
  <2>3. Append(of[n], f) \in Seq(SentFrame)
    BY <2>2, AppendProperties
  <2> QED
    BY <2>2, <2>3
<1>9. more = IF ReadableAlone(f) THEN Append(of[n], f) ELSE of[n]
  OBVIOUS
<1> HIDE DEF more
<1>6. (\A i \in 0..n : to[i] = of[i] /\ i \in 0..(n + 1)) /\ to[n + 1] = more
  BY <1>1
<1>7. \A i \in 0..(n + 1) : to[i] \in Seq(SentFrame)
  BY <1>4, <1>5
<1> DEFINE e == [i \in 0..(n + 1) |-> IF i = 0 THEN << >>
                                   ELSE IF ReadableAlone(t[i]) THEN Append(to[i - 1], t[i]) ELSE to[i - 1]]
<1>8. ASSUME NEW i \in 0..(n + 1) PROVE to[i] = e[i]
  <2> HIDE DEF to
  <2>1. e[i] = IF i = 0 THEN << >>
               ELSE IF ReadableAlone(t[i]) THEN Append(to[i - 1], t[i]) ELSE to[i - 1]
    OBVIOUS
  <2> HIDE DEF e
  <2>2. CASE i = 0
    <3>1. 0 \in 0..n
      BY <1>1
    <3> QED
      BY <1>3, <1>6, <2>1, <2>2, <3>1
  <2>3. CASE i \in 1..n
    <3>1. i \in 0..n /\ i - 1 \in 0..n /\ i # 0
      BY <1>1, <2>3
    <3>2. to[i] = of[i] /\ to[i - 1] = of[i - 1] /\ t[i] = s[i]
      BY <1>2, <1>6, <2>3, <3>1
    <3> QED
      BY <1>3, <2>1, <2>3, <3>1, <3>2
  <2>4. CASE i = n + 1
    <3>1. n \in 0..n /\ i # 0 /\ i - 1 = n
      BY <1>1, <2>4
    <3>2. to[i - 1] = of[n] /\ to[i] = more /\ t[i] = f
      BY <1>2, <1>6, <2>4, <3>1
    <3> QED
      BY <1>9, <2>1, <3>1, <3>2
  <2>5. i = 0 \/ i \in 1..n \/ i = n + 1
    BY <1>1
  <2> QED
    BY <2>2, <2>3, <2>4, <2>5
<1>10. to = e
  BY <1>8
<1>11. PicksTyped(to, t)
  <2> HIDE DEF to
  <2> QED
    BY <1>2, <1>7, <1>10 DEF PicksTyped, Picks
<1> QED
  BY <1>6, <1>11 DEF n, t

\* The first of them come first.
LEMMA PicksGrow ==
  ASSUME NEW s \in Seq(SentFrame), NEW of, PicksTyped(of, s), NEW k \in 0..Len(s)
  PROVE  Begins(of[Len(s)], of[k])
<1> DEFINE n == Len(s)
           G == {d \in 0..(n - k) : Begins(of[k + d], of[k])}
<1>1. n \in Nat /\ k \in Nat /\ n - k \in Nat /\ k + (n - k) = n /\ k <= n
  <2>1. n \in Nat
    BY LenProperties
  <2> QED
    BY <2>1
<1>2. \A i \in 1..n : of[i] = IF ReadableAlone(s[i]) THEN Append(of[i - 1], s[i]) ELSE of[i - 1]
  BY PicksIs DEF PicksTyped
<1>3. \A i \in 0..n : of[i] \in Seq(SentFrame)
  BY DEF PicksTyped
<1>4. \A i \in 1..n : s[i] \in SentFrame
  BY ElementOfSeq
<1> HIDE DEF n
<1>5. 0 \in G
  <2>1. k + 0 = k /\ 0 \in 0..(n - k)
    BY <1>1
  <2>2. of[k] \in Seq(SentFrame)
    BY <1>1, <1>3
  <2>3. Begins(of[k], of[k])
    BY <2>2, LenProperties DEF Begins
  <2> QED
    BY <2>1, <2>3
<1>6. ASSUME NEW d \in 0..((n - k) - 1), d \in G PROVE d + 1 \in G
  <2>1. /\ k + (d + 1) \in 1..n /\ (k + (d + 1)) - 1 = k + d /\ k + d \in 0..n /\ k \in 0..n
        /\ d + 1 \in 0..(n - k)
    BY <1>1
  <2> DEFINE a == of[k]
             b == of[k + d]
             x == s[k + (d + 1)]
  <2>2. a \in Seq(SentFrame) /\ b \in Seq(SentFrame) /\ x \in SentFrame
    BY <1>3, <1>4, <2>1
  <2>3. of[k + (d + 1)] = IF ReadableAlone(x) THEN Append(b, x) ELSE b
    <3>1. of[k + (d + 1)] = IF ReadableAlone(x) THEN Append(of[(k + (d + 1)) - 1], x)
                            ELSE of[(k + (d + 1)) - 1]
      BY <1>2, <2>1
    <3> QED
      BY <2>1, <3>1
  <2>4. Begins(b, a)
    BY <1>6
  <2> HIDE DEF a, b, x
  <2>5. Begins(Append(b, x), a)
    <3>1. Len(a) \in Nat /\ Len(b) \in Nat /\ Len(Append(b, x)) = Len(b) + 1
          /\ \A i \in 1..Len(b) : Append(b, x)[i] = b[i]
      BY <2>2, AppendProperties, LenProperties
    <3>2. Len(a) <= Len(b) /\ \A i \in 1..Len(a) : b[i] = a[i]
      BY <2>4 DEF Begins
    <3>3. Len(a) <= Len(b) + 1 /\ \A i \in 1..Len(a) : i \in 1..Len(b)
      BY <3>1, <3>2
    <3> QED
      BY <3>1, <3>2, <3>3 DEF Begins
  <2>6. Begins(of[k + (d + 1)], a)
    BY <2>3, <2>4, <2>5
  <2> QED
    BY <2>1, <2>6 DEF a
<1>7. \A d \in 0..(n - k) : d \in G
  <2> HIDE DEF G
  <2> QED
    BY <1>1, <1>5, <1>6, UpTo
<1>8. n - k \in G
  <2>1. n - k \in 0..(n - k)
    BY <1>1
  <2> QED
    BY <1>7, <2>1
<1> QED
  BY <1>1, <1>8 DEF n

\* Begins is what IsPrefix says.
LEMMA BeginsIsPrefix ==
  ASSUME NEW S, NEW s \in Seq(S), NEW t \in Seq(S), Begins(t, s)
  PROVE  IsPrefix(s, t)
<1>1. Len(s) \in Nat /\ Len(t) \in Nat /\ Len(s) <= Len(t) /\ \A i \in 1..Len(s) : t[i] = s[i]
  BY LenProperties DEF Begins
<1>2. Len(s) \in 0..Len(s) /\ Len(s) \in 0..Len(t)
  BY <1>1
<1> DEFINE n == Len(s)
           a == SubSeq(s, 1, n)
           b == SubSeq(t, 1, n)
<1>3. n \in 0..Len(s) /\ n \in 0..Len(t) /\ n = Len(s)
  BY <1>2
<1> HIDE DEF n
<1>4. a \in Seq(S) /\ Len(a) = n /\ \A i \in 1..n : a[i] = s[i]
  BY <1>3, TakeIs, Zenon
<1>5. b \in Seq(S) /\ Len(b) = n /\ \A i \in 1..n : b[i] = t[i]
  BY <1>3, TakeIs, Zenon
<1> HIDE DEF a, b
<1>6. \A i \in 1..n : a[i] = b[i]
  BY <1>1, <1>3, <1>4, <1>5
<1>7. a = b
  BY <1>4, <1>5, <1>6, SeqEqual
<1> QED
  BY <1>1, <1>3, <1>7 DEF a, b, IsPrefix
-----------------------------------------------------------------------------
(* What was handed on, of what was sent.                                   *)

\* For FrameDecoder: pre are the cells of the frames handed on; what it holds and
\* what is under way are those of the others.
DecoderAt(pre, at) ==
    /\ LaidOut(pre \o (buffer \o line), at, sent)
    /\ Len(got) \in 0..Len(sent)
    /\ at[Len(got)] = Len(pre)
    /\ \A i \in 1..Len(got) : got[i] = sent[i] /\ Readable(sent[i])

\* For PlainWsConn: the messages of the first at[0] frames have been received.
WsAt(at, of) ==
    /\ Carried(line, at, sent)
    /\ PicksTyped(of, sent)
    /\ got = of[at[0]]
    /\ \A i \in 1..Len(got) : \E j \in 1..at[0] : got[i] = sent[j]

Delivered ==
    /\ recv = "decoder" => \E pre \in Cells : \E at : DecoderAt(pre, at)
    /\ recv = "ws" => \E at, of : WsAt(at, of)

LEMMA DeliveredInit == WireInit => Delivered
<1> SUFFICES ASSUME WireInit PROVE Delivered
  OBVIOUS
<1> DEFINE zero == [i \in 0..0 |-> 0]
           none == [i \in 0..0 |-> << >>]
<1>1. sent = << >> /\ buffer = << >> /\ got = << >> /\ (recv # "flv" => line = << >>)
  BY DEF WireInit
<1>2. << >> \in Cells /\ Len(<< >>) = 0 /\ << >> \o (<< >> \o << >>) = << >> /\ << >> \in Seq(SentFrame)
  BY DEF Cells
<1>3. 0 \in 0..0 /\ 1..0 = {} /\ \A i \in 0..0 : i = 0
  OBVIOUS
<1>4. ASSUME recv = "decoder" PROVE DecoderAt(<< >>, zero)
  <2>1. LaidOut(<< >>, zero, << >>)
    BY <1>2, <1>3 DEF LaidOut
  <2> HIDE DEF zero
  <2>2. zero[0] = 0
    BY <1>3 DEF zero
  <2> QED
    BY <1>1, <1>2, <1>3, <1>4, <2>1, <2>2 DEF DecoderAt
<1>5. ASSUME recv = "ws" PROVE WsAt(zero, none)
  <2>1. Carried(<< >>, zero, << >>)
    BY <1>2, <1>3 DEF Carried
  <2>2. Picks(none, << >>)
    BY <1>2, <1>3 DEF Picks
  <2> HIDE DEF zero, none
  <2>3. zero[0] = 0 /\ none[0] = << >>
    BY <1>3 DEF zero, none
  <2>4. PicksTyped(none, << >>)
    BY <1>2, <1>3, <2>2, <2>3 DEF PicksTyped
  <2> QED
    BY <1>1, <1>2, <1>3, <1>5, <2>1, <2>3, <2>4 DEF WsAt
<1> QED
  BY <1>2, <1>4, <1>5 DEF Delivered

\* Once more cells have been sent.
LEMMA ConcatThree ==
  ASSUME NEW x \in Cells, NEW y \in Cells, NEW z \in Cells, NEW w \in Cells,
         NEW u, u = x \o (y \o z)
  PROVE  u \o w = x \o (y \o (z \o w))
<1>1. \A a, b \in Cells : a \o b \in Cells
  BY ConcatCells
<1>2. ASSUME NEW a \in Cells, NEW b \in Cells, NEW c \in Cells
      PROVE  (a \o b) \o c = a \o (b \o c)
  <2>1. a \in Seq(Nat) /\ b \in Seq(Nat) /\ c \in Seq(Nat)
    BY DEF Cells
  <2> QED
    BY ONLY <2>1, ConcatAssociative
<1>3. y \o z \in Cells
  BY <1>1
<1>4. (x \o (y \o z)) \o w = x \o ((y \o z) \o w)
  BY <1>2, <1>3, Zenon
<1>5. (y \o z) \o w = y \o (z \o w)
  BY <1>2, Zenon
<1> QED
  BY <1>4, <1>5, Zenon

\* A frame that FrameDecoder finds is the next one that was sent.
LEMMA DecodeOneIs ==
  ASSUME Typed, recv = "decoder", NEW pre \in Cells, NEW at, DecoderAt(pre, at),
         Decode(buffer).res = "frame"
  PROVE  LET r == Decode(buffer)
             m == Len(got)
         IN  /\ m + 1 \in 1..Len(sent) /\ r.frame = sent[m + 1] /\ Readable(sent[m + 1])
             /\ at[m + 1] = Len(pre) + r.used
             /\ \E pre2 \in Cells :
                   /\ Len(pre2) = Len(pre) + r.used
                   /\ pre2 \o (SubSeq(buffer, r.used + 1, Len(buffer)) \o line) = pre \o (buffer \o line)
<1> DEFINE r == Decode(buffer)
           m == Len(got)
           data == buffer \o line
           f == sent[m + 1]
<1>1. buffer \in Cells /\ line \in Cells /\ sent \in Seq(SentFrame) /\ data \in Cells
      /\ Len(buffer) \in Nat /\ Len(line) \in Nat /\ Len(data) = Len(buffer) + Len(line)
  <2>1. buffer \in Cells /\ line \in Cells /\ sent \in Seq(SentFrame)
    BY DEF Typed
  <2> QED
    BY <2>1, PrefixStays
<1>2. Decode(data) = r /\ r.used \in 1..Len(buffer)
  BY <1>1, DecodeFrame
<1>3. m \in 0..Len(sent) /\ at[m] = Len(pre) /\ LaidOut(pre \o data, at, sent)
  BY DEF DecoderAt
<1>4. Len(sent) \in Nat /\ Len(data) \in Nat /\ Len(pre) \in Nat
  BY <1>1, LenProperties DEF Cells
<1> HIDE DEF r, data, f, m
<1>5. m < Len(sent)
  <2>1. data # << >>
    BY <1>1, <1>2, EmptySeq
  <2>3. sent \in Seq(SentFrame) /\ data \in Cells /\ LaidOut(pre \o data, at, sent)
        /\ m \in 0..Len(sent) /\ at[m] = Len(pre)
    BY <1>1, <1>3
  <2>4. m = Len(sent) => data = << >>
    BY <2>3, NextBegins
  <2>2. m # Len(sent)
    BY <2>1, <2>4
  <2> QED
    BY <1>3, <1>4, <2>2
<1>6. m + 1 \in 1..Len(sent) /\ f \in SentFrame /\ Begins(data, OnWire(f))
      /\ at[m + 1] = Len(pre) + Len(OnWire(f))
  BY <1>1, <1>3, <1>5, NextBegins DEF f
<1>7. Decode(data).res = "frame"
  BY <1>2 DEF r
<1>8. Readable(f) /\ r.frame = f /\ r.used = Len(OnWire(f))
  BY <1>1, <1>2, <1>6, <1>7, DecodeBegins
<1> DEFINE u == r.used
           head == SubSeq(data, 1, u)
           left == SubSeq(buffer, u + 1, Len(buffer))
<1>9. u \in 1..Len(data) /\ u \in 0..Len(buffer)
  BY <1>1, <1>2
<1>16. head \in Cells /\ Len(head) = u /\ head \o SubSeq(data, u + 1, Len(data)) = data
  BY <1>1, <1>9, ChunkIs
<1> HIDE DEF u
<1>10. left \in Cells /\ SubSeq(data, u + 1, Len(data)) = left \o line
  BY <1>1, <1>9, DropConcat DEF data
<1> HIDE DEF head, left
<1>11. head \o (left \o line) = data
  BY <1>16, <1>10
<1>12. left \o line \in Cells
  BY <1>1, <1>10, ConcatCells
<1>13. pre \o head \in Cells /\ (pre \o head) \o (left \o line) = pre \o (head \o (left \o line))
  BY <1>16, <1>12, ConcatCells, Zenon
<1>14. Len(pre \o head) = Len(pre) + u
  BY <1>16, PrefixStays
<1>15. \E pre2 \in Cells :
          /\ Len(pre2) = Len(pre) + r.used
          /\ pre2 \o (SubSeq(buffer, r.used + 1, Len(buffer)) \o line) = pre \o (buffer \o line)
  BY <1>11, <1>13, <1>14 DEF u, left, data
<1> QED
  BY <1>6, <1>8, <1>15 DEF r, f, m

\* What a message makes of PlainWsConn's frames.
LEMMA WsRecvIs ==
  ASSUME Typed, WsRecv, NEW at, NEW of, WsAt(at, of)
  PROVE  LET f == sent[at[0] + 1]
             r == Decode(line[1].cells)
         IN  /\ at[0] + 1 \in 1..Len(sent) /\ f \in SentFrame
             /\ r.res = "frame" <=> ReadableAlone(f)
             /\ r.res = "frame" => r.frame = f
             /\ of[at[0] + 1] = IF ReadableAlone(f) THEN Append(got, f) ELSE got
             /\ \E to : Carried(Tail(line), to, sent) /\ to[0] = at[0] + 1
<1>1. recv = "ws" /\ line # << >> /\ line[1].kind = "binary"
  BY DEF WsRecv
<1>2. sent \in Seq(SentFrame) /\ line \in Seq(Message)
  BY <1>1 DEF Typed
<1>3. Carried(line, at, sent) /\ PicksTyped(of, sent) /\ got = of[at[0]]
  BY DEF WsAt
<1>4. /\ at[1] = at[0] + 1 /\ at[1] \in 1..Len(sent) /\ line[1].cells = OnWire(sent[at[1]])
      /\ \E to : Carried(Tail(line), to, sent) /\ to[0] = at[1]
  BY <1>1, <1>2, <1>3, OneMessageLess
<1>5. sent[at[1]] \in SentFrame
  BY <1>2, <1>4, ElementOfSeq
<1>6. at[0] \in 0..Len(sent)
  <2>1. Len(line) \in Nat
    BY <1>2, LenProperties
  <2>2. 0 \in 0..Len(line)
    BY <2>1
  <2> QED
    BY <1>3, <2>2 DEF Carried
<1>7. of[at[1]] = IF ReadableAlone(sent[at[1]]) THEN Append(of[at[1] - 1], sent[at[1]]) ELSE of[at[1] - 1]
  BY <1>2, <1>3, <1>4, PicksIs DEF PicksTyped
<1>8. at[1] - 1 = at[0]
  BY <1>4, <1>6
<1>9. /\ Decode(line[1].cells).res = "frame" <=> ReadableAlone(sent[at[1]])
      /\ Decode(line[1].cells).res = "frame" => Decode(line[1].cells).frame = sent[at[1]]
  BY <1>4, <1>5, DecodeAlone
<1> QED
  BY <1>3, <1>4, <1>5, <1>7, <1>8, <1>9

\* Another frame sent.
LEMMA DeliveredSend ==
  ASSUME Typed, Delivered, SenderStep
  PROVE  Delivered'
<1>1. CASE recv = "flv"
  BY <1>1 DEF SenderStep, Delivered
<1>2. CASE recv = "decoder"
  <2>1. PICK f \in SentFrame : sent' = Append(sent, f) /\ Post(f)
    BY <1>2 DEF SenderStep
  <2>2. /\ recv' = recv /\ buffer' = buffer /\ got' = got
        /\ line' = line \o OnWire(f)
    BY <1>2, <2>1 DEF SenderStep, Post
  <2>3. PICK pre \in Cells : \E at : DecoderAt(pre, at)
    BY <1>2 DEF Delivered
  <2>4. PICK at : DecoderAt(pre, at)
    BY <2>3
  <2> DEFINE all == pre \o (buffer \o line)
             w == OnWire(f)
  <2>5. buffer \in Cells /\ line \in Cells /\ sent \in Seq(SentFrame) /\ got \in Seq(Frame) /\ w \in Cells
    BY <1>2, OnWireIs DEF Typed, SentFrame
  <2>6. all \in Cells
    BY <2>5, ConcatCells
  <2>7. LaidOut(all, at, sent) /\ Len(got) \in 0..Len(sent) /\ at[Len(got)] = Len(pre)
        /\ \A i \in 1..Len(got) : got[i] = sent[i] /\ Readable(sent[i])
    BY <2>4 DEF DecoderAt
  <2> HIDE DEF all
  <2>8. PICK to : /\ LaidOut(all \o OnWire(f), to, Append(sent, f))
                  /\ \A i \in 0..Len(sent) : to[i] = at[i]
    BY <2>5, <2>6, <2>7, OneMore
  <2> HIDE DEF w
  <2>9. all \o w = pre \o (buffer \o (line \o w))
    <3>1. pre \in Cells /\ buffer \in Cells /\ line \in Cells /\ w \in Cells
          /\ all = pre \o (buffer \o line)
      BY <2>5 DEF all
    <3> QED
      BY <3>1, ConcatThree
  <2>10. Len(Append(sent, f)) = Len(sent) + 1 /\ Len(sent) \in Nat
         /\ \A i \in 1..Len(sent) : Append(sent, f)[i] = sent[i]
    BY <2>5, AppendProperties, LenProperties
  <2>11. /\ Len(got) \in 0..(Len(sent) + 1)
         /\ \A i \in 1..Len(got) : i \in 1..Len(sent)
    BY <2>7, <2>10
  <2>12. DecoderAt(pre, to)'
    <3>1. LaidOut(pre \o (buffer' \o line'), to, sent')
      BY <2>1, <2>2, <2>8, <2>9 DEF w
    <3>2. Len(got') \in 0..Len(sent') /\ to[Len(got')] = Len(pre)
      BY <2>1, <2>2, <2>7, <2>8, <2>10, <2>11
    <3>3. \A i \in 1..Len(got') : got'[i] = sent'[i] /\ Readable(sent'[i])
      BY <2>1, <2>2, <2>7, <2>10, <2>11
    <3> QED
      BY <3>1, <3>2, <3>3 DEF DecoderAt
  <2>13. recv' = "decoder"
    BY <1>2, <2>2
  <2> QED
    BY <2>12, <2>13 DEF Delivered
<1>3. CASE recv = "ws"
  <2>1. PICK f \in SentFrame : sent' = Append(sent, f) /\ Post(f)
    BY <1>3 DEF SenderStep
  <2>2. /\ recv' = "ws" /\ got' = got
        /\ line' = Append(line, [kind |-> "binary", cells |-> OnWire(f)])
    BY <1>3, <2>1 DEF SenderStep, Post
  <2>3. PICK at, of : WsAt(at, of)
    BY <1>3 DEF Delivered
  <2>4. /\ Carried(line, at, sent) /\ PicksTyped(of, sent) /\ got = of[at[0]]
        /\ \A i \in 1..Len(got) : \E j \in 1..at[0] : got[i] = sent[j]
    BY <2>3 DEF WsAt
  <2>5. line \in Seq(Message) /\ sent \in Seq(SentFrame)
    BY <1>3 DEF Typed
  <2>6. PICK to : /\ Carried(Append(line, [kind |-> "binary", cells |-> OnWire(f)]), to, Append(sent, f))
                  /\ to[0] = at[0]
    BY <2>4, <2>5, OneMoreMessage
  <2>7. PICK up : PicksTyped(up, Append(sent, f)) /\ \A i \in 0..Len(sent) : up[i] = of[i]
    BY <2>4, <2>5, PicksMore
  <2>8. at[0] \in 0..Len(sent) /\ Len(sent) \in Nat
    <3>1. Len(line) \in Nat /\ Len(sent) \in Nat
      BY <2>5, LenProperties
    <3>2. 0 \in 0..Len(line)
      BY <3>1
    <3> QED
      BY <2>4, <3>1, <3>2 DEF Carried
  <2>9. \A j \in 1..at[0] : Append(sent, f)[j] = sent[j]
    <3>1. \A j \in 1..at[0] : j \in 1..Len(sent)
      BY <2>8
    <3> QED
      BY <2>5, <3>1, AppendProperties
  <2>10. WsAt(to, up)'
    BY <2>1, <2>2, <2>4, <2>6, <2>7, <2>8, <2>9 DEF WsAt
  <2> QED
    BY <2>2, <2>10 DEF Delivered
<1> QED
  BY <1>1, <1>2, <1>3 DEF Typed

\* A frame handed on by FrameDecoder.
LEMMA DeliveredDecode ==
  ASSUME Typed, Delivered, DecodeOne
  PROVE  Delivered'
<1> DEFINE r == Decode(buffer)
           m == Len(got)
<1>1. /\ recv = "decoder" /\ recv' = "decoder" /\ r.res = "frame"
      /\ buffer' = SubSeq(buffer, r.used + 1, Len(buffer)) /\ line' = line /\ sent' = sent
      /\ got' = Append(got, r.frame)
  BY DEF DecodeOne, HandOn
<1>2. PICK pre \in Cells : \E at : DecoderAt(pre, at)
  BY <1>1 DEF Delivered
<1>3. PICK at : DecoderAt(pre, at)
  BY <1>2
<1>4. /\ m + 1 \in 1..Len(sent) /\ r.frame = sent[m + 1] /\ Readable(sent[m + 1])
      /\ at[m + 1] = Len(pre) + r.used
      /\ \E pre2 \in Cells :
            /\ Len(pre2) = Len(pre) + r.used
            /\ pre2 \o (SubSeq(buffer, r.used + 1, Len(buffer)) \o line) = pre \o (buffer \o line)
  BY <1>1, <1>3, DecodeOneIs
<1>5. PICK pre2 \in Cells :
            /\ Len(pre2) = Len(pre) + r.used
            /\ pre2 \o (SubSeq(buffer, r.used + 1, Len(buffer)) \o line) = pre \o (buffer \o line)
  BY <1>4
<1>6. /\ LaidOut(pre \o (buffer \o line), at, sent)
      /\ \A i \in 1..m : got[i] = sent[i] /\ Readable(sent[i])
  BY <1>3 DEF DecoderAt
<1>7. got \in Seq(Frame) /\ sent \in Seq(SentFrame)
  BY <1>1 DEF Typed
<1> HIDE DEF r
<1>8. r.frame \in Frame
  <2>1. sent[m + 1] \in SentFrame
    BY <1>4, <1>7, ElementOfSeq
  <2> QED
    BY <1>4, <2>1 DEF SentFrame
<1>9. /\ m \in Nat /\ Len(got') = m + 1 /\ got'[m + 1] = r.frame /\ \A i \in 1..m : got'[i] = got[i]
  BY <1>1, <1>7, <1>8, AppendProperties, LenProperties
<1>10. \A i \in 1..(m + 1) : i \in 1..m \/ i = m + 1
  BY <1>9
<1>11. DecoderAt(pre2, at)'
  <2>1. LaidOut(pre2 \o (buffer' \o line'), at, sent')
    BY <1>1, <1>5, <1>6
  <2>2. Len(got') \in 0..Len(sent') /\ at[Len(got')] = Len(pre2)
    BY <1>1, <1>4, <1>5, <1>9
  <2>3. \A i \in 1..Len(got') : got'[i] = sent'[i] /\ Readable(sent'[i])
    BY <1>1, <1>4, <1>6, <1>9, <1>10
  <2> QED
    BY <2>1, <2>2, <2>3 DEF DecoderAt
<1> QED
  BY <1>1, <1>11 DEF Delivered

\* A message received by PlainWsConn.
LEMMA DeliveredWs ==
  ASSUME Typed, Delivered, WsRecv
  PROVE  Delivered'
<1> DEFINE r == Decode(line[1].cells)
<1>1. /\ recv = "ws" /\ recv' = "ws" /\ line' = Tail(line) /\ sent' = sent
      /\ IF r.res = "frame" THEN got' = Append(got, r.frame) ELSE got' = got
  BY DEF WsRecv, HandOn
<1>2. PICK at, of : WsAt(at, of)
  BY <1>1 DEF Delivered
<1> DEFINE f == sent[at[0] + 1]
<1>3. /\ at[0] + 1 \in 1..Len(sent) /\ f \in SentFrame
      /\ r.res = "frame" <=> ReadableAlone(f)
      /\ r.res = "frame" => r.frame = f
      /\ of[at[0] + 1] = IF ReadableAlone(f) THEN Append(got, f) ELSE got
      /\ \E to : Carried(Tail(line), to, sent) /\ to[0] = at[0] + 1
  BY <1>2, WsRecvIs
<1>4. PICK to : Carried(Tail(line), to, sent) /\ to[0] = at[0] + 1
  BY <1>3
<1>5. /\ PicksTyped(of, sent) /\ \A i \in 1..Len(got) : \E j \in 1..at[0] : got[i] = sent[j]
  BY <1>2 DEF WsAt
<1>6. got \in Seq(Frame) /\ f \in Frame /\ Len(got) \in Nat
  BY <1>3, LenProperties DEF Typed, SentFrame
<1>7. at[0] \in Nat
  <2>1. Carried(line, at, sent) /\ line \in Seq(Message) /\ sent \in Seq(SentFrame)
    BY <1>1, <1>2 DEF WsAt, Typed
  <2>2. Len(line) \in Nat /\ Len(sent) \in Nat
    BY <2>1, LenProperties
  <2>3. 0 \in 0..Len(line)
    BY <2>2
  <2>4. at[0] \in 0..Len(sent)
    BY <2>1, <2>3 DEF Carried
  <2> QED
    BY <2>2, <2>4
<1> HIDE DEF r
<1>8. got' = of[to[0]]
  BY <1>1, <1>3, <1>4
<1>12. \A j \in 1..at[0] : j \in 1..(at[0] + 1)
  BY <1>7
<1>13. at[0] + 1 \in 1..(at[0] + 1)
  BY <1>7
<1>9. \A i \in 1..Len(got') : \E j \in 1..(at[0] + 1) : got'[i] = sent[j]
  <2>1. CASE got' = got
    BY <1>5, <1>12, <2>1
  <2>2. CASE got' = Append(got, f)
    <3>1. /\ Len(got') = Len(got) + 1 /\ got'[Len(got) + 1] = f
          /\ \A i \in 1..Len(got) : got'[i] = got[i]
      BY <1>6, <2>2, AppendProperties
    <3>2. \A i \in 1..(Len(got) + 1) : i \in 1..Len(got) \/ i = Len(got) + 1
      BY <1>6
    <3> QED
      BY <1>5, <1>12, <1>13, <3>1, <3>2
  <2> QED
    BY <1>1, <1>3, <2>1, <2>2
<1>10. WsAt(to, of)'
  BY <1>1, <1>4, <1>5, <1>8, <1>9 DEF WsAt
<1> QED
  BY <1>1, <1>10 DEF Delivered

LEMMA DeliveredStep ==
  ASSUME Typed, Delivered, [WireNext]_wireVars
  PROVE  Delivered'
<1>1. ASSUME UNCHANGED <<recv, sent, line, buffer, got>> PROVE Delivered'
  BY <1>1 DEF Delivered, DecoderAt, WsAt
<1>2. ASSUME NEW k \in 1..Len(line), Feed(k) PROVE Delivered'
  <2> DEFINE c == SubSeq(line, 1, k)
             d == SubSeq(line, k + 1, Len(line))
  <2>1. /\ recv = "decoder" /\ recv' = "decoder" /\ got' = got /\ sent' = sent
        /\ buffer' = buffer \o c /\ line' = d /\ buffer \in Cells /\ line \in Cells
    BY <1>2 DEF Feed, Typed
  <2>2. c \in Cells /\ d \in Cells /\ c \o d = line
    BY <2>1, ChunkIs
  <2> HIDE DEF c, d
  <2>3. (buffer \o c) \o d = buffer \o (c \o d)
    <3>1. buffer \in Cells /\ c \in Cells /\ d \in Cells
      BY <2>1, <2>2
    <3> QED
      BY <3>1, ConcatCells, Zenon
  <2>4. buffer' \o line' = buffer \o line
    BY <2>1, <2>2, <2>3
  <2>5. ASSUME NEW pre, NEW at, DecoderAt(pre, at) PROVE DecoderAt(pre, at)'
    BY <2>1, <2>4, <2>5 DEF DecoderAt
  <2>6. \E pre \in Cells : \E at : DecoderAt(pre, at)
    BY <2>1 DEF Delivered
  <2>7. \E pre \in Cells : \E at : DecoderAt(pre, at)'
    BY <2>5, <2>6
  <2> QED
    BY <2>1, <2>7 DEF Delivered
<1>3. ASSUME NEW k \in 1..Len(line), PullChunk(k) PROVE Delivered'
  BY <1>3 DEF PullChunk, Delivered
<1>4. ASSUME NEW m \in Message, m.kind = "other", recv = "ws", recv' = "ws", sent' = sent, got' = got,
             \/ m = [kind |-> "other"] /\ line' = Append(line, m)
             \/ line # << >> /\ line[1] = m /\ line' = Tail(line)
      PROVE  Delivered'
  <2>1. PICK at, of : WsAt(at, of)
    BY <1>4 DEF Delivered
  <2>2. /\ Carried(line, at, sent) /\ PicksTyped(of, sent) /\ got = of[at[0]]
        /\ \A i \in 1..Len(got) : \E j \in 1..at[0] : got[i] = sent[j]
    BY <2>1 DEF WsAt
  <2>3. line \in Seq(Message) /\ sent \in Seq(SentFrame)
    BY <1>4 DEF Typed
  <2>4. \E to : Carried(line', to, sent) /\ to[0] = at[0]
    <3>1. CASE m = [kind |-> "other"] /\ line' = Append(line, m)
      BY <2>2, <2>3, <3>1, OneMoreOther
    <3>2. CASE line # << >> /\ line[1] = m /\ line' = Tail(line)
      <4>1. IF line[1].kind = "binary" THEN at[1] = at[0] + 1 ELSE at[1] = at[0]
        BY <2>2, <2>3, <3>2, OneMessageLess
      <4>2. \E to : Carried(Tail(line), to, sent) /\ to[0] = at[1]
        BY <2>2, <2>3, <3>2, OneMessageLess
      <4> QED
        BY <1>4, <3>2, <4>1, <4>2
    <3> QED
      BY <1>4, <3>1, <3>2
  <2>5. PICK to : Carried(line', to, sent) /\ to[0] = at[0]
    BY <2>4
  <2>6. WsAt(to, of)'
    BY <1>4, <2>2, <2>5 DEF WsAt
  <2> QED
    BY <1>4, <2>6 DEF Delivered
<1>5. CASE WsOther
  <2>1. [kind |-> "other"] \in Message /\ [kind |-> "other"].kind = "other"
    BY DEF Message
  <2> QED
    BY <1>4, <1>5, <2>1 DEF WsOther
<1>6. CASE WsIgnores
  <2>1. recv = "ws" /\ line # << >> /\ line[1].kind = "other"
    BY <1>6 DEF WsIgnores
  <2>2. line[1] \in Message
    BY <2>1, MessageIs
  <2> QED
    BY <1>4, <1>6, <2>1, <2>2 DEF WsIgnores
<1>7. CASE ConnStep
  BY <1>1, <1>7 DEF ConnStep
<1> QED
  BY <1>2, <1>3, <1>5, <1>6, <1>7, DeliveredSend, DeliveredDecode, DeliveredWs, NextIs

\* The frames before the first that Decode does not read.
LEMMA ReadablePrefixIs ==
  ASSUME NEW s \in Seq(SentFrame), NEW m \in 0..Len(s), \A i \in 1..m : Readable(s[i])
  PROVE  LET d == ReadablePrefix(s)
         IN  /\ d \in Seq(SentFrame) /\ m <= Len(d) /\ Begins(s, d)
             /\ m = Len(s) => d = s
             /\ m < Len(s) /\ ~Readable(s[m + 1]) => Len(d) = m
             /\ m + 1 = Len(s) /\ Readable(s[m + 1]) => d = s
<1> DEFINE n == Len(s)
           bad == {i \in DOMAIN s : ~Readable(s[i])}
           d == ReadablePrefix(s)
<1>1. n \in Nat /\ m \in Nat /\ m <= n /\ DOMAIN s = 1..n
  <2>1. n \in Nat /\ DOMAIN s = 1..n
    BY LenProperties
  <2> QED
    BY <2>1
<1>2. d = IF bad = {} THEN s ELSE SubSeq(s, 1, Min(bad) - 1)
  BY DEF ReadablePrefix
<1>3. \A i \in bad : i \in 1..n /\ ~Readable(s[i]) /\ ~(i \in 1..m)
  BY <1>1
<1>4. \A i \in 1..n : ~Readable(s[i]) => i \in bad
  BY <1>1
<1> HIDE DEF d, bad
<1>5. CASE bad = {}
  <2>1. d = s
    BY <1>2, <1>5
  <2>2. m < n => m + 1 \in 1..n
    BY <1>1
  <2>3. m < n => Readable(s[m + 1])
    BY <1>4, <1>5, <2>2
  <2>4. n = Len(s)
    OBVIOUS
  <2> HIDE DEF n
  <2>5. d \in Seq(SentFrame) /\ m <= Len(d) /\ Begins(s, d)
    BY <1>1, <2>1, <2>4 DEF Begins
  <2>6. ~(m < Len(s) /\ ~Readable(s[m + 1]))
    BY <2>3, <2>4
  <2> QED
    BY <2>1, <2>5, <2>6 DEF d
<1>6. CASE bad # {}
  <2>1. bad \subseteq Nat
    BY <1>3
  <2>2. PICK x \in bad : \A y \in bad : x <= y
    BY <1>6, <2>1, LeastExists
  <2>3. Min(bad) = x
    BY <2>1, <2>2, MinIs
  <2>4. d = SubSeq(s, 1, x - 1)
    BY <1>2, <1>6, <2>3
  <2>5. x \in 1..n /\ x > m /\ ~Readable(s[x]) /\ x - 1 \in 0..n
    <3>1. x \in 1..n /\ ~(x \in 1..m) /\ ~Readable(s[x])
      BY <1>3, <2>2
    <3> QED
      BY <1>1, <3>1
  <2> DEFINE k == x - 1
  <2>6. k \in 0..Len(s)
    BY <2>5
  <2> HIDE DEF k
  <2> DEFINE e == SubSeq(s, 1, k)
  <2>7. e \in Seq(SentFrame) /\ Len(e) = k /\ \A i \in 1..k : e[i] = s[i]
    BY <2>6, TakeIs, Zenon
  <2>8. d \in Seq(SentFrame) /\ Len(d) = x - 1 /\ \A i \in 1..Len(d) : s[i] = d[i]
    <3>1. d = e /\ k = x - 1
      BY <2>4 DEF k
    <3> HIDE DEF e
    <3>2. d \in Seq(SentFrame) /\ Len(d) = k /\ \A i \in 1..k : d[i] = s[i]
      BY <2>7, <3>1
    <3> QED
      BY <3>1, <3>2
  <2>9. x - 1 <= n /\ m <= x - 1 /\ m # n
    <3>1. x \in 1..n /\ x > m
      BY <2>5
    <3>2. n \in Nat /\ m \in Nat
      BY <1>1
    <3> HIDE DEF n
    <3> QED
      BY ONLY <3>1, <3>2
  <2>10. ASSUME m < n, ~Readable(s[m + 1]) PROVE Len(d) = m
    <3>1. m + 1 \in 1..n
      BY <1>1, <2>10
    <3>2. m + 1 \in bad
      BY <1>4, <2>10, <3>1
    <3>3. x <= m + 1
      BY <2>2, <3>2
    <3> QED
      BY <1>1, <2>5, <2>8, <3>3
  <2>11. ~(m + 1 = n /\ Readable(s[m + 1]))
    <3>1. m + 1 = n => x = m + 1
      BY <1>1, <2>5
    <3> QED
      BY <2>5, <3>1
  <2> QED
    BY <2>8, <2>9, <2>10, <2>11 DEF d, n, Begins
<1> QED
  BY <1>5, <1>6

\* What was handed on is the first part of what can come through.
LEMMA DeliveredArrives ==
  ASSUME Typed, Delivered
  PROVE  FramesArriveAsSent
<1>1. CASE recv = "decoder"
  <2>1. PICK pre \in Cells : \E at : DecoderAt(pre, at)
    BY <1>1 DEF Delivered
  <2>2. Len(got) \in 0..Len(sent) /\ \A i \in 1..Len(got) : got[i] = sent[i] /\ Readable(sent[i])
    BY <2>1 DEF DecoderAt
  <2>3. sent \in Seq(SentFrame) /\ got \in Seq(Frame)
    BY <1>1 DEF Typed
  <2> DEFINE d == ReadablePrefix(sent)
  <2>4. d \in Seq(SentFrame) /\ Len(got) <= Len(d) /\ Begins(sent, d)
    BY <2>2, <2>3, ReadablePrefixIs
  <2> HIDE DEF d
  <2>5. Len(d) \in Nat /\ Len(got) \in Nat /\ d \in Seq(Frame)
    <3>1. SentFrame \subseteq Frame
      BY DEF SentFrame
    <3> QED
      BY <2>3, <2>4, <3>1, LenProperties, SeqMonotonic
  <2>6. \A i \in 1..Len(got) : d[i] = got[i]
    <3>1. \A i \in 1..Len(got) : i \in 1..Len(d)
      BY <2>4, <2>5
    <3> QED
      BY <2>2, <2>4, <3>1 DEF Begins
  <2>7. Begins(d, got)
    BY <2>4, <2>6 DEF Begins
  <2>8. IsPrefix(got, d)
    BY <2>3, <2>5, <2>7, BeginsIsPrefix
  <2> QED
    BY <1>1, <2>8 DEF FramesArriveAsSent, Deliverable, d
<1>2. CASE recv = "ws"
  <2>1. PICK at, of : WsAt(at, of)
    BY <1>2 DEF Delivered
  <2>2. Carried(line, at, sent) /\ PicksTyped(of, sent) /\ got = of[at[0]]
    BY <2>1 DEF WsAt
  <2>3. sent \in Seq(SentFrame) /\ line \in Seq(Message)
    BY <1>2 DEF Typed
  <2>4. at[0] \in 0..Len(sent)
    <3>1. Len(line) \in Nat
      BY <2>3, LenProperties
    <3>2. 0 \in 0..Len(line)
      BY <3>1
    <3> QED
      BY <2>2, <3>2 DEF Carried
  <2>5. Begins(of[Len(sent)], got)
    BY <2>2, <2>3, <2>4, PicksGrow
  <2>6. AllReadable(sent) = of[Len(sent)]
    BY <2>2, <2>3, AllReadableIs DEF PicksTyped
  <2>7. got \in Seq(SentFrame) /\ of[Len(sent)] \in Seq(SentFrame)
    <3>1. Len(sent) \in Nat
      BY <2>3, LenProperties
    <3>2. Len(sent) \in 0..Len(sent)
      BY <3>1
    <3> QED
      BY <2>2, <2>4, <3>2 DEF PicksTyped
  <2>8. IsPrefix(got, of[Len(sent)])
    BY <2>5, <2>7, BeginsIsPrefix
  <2> QED
    BY <1>2, <2>6, <2>8 DEF FramesArriveAsSent, Deliverable
<1>3. CASE recv = "flv"
  BY <1>3 DEF FramesArriveAsSent
<1> QED
  BY <1>1, <1>2, <1>3 DEF Typed

\* The cells of a frame: at least an older header, and no more only if it is Short.
LEMMA SizeOnWire ==
  ASSUME NEW f \in SentFrame
  PROVE  /\ Len(OnWire(f)) \in Nat /\ Len(OnWire(f)) >= 6
         /\ Len(OnWire(f)) < 7 => Short(f)
<1>1. f \in Frame /\ f.payload \in Seq(Nat) /\ f.version \in {2, 3}
  BY DEF SentFrame, Frame, Cells
<1>2. Len(f.payload) \in Nat /\ (Len(f.payload) = 0 => f.payload = << >>)
  BY <1>1, EmptySeq, LenProperties
<1>3. Len(OnWire(f)) = IF f.version = 2 THEN 6 + Len(f.payload) ELSE 7 + Len(f.payload)
  BY <1>1, OnWireIs
<1> QED
  BY <1>1, <1>2, <1>3 DEF Short

\* When nothing is under way, nothing is missing but an empty frame of an older peer.
LEMMA DeliveredLeaves ==
  ASSUME Typed, Delivered
  PROVE  NothingIsLeftBehind
<1> SUFFICES ASSUME recv # "flv", line = << >>, recv = "decoder" => Decode(buffer).res # "frame"
             PROVE  \/ got = Deliverable
                    \/ recv = "decoder" /\ Short(Last(Deliverable)) /\ got = Front(Deliverable)
  BY DEF NothingIsLeftBehind
<1>1. CASE recv = "decoder"
  <2>1. PICK pre \in Cells : \E at : DecoderAt(pre, at)
    BY <1>1 DEF Delivered
  <2>2. PICK at : DecoderAt(pre, at)
    BY <2>1
  <2> DEFINE m == Len(got)
             d == ReadablePrefix(sent)
             f == sent[m + 1]
             w == OnWire(f)
  <2>3. sent \in Seq(SentFrame) /\ got \in Seq(SentFrame) /\ buffer \in Cells
    <3>1. sent \in Seq(SentFrame) /\ got \in Seq(Frame) /\ buffer \in Cells
      BY <1>1 DEF Typed
    <3>2. \A i \in 1..m : got[i] \in SentFrame
      <4>1. \A i \in 1..m : got[i] = sent[i] /\ i \in 1..Len(sent)
        <5>1. m \in 0..Len(sent) /\ Len(sent) \in Nat /\ \A i \in 1..m : got[i] = sent[i]
          BY <2>2, <3>1, LenProperties DEF DecoderAt
        <5> QED
          BY <5>1
      <4> QED
        BY <3>1, <4>1, ElementOfSeq
    <3>3. m \in Nat /\ got \in [1..m -> Frame]
      BY <3>1, LenProperties
    <3>4. got \in [1..m -> SentFrame]
      BY <3>2, <3>3
    <3> HIDE DEF m
    <3>5. got \in Seq(SentFrame)
      BY <3>3, <3>4, SeqDef
    <3> QED
      BY <3>1, <3>5
  <2>4. Len(sent) \in Nat /\ m \in Nat /\ Len(buffer) \in Nat /\ Len(pre) \in Nat
    BY <2>3, LenProperties DEF Cells
  <2>5. buffer \o line = buffer
    BY <2>3, ConcatEmptySeq DEF Cells
  <2>6. LaidOut(pre \o buffer, at, sent) /\ m \in 0..Len(sent) /\ at[m] = Len(pre)
        /\ \A i \in 1..m : got[i] = sent[i] /\ Readable(sent[i])
    BY <2>2, <2>5 DEF DecoderAt
  <2>7. Decode(buffer).res # "frame"
    BY <1>1
  <2>8. Deliverable = d
    BY <1>1 DEF Deliverable
  <2>9. /\ d \in Seq(SentFrame) /\ m <= Len(d) /\ Begins(sent, d)
        /\ m = Len(sent) => d = sent
        /\ m < Len(sent) /\ ~Readable(f) => Len(d) = m
        /\ m + 1 = Len(sent) /\ Readable(f) => d = sent
    <3>1. m \in 0..Len(sent) /\ \A i \in 1..m : Readable(sent[i])
      BY <2>6
    <3> HIDE DEF m
    <3> QED
      BY <2>3, <3>1, ReadablePrefixIs
  <2>21. m = Len(got)
    OBVIOUS
  <2> HIDE DEF d, m
  <2>10. Len(d) \in Nat /\ Len(d) <= Len(sent) /\ \A i \in 1..Len(d) : sent[i] = d[i]
    BY <2>9, LenProperties DEF Begins
  <2>11. ASSUME Len(d) = m PROVE got = d
    <3>1. Len(got) = Len(d) /\ \A i \in 1..Len(got) : got[i] = d[i]
      BY <2>6, <2>10, <2>11, <2>21
    <3> QED
      BY <2>3, <2>9, <3>1, SeqEqual, Zenon
  <2>12. CASE m = Len(sent)
    BY <2>8, <2>9, <2>11, <2>12
  <2>13. CASE m < Len(sent)
    <3>1. m + 1 \in 1..Len(sent) /\ f \in SentFrame /\ Begins(buffer, w) /\ at[m + 1] = Len(pre) + Len(w)
      BY <2>3, <2>6, <2>13, NextBegins
    <3>2. CASE ~Readable(f)
      BY <2>8, <2>9, <2>11, <2>13, <3>2
    <3>3. CASE Readable(f)
      <4> HIDE DEF f
      <4>1. ~(Len(buffer) >= 7)
        <5>1. f \in SentFrame /\ buffer \in Cells /\ Begins(buffer, OnWire(f))
          BY <2>3, <3>1
        <5>2. Readable(f) /\ Len(buffer) >= 7 => Decode(buffer).res = "frame"
          BY <5>1, DecodeBegins, Zenon
        <5> QED
          BY <2>7, <3>3, <5>2
      <4>2. Len(w) \in Nat /\ Len(w) >= 6 /\ (Len(w) < 7 => Short(f))
        BY <3>1, SizeOnWire
      <4>3. Len(w) <= Len(buffer)
        BY <3>1 DEF Begins
      <4>9. at[m + 1] = Len(pre) + Len(w)
        BY <3>1
      <4> HIDE DEF w
      <4>4. Len(w) = 6 /\ Len(buffer) = 6 /\ Short(f)
        <5>1. Len(buffer) \in Nat
          BY <2>4
        <5>2. Len(w) \in Nat /\ Len(w) >= 6
          BY <4>2
        <5>3. Len(w) = 6 /\ Len(buffer) = 6 /\ Len(w) < 7
          <6> DEFINE a == Len(w)
                     b == Len(buffer)
          <6>1. a \in Nat /\ b \in Nat /\ a >= 6 /\ ~(b >= 7) /\ a <= b
            BY <4>1, <4>3, <5>1, <5>2
          <6> HIDE DEF a, b
          <6>2. a = 6 /\ b = 6 /\ a < 7
            BY <6>1
          <6> QED
            BY <6>2 DEF a, b
        <5> QED
          BY <4>2, <5>3
      <4>5. m + 1 = Len(sent)
        <5>1. SUFFICES ASSUME m + 1 < Len(sent) PROVE FALSE
          BY <2>4, <2>13
        <5>2. m + 2 \in 1..Len(sent) /\ m + 2 \in 0..Len(sent) /\ (m + 2) - 1 = m + 1
          BY <2>4, <5>1
        <5> DEFINE g == sent[m + 2]
                   all == pre \o buffer
        <5>3. g \in SentFrame
          BY <2>3, <5>2, ElementOfSeq
        <5>4. Len(OnWire(g)) \in Nat /\ Len(OnWire(g)) >= 6
          BY <5>3, SizeOnWire
        <5>5. at[m + 2] = at[m + 1] + Len(OnWire(g)) /\ at[m + 2] \in 0..Len(all)
          <6>1. /\ at \in [0..Len(sent) -> 0..Len(all)]
                /\ \A i \in 1..Len(sent) : at[i] = at[i - 1] + Len(OnWire(sent[i]))
            BY <2>6 DEF LaidOut
          <6>2. at[m + 2] = at[(m + 2) - 1] + Len(OnWire(sent[m + 2]))
            BY <5>2, <6>1
          <6>3. at[m + 2] \in 0..Len(all)
            BY <5>2, <6>1
          <6> QED
            BY <5>2, <6>2, <6>3
        <5>6. Len(all) = Len(pre) + Len(buffer)
          BY <2>3, PrefixStays
        <5> HIDE DEF g, all
        <5> QED
          BY ONLY <2>4, <4>4, <4>9, <5>4, <5>5, <5>6
      <4>6. d = sent
        BY <2>9, <3>3, <4>5 DEF f
      <4>7. Short(Last(d))
        BY <4>4, <4>5, <4>6 DEF Last, f
      <4>8. got = Front(d)
        <5> DEFINE e == SubSeq(sent, 1, m)
        <5>1. Front(d) = e
          <6>1. Len(sent) - 1 = m
            BY <2>4, <4>5
          <6> QED
            BY <4>6, <6>1 DEF Front
        <5>2. m \in 0..Len(sent)
          BY <2>6
        <5>3. e \in Seq(SentFrame) /\ Len(e) = m /\ \A i \in 1..m : e[i] = sent[i]
          BY <2>3, <5>2, TakeIs, Zenon
        <5> HIDE DEF e
        <5>4. Len(got) = Len(e) /\ \A i \in 1..Len(got) : got[i] = e[i]
          BY <2>6, <2>21, <5>3
        <5>5. got = e
          BY <2>3, <5>3, <5>4, SeqEqual, Zenon
        <5> QED
          BY <5>1, <5>5
      <4> QED
        BY <1>1, <2>8, <4>7, <4>8
    <3> QED
      BY <3>2, <3>3
  <2> QED
    BY <2>4, <2>6, <2>12, <2>13
<1>2. CASE recv = "ws"
  <2>1. PICK at, of : WsAt(at, of)
    BY <1>2 DEF Delivered
  <2>2. Carried(line, at, sent) /\ PicksTyped(of, sent) /\ got = of[at[0]]
    BY <2>1 DEF WsAt
  <2>3. sent \in Seq(SentFrame)
    BY <1>2 DEF Typed
  <2>4. at[0] = Len(sent)
    BY <2>2 DEF Carried
  <2>5. AllReadable(sent) = of[Len(sent)]
    BY <2>2, <2>3, AllReadableIs DEF PicksTyped
  <2> QED
    BY <1>2, <2>2, <2>4, <2>5 DEF Deliverable
<1> QED
  BY <1>1, <1>2 DEF Typed

\* Whatever is sent, by peers of either version, and however it is cut into
\* chunks, the frames handed on are those sent, in order, up to the first that
\* FrameDecoder cannot read, or all that can be read by themselves
\* (FrameDecoder::decode, PlainWsConn::recv_frame).
THEOREM FramesComeInOrder == WireSpec => []FramesArriveAsSent
<1>1. WireInit => Typed /\ Delivered
  BY TypedInit, DeliveredInit
<1>2. Typed /\ Delivered /\ [WireNext]_wireVars => (Typed /\ Delivered)'
  BY TypedStep, DeliveredStep
<1>3. Typed /\ Delivered => FramesArriveAsSent
  BY DeliveredArrives
<1> QED
  BY <1>1, <1>2, <1>3, PTL DEF WireSpec

\* A receiver that waits for more has handed on all that it can read, but for an
\* older peer's empty frame in FrameDecoder (Frame::decode wants a current header).
THEOREM NoFrameIsForgotten == WireSpec => []NothingIsLeftBehind
<1>1. WireInit => Typed /\ Delivered
  BY TypedInit, DeliveredInit
<1>2. Typed /\ Delivered /\ [WireNext]_wireVars => (Typed /\ Delivered)'
  BY TypedStep, DeliveredStep
<1>3. Typed /\ Delivered => NothingIsLeftBehind
  BY DeliveredLeaves
<1> QED
  BY <1>1, <1>2, <1>3, PTL DEF WireSpec
-----------------------------------------------------------------------------
(* The numbers of the payloads.                                            *)

Sealed(f) == f.type = Data /\ f.payload # << >>

CameIn(g) == {g[i].payload[1] : i \in {j \in DOMAIN g : g[j].type = Data /\ g[j].payload # << >>}}

\* The encryptor's counter is ahead of every payload sent, and they are numbered
\* in the order in which they were sent.
Numbered ==
    recv # "flv" =>
        /\ \A i \in 1..Len(sent) : Sealed(sent[i]) => sent[i].payload[1] < enc
        /\ \A i, j \in 1..Len(sent) :
              i < j /\ Sealed(sent[i]) /\ Sealed(sent[j]) => sent[i].payload[1] < sent[j].payload[1]

\* All payloads before number m have come and were opened, and m has not.  Either
\* nothing else has come and m is the one the decryptor waits for, or it has
\* skipped m, and something as far as its counter has come.
CountedTo(m) ==
    LET came == CameIn(got)
    IN  /\ opened = [i \in 1..m |-> i - 1]
        /\ 0..(m - 1) \subseteq came /\ m \notin came
        /\ \/ m = dec /\ came \subseteq 0..(m - 1)
           \/ m < dec /\ \E x \in came : x >= dec

Counted ==
    /\ \A c \in CameIn(got) : c < enc
    /\ \E m \in Nat : CountedTo(m)

LEMMA SealedNumber ==
  ASSUME NEW f \in Frame, Sealed(f)
  PROVE  f.payload[1] \in Nat
<1>1. f.payload \in Seq(Nat) /\ f.payload # << >>
  BY DEF Frame, Cells, Sealed
<1>2. Len(f.payload) \in Nat /\ Len(f.payload) # 0
  BY <1>1, EmptySeq, LenProperties
<1>3. 1 \in 1..Len(f.payload)
  BY <1>2
<1> QED
  BY <1>1, <1>3, ElementOfSeq

LEMMA CameIs ==
  ASSUME NEW g \in Seq(Frame)
  PROVE  /\ CameIn(g) \subseteq Nat
         /\ \A c : c \in CameIn(g) <=> \E i \in 1..Len(g) : Sealed(g[i]) /\ c = g[i].payload[1]
<1>1. DOMAIN g = 1..Len(g)
  BY LenProperties
<1>2. \A c : c \in CameIn(g) <=> \E i \in 1..Len(g) : Sealed(g[i]) /\ c = g[i].payload[1]
  BY <1>1 DEF CameIn, Sealed
<1>3. \A i \in 1..Len(g) : Sealed(g[i]) => g[i].payload[1] \in Nat
  BY ElementOfSeq, SealedNumber
<1> QED
  BY <1>2, <1>3

LEMMA CameMore ==
  ASSUME NEW g \in Seq(Frame), NEW f \in Frame
  PROVE  CameIn(Append(g, f)) = IF Sealed(f) THEN CameIn(g) \cup {f.payload[1]} ELSE CameIn(g)
<1> DEFINE h == Append(g, f)
<1>1. h \in Seq(Frame) /\ Len(h) = Len(g) + 1 /\ h[Len(g) + 1] = f /\ \A i \in 1..Len(g) : h[i] = g[i]
  BY AppendProperties
<1>2. Len(g) \in Nat
  BY LenProperties
<1> HIDE DEF h
<1>3. /\ \A i \in 1..Len(h) : i \in 1..Len(g) \/ i = Len(g) + 1
      /\ \A i \in 1..Len(g) : i \in 1..Len(h)
      /\ Len(g) + 1 \in 1..Len(h)
  BY <1>1, <1>2
<1>4. \A c : c \in CameIn(h) <=> \E i \in 1..Len(h) : Sealed(h[i]) /\ c = h[i].payload[1]
  BY <1>1, CameIs
<1>5. \A c : c \in CameIn(g) <=> \E i \in 1..Len(g) : Sealed(g[i]) /\ c = g[i].payload[1]
  BY CameIs
<1>6. \A c : c \in CameIn(h) <=> c \in CameIn(g) \/ (Sealed(f) /\ c = f.payload[1])
  <2>1. ASSUME NEW c, c \in CameIn(h) PROVE c \in CameIn(g) \/ (Sealed(f) /\ c = f.payload[1])
    <3>1. PICK i \in 1..Len(h) : Sealed(h[i]) /\ c = h[i].payload[1]
      BY <1>4, <2>1
    <3>2. CASE i \in 1..Len(g)
      BY <1>1, <1>5, <3>1, <3>2
    <3>3. CASE i = Len(g) + 1
      BY <1>1, <3>1, <3>3
    <3> QED
      BY <1>3, <3>2, <3>3
  <2>2. ASSUME NEW c, c \in CameIn(g) PROVE c \in CameIn(h)
    <3>1. PICK i \in 1..Len(g) : Sealed(g[i]) /\ c = g[i].payload[1]
      BY <1>5, <2>2
    <3> QED
      BY <1>1, <1>3, <1>4, <3>1
  <2>3. ASSUME Sealed(f) PROVE f.payload[1] \in CameIn(h)
    BY <1>1, <1>3, <1>4, <2>3
  <2> QED
    BY <2>1, <2>2, <2>3
<1>7. CASE Sealed(f)
  BY <1>6, <1>7 DEF h
<1>8. CASE ~Sealed(f)
  BY <1>6, <1>8 DEF h
<1> QED
  BY <1>7, <1>8

LEMMA CountedInit == WireInit => Numbered /\ Counted
<1> SUFFICES ASSUME WireInit PROVE Numbered /\ Counted
  OBVIOUS
<1>1. got = << >> /\ sent = << >> /\ opened = << >> /\ dec = 0
  BY DEF WireInit
<1>2. CameIn(got) = {}
  BY <1>1 DEF CameIn
<1>3. Numbered
  BY <1>1 DEF Numbered
<1>4. << >> = [i \in 1..0 |-> i - 1]
  OBVIOUS
<1>5. CountedTo(0)
  BY <1>1, <1>2, <1>4 DEF CountedTo
<1>6. 0 \in Nat
  OBVIOUS
<1> QED
  BY <1>2, <1>3, <1>5, <1>6 DEF Counted

\* The next frame has a number that no frame handed on has reached.
LEMMA NewNumber ==
  ASSUME Typed, Numbered, recv # "flv", NEW q \in 1..Len(sent),
         \A i \in 1..Len(got) : \E j \in 1..(q - 1) : got[i] = sent[j],
         Sealed(sent[q])
  PROVE  sent[q].payload[1] < enc /\ \A c \in CameIn(got) : c < sent[q].payload[1]
<1>1. /\ \A i \in 1..Len(sent) : Sealed(sent[i]) => sent[i].payload[1] < enc
      /\ \A i, j \in 1..Len(sent) :
            i < j /\ Sealed(sent[i]) /\ Sealed(sent[j]) => sent[i].payload[1] < sent[j].payload[1]
  BY DEF Numbered
<1>2. ASSUME NEW c \in CameIn(got) PROVE c < sent[q].payload[1]
  <2>1. got \in Seq(Frame) /\ sent \in Seq(SentFrame)
    BY DEF Typed
  <2>2. PICK i \in 1..Len(got) : Sealed(got[i]) /\ c = got[i].payload[1]
    BY <2>1, CameIs
  <2>3. PICK j \in 1..(q - 1) : got[i] = sent[j]
    BY <2>2
  <2>4. Len(sent) \in Nat
    BY <2>1, LenProperties
  <2>5. j \in 1..Len(sent) /\ j < q
    BY <2>4
  <2> QED
    BY <1>1, <2>2, <2>3, <2>5
<1> QED
  BY <1>1, <1>2

\* Opening a frame, with the decryptor as far as it is.
LEMMA CountedHandsOn ==
  ASSUME Typed, Counted, NEW f \in Frame, HandOn(f), enc' = enc,
         Sealed(f) => f.payload[1] < enc /\ \A c \in CameIn(got) : c < f.payload[1]
  PROVE  Counted'
<1> DEFINE came == CameIn(got)
           p == f.payload[1]
<1>1. got \in Seq(Frame) /\ dec \in Nat /\ got' = Append(got, f)
  BY DEF Typed, HandOn
<1>2. PICK m \in Nat : CountedTo(m)
  BY DEF Counted
<1>3. /\ opened = [i \in 1..m |-> i - 1]
      /\ 0..(m - 1) \subseteq came /\ m \notin came
      /\ \/ m = dec /\ came \subseteq 0..(m - 1)
         \/ m < dec /\ \E x \in came : x >= dec
  BY <1>2 DEF CountedTo
<1>4. CameIn(got') = IF Sealed(f) THEN came \cup {p} ELSE came
  BY <1>1, CameMore
<1>5. came \subseteq Nat /\ \A c \in came : c < enc
  BY <1>1, CameIs DEF Counted
<1> HIDE DEF came
<1>6. CASE ~Sealed(f)
  <2>1. dec' = dec /\ opened' = opened
    BY <1>6 DEF HandOn, Decrypt, Sealed
  <2>2. CameIn(got') = came
    BY <1>4, <1>6
  <2>3. CountedTo(m)'
    BY <1>3, <2>1, <2>2 DEF CountedTo
  <2> QED
    BY <1>5, <2>2, <2>3 DEF Counted
<1>7. CASE Sealed(f)
  <2>1. p \in Nat /\ p < enc /\ \A c \in came : c < p
    BY <1>7, SealedNumber DEF came
  <2>2. CameIn(got') = came \cup {p}
    BY <1>4, <1>7
  <2>3. dec' = dec + 1 /\ opened' = IF p = dec THEN Append(opened, dec) ELSE opened
    BY <1>7 DEF HandOn, Decrypt, Sealed
  <2> HIDE DEF p
  <2>4. \A c \in CameIn(got') : c < enc'
    BY <1>5, <2>1, <2>2
  <2>5. CASE m = dec /\ came \subseteq 0..(m - 1) /\ p = dec
    <3>1. opened' = [i \in 1..(m + 1) |-> i - 1]
      <4>1. opened' = Append([i \in 1..m |-> i - 1], m)
        BY <1>3, <2>3, <2>5
      <4>2. Append([i \in 1..m |-> i - 1], m) = [i \in 1..(m + 1) |-> i - 1]
        OBVIOUS
      <4> QED
        BY <4>1, <4>2
    <3>2. 0..((m + 1) - 1) \subseteq came \cup {p} /\ m + 1 \notin came \cup {p}
          /\ m + 1 = dec + 1 /\ came \cup {p} \subseteq 0..((m + 1) - 1)
      BY <1>1, <1>3, <2>1, <2>5
    <3>3. CountedTo(m + 1)'
      BY <2>2, <2>3, <3>1, <3>2 DEF CountedTo
    <3>4. m + 1 \in Nat
      OBVIOUS
    <3> QED
      BY <2>4, <3>3, <3>4 DEF Counted
  <2>6. CASE m = dec /\ came \subseteq 0..(m - 1) /\ p # dec
    <3>1. p > m
      <4>1. ~(p \in 0..(m - 1))
        BY <1>3, <2>1
      <4> QED
        BY <1>1, <2>1, <2>6, <4>1
    <3>2. opened' = opened
      BY <2>3, <2>6
    <3>3. 0..(m - 1) \subseteq came \cup {p} /\ m \notin came \cup {p} /\ m < dec + 1
          /\ p >= dec + 1
      BY <1>1, <1>3, <2>1, <2>6, <3>1
    <3>4. CountedTo(m)'
      BY <1>3, <2>2, <2>3, <3>2, <3>3 DEF CountedTo
    <3> QED
      BY <2>4, <3>4 DEF Counted
  <2>7. CASE m < dec /\ \E x \in came : x >= dec
    <3>1. PICK x \in came : x >= dec
      BY <2>7
    <3>2. x \in Nat /\ p > x
      BY <1>5, <2>1, <3>1
    <3>3. p # dec /\ p >= dec + 1 /\ p # m /\ m < dec + 1
      BY <1>1, <2>1, <2>7, <3>1, <3>2
    <3>4. opened' = opened
      BY <2>3, <3>3
    <3>5. 0..(m - 1) \subseteq came \cup {p} /\ m \notin came \cup {p}
      BY <1>3, <3>3
    <3>6. CountedTo(m)'
      BY <1>3, <2>2, <2>3, <3>3, <3>4, <3>5 DEF CountedTo
    <3> QED
      BY <2>4, <3>6 DEF Counted
  <2> QED
    BY <1>3, <2>5, <2>6, <2>7
<1> QED
  BY <1>6, <1>7

LEMMA NumberedStep ==
  ASSUME Typed, Numbered, [WireNext]_wireVars
  PROVE  Numbered'
<1>1. ASSUME UNCHANGED <<recv, sent, enc>> PROVE Numbered'
  BY <1>1 DEF Numbered
<1>2. ASSUME SenderStep, recv # "flv" PROVE Numbered'
  <2>1. PICK f \in SentFrame :
          /\ sent' = Append(sent, f)
          /\ \/ f.type = Data /\ f.payload # << >> /\ f.payload[1] = enc /\ enc' = enc + 1
             \/ f.payload = << >> /\ enc' = enc
    BY <1>2 DEF SenderStep
  <2>2. sent \in Seq(SentFrame) /\ enc \in Nat
    BY <1>2 DEF Typed
  <2>3. /\ Len(sent') = Len(sent) + 1 /\ Len(sent) \in Nat
        /\ sent'[Len(sent) + 1] = f /\ \A i \in 1..Len(sent) : sent'[i] = sent[i]
    BY <2>1, <2>2, AppendProperties, LenProperties
  <2>4. \A i \in 1..Len(sent') : i \in 1..Len(sent) \/ i = Len(sent) + 1
    BY <2>3
  <2>5. /\ \A i \in 1..Len(sent) : Sealed(sent[i]) => sent[i].payload[1] < enc
        /\ \A i, j \in 1..Len(sent) :
              i < j /\ Sealed(sent[i]) /\ Sealed(sent[j]) => sent[i].payload[1] < sent[j].payload[1]
    BY <1>2 DEF Numbered
  <2>6. \A i \in 1..Len(sent) : Sealed(sent[i]) => sent[i].payload[1] \in Nat
    <3>1. \A i \in 1..Len(sent) : sent[i] \in Frame
      BY <2>2, ElementOfSeq DEF SentFrame
    <3> QED
      BY <3>1, SealedNumber
  <2>7. enc' \in Nat /\ enc <= enc' /\ (Sealed(f) => f.payload[1] = enc /\ enc' = enc + 1)
    BY <2>1, <2>2 DEF Sealed
  <2>8. \A i \in 1..Len(sent') : Sealed(sent'[i]) => sent'[i].payload[1] < enc'
    <3>1. ASSUME NEW i \in 1..Len(sent), Sealed(sent'[i]) PROVE sent'[i].payload[1] < enc'
      <4>1. sent[i].payload[1] < enc /\ sent[i].payload[1] \in Nat
        BY <2>3, <2>5, <2>6, <3>1
      <4> QED
        BY <2>2, <2>3, <2>7, <4>1
    <3>2. Sealed(f) => f.payload[1] < enc'
      BY <2>2, <2>7
    <3> QED
      BY <2>3, <2>4, <3>1, <3>2
  <2>9. ASSUME NEW i \in 1..Len(sent'), NEW j \in 1..Len(sent'), i < j, Sealed(sent'[i]), Sealed(sent'[j])
        PROVE  sent'[i].payload[1] < sent'[j].payload[1]
    <3>1. i \in 1..Len(sent)
      BY <2>3, <2>9
    <3>2. CASE j \in 1..Len(sent)
      BY <2>3, <2>5, <2>9, <3>1, <3>2
    <3>3. CASE j = Len(sent) + 1
      <4>1. sent'[j].payload[1] = enc
        BY <2>3, <2>7, <2>9, <3>3
      <4>2. sent'[i].payload[1] < enc
        BY <2>3, <2>5, <2>9, <3>1
      <4> QED
        BY <4>1, <4>2
    <3> QED
      BY <2>4, <3>2, <3>3
  <2> QED
    BY <2>8, <2>9 DEF Numbered
<1>3. ASSUME SenderStep, recv = "flv" PROVE Numbered'
  BY <1>3 DEF SenderStep, Numbered
<1>4. ASSUME NEW k \in 1..Len(line), Feed(k) \/ PullChunk(k) PROVE Numbered'
  BY <1>1, <1>4 DEF Feed, PullChunk, cipherVars
<1>5. CASE DecodeOne \/ WsRecv
  BY <1>1, <1>5 DEF DecodeOne, WsRecv
<1>6. CASE WsOther \/ WsIgnores \/ ConnStep
  BY <1>1, <1>6 DEF WsOther, WsIgnores, ConnStep, cipherVars
<1> QED
  BY <1>2, <1>3, <1>4, <1>5, <1>6, NextIs

LEMMA CountedStep ==
  ASSUME Typed, Delivered, Numbered, Counted, [WireNext]_wireVars
  PROVE  Counted'
<1>1. ASSUME UNCHANGED <<got, dec, opened>>, enc' = enc \/ enc' = enc + 1 PROVE Counted'
  <2>1. got' = got /\ (\E m \in Nat : CountedTo(m))'
    BY <1>1 DEF Counted, CountedTo
  <2>2. \A c \in CameIn(got) : c < enc'
    <3>1. enc \in Nat /\ got \in Seq(Frame)
      BY DEF Typed
    <3>2. CameIn(got) \subseteq Nat /\ \A c \in CameIn(got) : c < enc
      BY <3>1, CameIs DEF Counted
    <3> QED
      BY <1>1, <3>1, <3>2
  <2> QED
    BY <2>1, <2>2 DEF Counted
<1>2. CASE SenderStep
  BY <1>1, <1>2 DEF SenderStep
<1>3. ASSUME NEW k \in 1..Len(line), Feed(k) \/ PullChunk(k) PROVE Counted'
  BY <1>1, <1>3 DEF Feed, PullChunk, cipherVars
<1>4. CASE WsOther \/ WsIgnores \/ ConnStep
  BY <1>1, <1>4 DEF WsOther, WsIgnores, ConnStep, cipherVars
<1>5. CASE DecodeOne
  <2> DEFINE f == sent[Len(got) + 1]
  <2>1. recv = "decoder" /\ Decode(buffer).res = "frame" /\ HandOn(Decode(buffer).frame) /\ enc' = enc
    BY <1>5 DEF DecodeOne
  <2>2. PICK pre \in Cells : \E at : DecoderAt(pre, at)
    BY <2>1 DEF Delivered
  <2>3. PICK at : DecoderAt(pre, at)
    BY <2>2
  <2>4. Len(got) + 1 \in 1..Len(sent) /\ Decode(buffer).frame = f
    BY <2>1, <2>3, DecodeOneIs
  <2>5. sent \in Seq(SentFrame) /\ got \in Seq(Frame) /\ Len(got) \in Nat
    BY <2>1, LenProperties DEF Typed
  <2>6. \A i \in 1..Len(got) : \E j \in 1..((Len(got) + 1) - 1) : got[i] = sent[j]
    <3>1. (Len(got) + 1) - 1 = Len(got) /\ \A i \in 1..Len(got) : got[i] = sent[i]
      BY <2>3, <2>5 DEF DecoderAt
    <3> QED
      BY <3>1
  <2>7. Sealed(f) => f.payload[1] < enc /\ \A c \in CameIn(got) : c < f.payload[1]
    BY <2>1, <2>4, <2>6, NewNumber
  <2>8. f \in Frame
    BY <2>4, <2>5, ElementOfSeq DEF SentFrame
  <2> HIDE DEF f
  <2> QED
    BY <2>1, <2>4, <2>7, <2>8, CountedHandsOn
<1>6. CASE WsRecv
  <2> DEFINE r == Decode(line[1].cells)
  <2>1. recv = "ws" /\ enc' = enc
        /\ IF r.res = "frame" THEN HandOn(r.frame) ELSE UNCHANGED <<got, dec, opened>>
    BY <1>6 DEF WsRecv
  <2>2. PICK at, of : WsAt(at, of)
    BY <2>1 DEF Delivered
  <2> DEFINE f == sent[at[0] + 1]
  <2>3. at[0] + 1 \in 1..Len(sent) /\ f \in SentFrame /\ (r.res = "frame" => r.frame = f)
    BY <1>6, <2>2, WsRecvIs
  <2>4. \A i \in 1..Len(got) : \E j \in 1..at[0] : got[i] = sent[j]
    BY <2>2 DEF WsAt
  <2>5. at[0] \in Nat
    <3>1. Carried(line, at, sent) /\ line \in Seq(Message) /\ sent \in Seq(SentFrame)
      BY <2>1, <2>2 DEF WsAt, Typed
    <3>2. Len(line) \in Nat /\ Len(sent) \in Nat
      BY <3>1, LenProperties
    <3>3. 0 \in 0..Len(line)
      BY <3>2
    <3>4. at[0] \in 0..Len(sent)
      BY <3>1, <3>3 DEF Carried
    <3> QED
      BY <3>2, <3>4
  <2>6. \A i \in 1..Len(got) : \E j \in 1..((at[0] + 1) - 1) : got[i] = sent[j]
    <3>1. (at[0] + 1) - 1 = at[0]
      BY <2>5
    <3> QED
      BY <2>4, <3>1
  <2>7. Sealed(f) => f.payload[1] < enc /\ \A c \in CameIn(got) : c < f.payload[1]
    BY <2>1, <2>3, <2>6, NewNumber
  <2>8. f \in Frame
    BY <2>3 DEF SentFrame
  <2> HIDE DEF f, r
  <2>9. CASE r.res = "frame"
    BY <2>1, <2>3, <2>7, <2>8, <2>9, CountedHandsOn
  <2>10. CASE r.res # "frame"
    BY <1>1, <2>1, <2>10
  <2> QED
    BY <2>9, <2>10
<1> QED
  BY <1>2, <1>3, <1>4, <1>5, <1>6, NextIs

LEMMA CountedSuffices ==
  ASSUME Typed, Counted
  PROVE  CipherKeepsStep
<1> DEFINE came == CameIn(got)
           left == {c \in 0..enc : c \notin came}
<1>1. PICK m \in Nat : CountedTo(m)
  BY DEF Counted
<1>2. enc \in Nat /\ \A c \in came : c < enc
  BY DEF Counted, Typed
<1>3. /\ opened = [i \in 1..m |-> i - 1]
      /\ 0..(m - 1) \subseteq came /\ m \notin came
  BY <1>1 DEF CountedTo
<1>7. Min(left) = m => CipherKeepsStep
  BY <1>3 DEF CipherKeepsStep, CameIn
<1> HIDE DEF came
<1>4. m \in 0..enc
  <2>1. CASE m = 0
    BY <1>2, <2>1
  <2>2. CASE m # 0
    <3>1. m - 1 \in 0..(m - 1)
      BY <2>2
    <3>2. m - 1 < enc
      BY <1>2, <1>3, <3>1
    <3> QED
      BY <1>2, <3>2
  <2> QED
    BY <2>1, <2>2
<1>5. m \in left /\ left \subseteq Nat
  BY <1>3, <1>4
<1>6. \A c \in left : m <= c
  <2>1. ASSUME NEW c \in left PROVE m <= c
    <3>1. c \in Nat /\ c \notin 0..(m - 1)
      BY <1>3
    <3> QED
      BY <3>1
  <2> QED
    BY <2>1
<1> HIDE DEF left
<1>8. Min(left) = m
  BY <1>5, <1>6, MinIs
<1> QED
  BY <1>7, <1>8

\* The two ends of the cipher agree on what is opened: the payloads from number 0
\* to the first that did not come, and no other, however many are sent, and
\* whatever is lost before it or handed on after it (StreamEncryptor::encrypt,
\* StreamDecryptor::decrypt).
THEOREM CountersAgree == WireSpec => []CipherKeepsStep
<1>1. WireInit => Typed /\ Delivered /\ Numbered /\ Counted
  BY TypedInit, DeliveredInit, CountedInit
<1>2. Typed /\ Delivered /\ Numbered /\ Counted /\ [WireNext]_wireVars => (Typed /\ Delivered /\ Numbered /\ Counted)'
  BY TypedStep, DeliveredStep, NumberedStep, CountedStep
<1>3. Typed /\ Counted => CipherKeepsStep
  BY CountedSuffices
<1> QED
  BY <1>1, <1>2, <1>3, PTL DEF WireSpec
-----------------------------------------------------------------------------
(* Tags are read as they are written.                                      *)

\* The three bytes of a size make it up again,
LEMMA SizeIs ==
  ASSUME NEW n \in Nat, Fits(n, 3)
  PROVE  BigEndian(Byte(n, 2), Byte(n, 1), Byte(n, 0)) = n
<1>1. 256^0 = 1 /\ 256^1 = 256 /\ 256^2 = 65536 /\ 3 - 1 = 2
  OBVIOUS
<1>2. /\ Byte(n, 2) = (n \div 65536) % 256
      /\ Byte(n, 1) = (n \div 256) % 256 /\ Byte(n, 0) = (n \div 1) % 256
      /\ n \div 65536 < 256
  BY <1>1 DEF Byte, Fits
<1> DEFINE a == n \div 256
           b == n \div 65536
<1>3. a \in Nat /\ b \in Nat /\ n \div 1 = n
  OBVIOUS
<1>4. n = 256 * a + (n % 256) /\ n % 256 \in 0..255
  OBVIOUS
<1>5. b = a \div 256
  OBVIOUS
<1>7. b % 256 = b
  BY <1>2, <1>3
<1>10. Byte(n, 2) = b /\ Byte(n, 1) = a % 256 /\ Byte(n, 0) = n % 256
  BY <1>2, <1>3, <1>7
<1> HIDE DEF a, b
<1>6. a = 256 * b + (a % 256) /\ a % 256 \in Nat
  BY <1>3, <1>5
<1>8. BigEndian(b, a % 256, n % 256) = (b * 256 + (a % 256)) * 256 + (n % 256)
  BY DEF BigEndian
<1>9. (b * 256 + (a % 256)) * 256 + (n % 256) = n
  BY <1>3, <1>4, <1>6
<1> QED
  BY <1>8, <1>9, <1>10, Zenon

\* and the four bytes of a timestamp, of which the highest comes last, make that.
LEMMA TimestampIs ==
  ASSUME NEW n \in Nat, Fits(n, 4)
  PROVE  BigEndian(Byte(n, 3) * 256 + Byte(n, 2), Byte(n, 1), Byte(n, 0)) = n
<1>1. 256^0 = 1 /\ 256^1 = 256 /\ 256^2 = 65536 /\ 256^3 = 16777216
  OBVIOUS
<1>2. /\ Byte(n, 3) = (n \div 16777216) % 256 /\ Byte(n, 2) = (n \div 65536) % 256
      /\ Byte(n, 1) = (n \div 256) % 256 /\ Byte(n, 0) = (n \div 1) % 256
  BY <1>1 DEF Byte
<1> DEFINE a == n \div 256
           b == n \div 65536
           c == n \div 16777216
<1>3. a \in Nat /\ b \in Nat /\ c \in Nat /\ n \div 1 = n
  OBVIOUS
<1>4. n = 256 * a + (n % 256) /\ n % 256 \in 0..255
  OBVIOUS
<1>5. b = a \div 256 /\ c = b \div 256
  OBVIOUS
<1> HIDE DEF a, b, c
<1>6. a = 256 * b + (a % 256) /\ b = 256 * c + (b % 256) /\ a % 256 \in Nat /\ b % 256 \in Nat
  BY <1>3, <1>5
<1>7. c % 256 = c
  <2>1. 4 - 1 = 3
    OBVIOUS
  <2>2. n \div 16777216 < 256
    BY <1>1, <2>1 DEF Fits
  <2> QED
    BY <1>3, <2>2 DEF c
<1>8. BigEndian(c * 256 + (b % 256), a % 256, n % 256)
        = ((c * 256 + (b % 256)) * 256 + (a % 256)) * 256 + (n % 256)
  BY DEF BigEndian
<1>9. ((c * 256 + (b % 256)) * 256 + (a % 256)) * 256 + (n % 256) = n
  BY <1>3, <1>4, <1>6
<1>10. Byte(n, 3) = c /\ Byte(n, 2) = b % 256 /\ Byte(n, 1) = a % 256 /\ Byte(n, 0) = n % 256
  BY <1>2, <1>3, <1>7 DEF a, b, c
<1> QED
  BY <1>8, <1>9, <1>10, Zenon

\* Where the cells of two parts are when one follows the other.
LEMMA TwoParts ==
  ASSUME NEW x \in Cells, NEW y \in Cells
  PROVE  /\ x \o y \in Cells /\ Len(x) \in Nat /\ Len(y) \in Nat
         /\ Len(x \o y) = Len(x) + Len(y)
         /\ \A i \in 1..Len(x) : (x \o y)[i] = x[i]
         /\ \A i \in 1..Len(y) : (x \o y)[Len(x) + i] = y[i]
<1>1. x \in Seq(Nat) /\ y \in Seq(Nat) /\ Len(x) \in Nat /\ Len(y) \in Nat
  BY LenProperties DEF Cells
<1>2. /\ x \o y \in Seq(Nat) /\ Len(x \o y) = Len(x) + Len(y)
      /\ \A i \in 1..(Len(x) + Len(y)) : (x \o y)[i] = IF i <= Len(x) THEN x[i] ELSE y[i - Len(x)]
  BY <1>1, ConcatProperties, Zenon
<1>3. /\ \A i \in 1..Len(x) : i \in 1..(Len(x) + Len(y)) /\ i <= Len(x)
      /\ \A i \in 1..Len(y) : /\ Len(x) + i \in 1..(Len(x) + Len(y)) /\ ~(Len(x) + i <= Len(x))
                              /\ (Len(x) + i) - Len(x) = i
  BY <1>1
<1> QED
  BY <1>1, <1>2, <1>3 DEF Cells

\* The eleven bytes before the data of a tag.
TagHeader(k, l, m, n, x, y, z, u) == <<k>> \o <<l, m, n>> \o <<x, y, z, u>> \o <<0, 0, 0>>

HeadedBy(w, k, l, m, n, x, y, z, u) ==
    /\ w \in Cells /\ Len(w) = 11
    /\ w[1] = k /\ w[2] = l /\ w[3] = m /\ w[4] = n
    /\ w[5] = x /\ w[6] = y /\ w[7] = z /\ w[8] = u

LEMMA TagHeaderIs ==
  ASSUME NEW k \in Nat, NEW l \in Nat, NEW m \in Nat, NEW n \in Nat,
         NEW x \in Nat, NEW y \in Nat, NEW z \in Nat, NEW u \in Nat
  PROVE  HeadedBy(TagHeader(k, l, m, n, x, y, z, u), k, l, m, n, x, y, z, u)
<1> DEFINE a1 == <<k>>
           a2 == <<l, m, n>>
           a3 == <<x, y, z, u>>
           a4 == <<0, 0, 0>>
           b == a1 \o a2
           c == b \o a3
           h == c \o a4
<1>0. TagHeader(k, l, m, n, x, y, z, u) = h
  BY DEF TagHeader
<1>1. /\ a1 \in Cells /\ a2 \in Cells /\ a3 \in Cells /\ a4 \in Cells
      /\ Len(a1) = 1 /\ Len(a2) = 3 /\ Len(a3) = 4 /\ Len(a4) = 3
      /\ a1[1] = k /\ a2[1] = l /\ a2[2] = m /\ a2[3] = n
      /\ a3[1] = x /\ a3[2] = y /\ a3[3] = z /\ a3[4] = u
  BY DEF Cells
<1> HIDE DEF a1, a2, a3, a4
<1>2. b \in Cells /\ Len(b) = 4 /\ b[1] = k /\ b[2] = l /\ b[3] = m /\ b[4] = n
  <2>0. /\ b \in Cells /\ Len(b) = Len(a1) + Len(a2)
        /\ \A i \in 1..Len(a1) : b[i] = a1[i]
        /\ \A i \in 1..Len(a2) : b[Len(a1) + i] = a2[i]
    BY <1>1, TwoParts
  <2>1. /\ b \in Cells /\ Len(b) = 1 + 3
        /\ \A i \in 1..1 : b[i] = a1[i]
        /\ \A i \in 1..3 : b[1 + i] = a2[i]
    BY <1>1, <2>0
  <2>2. b[1] = a1[1] /\ b[1 + 1] = a2[1] /\ b[1 + 2] = a2[2] /\ b[1 + 3] = a2[3]
    BY <2>1
  <2> QED
    BY <1>1, <2>1, <2>2
<1> HIDE DEF b
<1>3. /\ c \in Cells /\ Len(c) = 8
      /\ \A i \in 1..4 : c[i] = b[i]
      /\ c[5] = x /\ c[6] = y /\ c[7] = z /\ c[8] = u
  <2>0. /\ c \in Cells /\ Len(c) = Len(b) + Len(a3)
        /\ \A i \in 1..Len(b) : c[i] = b[i]
        /\ \A i \in 1..Len(a3) : c[Len(b) + i] = a3[i]
    BY <1>1, <1>2, TwoParts
  <2>1. /\ c \in Cells /\ Len(c) = 4 + 4
        /\ \A i \in 1..4 : c[i] = b[i]
        /\ \A i \in 1..4 : c[4 + i] = a3[i]
    BY <1>1, <1>2, <2>0
  <2> HIDE DEF c
  <2>2. c[4 + 1] = a3[1] /\ c[4 + 2] = a3[2] /\ c[4 + 3] = a3[3] /\ c[4 + 4] = a3[4]
    BY <2>1
  <2> QED
    BY <1>1, <2>1, <2>2
<1> HIDE DEF c
<1>4. h \in Cells /\ Len(h) = 11 /\ \A i \in 1..8 : h[i] = c[i]
  <2>1. h \in Cells /\ Len(h) = Len(c) + Len(a4) /\ \A i \in 1..Len(c) : h[i] = c[i]
    BY <1>1, <1>3, TwoParts
  <2> HIDE DEF h
  <2> QED
    BY <1>1, <1>3, <2>1
<1> HIDE DEF h
<1>5. h[1] = k /\ h[2] = l /\ h[3] = m /\ h[4] = n /\ h[5] = x /\ h[6] = y /\ h[7] = z /\ h[8] = u
  <2>1. \A i \in 1..4 : i \in 1..8 /\ h[i] = b[i]
    BY <1>3, <1>4
  <2> QED
    BY <1>2, <1>3, <1>4, <2>1
<1>6. HeadedBy(h, k, l, m, n, x, y, z, u)
  BY <1>4, <1>5 DEF HeadedBy
<1> QED
  BY <1>0, <1>6

\* Where the parts of a tag are among the bytes that follow, when others come
\* after it.
TagAhead(t, n, b, r) ==
    /\ b \in Cells /\ n \in Nat /\ Len(b) = n + 15 + Len(r)
    /\ b[1] = t.type /\ b[2] = Byte(n, 2) /\ b[3] = Byte(n, 1) /\ b[4] = Byte(n, 0)
    /\ b[5] = Byte(t.ts, 2) /\ b[6] = Byte(t.ts, 1) /\ b[7] = Byte(t.ts, 0)
    /\ b[8] = Byte(t.ts, 3)
    /\ \A i \in 1..n : b[11 + i] = t.data[i]
    /\ \A i \in 1..Len(r) : b[n + 15 + i] = r[i]

LEMMA TagWireIs ==
  ASSUME NEW t \in Tags, NEW r \in Cells
  PROVE  TagAhead(t, Len(t.data), BuildFlvTagWire(t) \o r, r)
<1> DEFINE d == t.data
           n == Len(d)
           h == TagHeader(t.type, Byte(n, 2), Byte(n, 1), Byte(n, 0),
                          Byte(t.ts, 2), Byte(t.ts, 1), Byte(t.ts, 0), Byte(t.ts, 3))
           e == Word(TagHeaderLen + n)
           v == h \o d
           w == v \o e
           b == w \o r
<1>1. BuildFlvTagWire(t) = w
  BY DEF BuildFlvTagWire, TagHeader, Size
<1>2. d \in Cells /\ n \in Nat /\ t.type \in Nat /\ t.ts \in Nat
  BY TagIsTyped, LenProperties DEF Cells
<1>3. \A k \in {0, 1, 2, 3} : Byte(t.ts, k) \in Nat /\ Byte(n, k) \in Nat
  BY <1>2, ByteIsNat
<1>4. /\ h \in Cells /\ Len(h) = 11
      /\ h[1] = t.type /\ h[2] = Byte(n, 2) /\ h[3] = Byte(n, 1) /\ h[4] = Byte(n, 0)
      /\ h[5] = Byte(t.ts, 2) /\ h[6] = Byte(t.ts, 1) /\ h[7] = Byte(t.ts, 0) /\ h[8] = Byte(t.ts, 3)
  <2>1. Byte(t.ts, 2) \in Nat /\ Byte(t.ts, 1) \in Nat /\ Byte(t.ts, 0) \in Nat /\ Byte(t.ts, 3) \in Nat
        /\ Byte(n, 2) \in Nat /\ Byte(n, 1) \in Nat /\ Byte(n, 0) \in Nat
    BY <1>3
  <2>2. HeadedBy(h, t.type, Byte(n, 2), Byte(n, 1), Byte(n, 0), Byte(t.ts, 2), Byte(t.ts, 1), Byte(t.ts, 0), Byte(t.ts, 3))
    <3> HIDE DEF n
    <3> QED
      BY <1>2, <2>1, TagHeaderIs
  <2> HIDE DEF n, h
  <2> QED
    BY <2>2 DEF HeadedBy
<1>5. e \in Cells /\ Len(e) = 4
  <2>1. TagHeaderLen + n \in Nat
    BY <1>2 DEF TagHeaderLen
  <2> QED
    BY <2>1, NumbersAreCells
<1> HIDE DEF h, e, d
<1>6. /\ v \in Cells /\ Len(v) = 11 + n
      /\ \A i \in 1..11 : v[i] = h[i]
      /\ \A i \in 1..n : v[11 + i] = d[i]
  <2>1. /\ v \in Cells /\ Len(v) = Len(h) + Len(d)
        /\ \A i \in 1..Len(h) : v[i] = h[i]
        /\ \A i \in 1..Len(d) : v[Len(h) + i] = d[i]
    BY <1>2, <1>4, TwoParts
  <2> QED
    BY <1>4, <2>1 DEF n
<1> HIDE DEF v, n
<1>7. /\ w \in Cells /\ Len(w) = n + 15
      /\ \A i \in 1..(11 + n) : w[i] = v[i]
  <2>1. w \in Cells /\ Len(w) = Len(v) + Len(e) /\ \A i \in 1..Len(v) : w[i] = v[i]
    BY <1>5, <1>6, TwoParts
  <2> QED
    BY <1>2, <1>5, <1>6, <2>1
<1> HIDE DEF w
<1>8. /\ b \in Cells /\ Len(b) = n + 15 + Len(r)
      /\ \A i \in 1..(n + 15) : b[i] = w[i]
      /\ \A i \in 1..Len(r) : b[n + 15 + i] = r[i]
  <2>1. /\ b \in Cells /\ Len(b) = Len(w) + Len(r)
        /\ \A i \in 1..Len(w) : b[i] = w[i]
        /\ \A i \in 1..Len(r) : b[Len(w) + i] = r[i]
    BY <1>7, TwoParts
  <2> QED
    BY <1>7, <2>1
<1> HIDE DEF b
<1>9. \A i \in 1..8 : i \in 1..11 /\ i \in 1..(11 + n) /\ i \in 1..(n + 15)
  BY <1>2
<1>10. \A i \in 1..n : 11 + i \in 1..(11 + n) /\ 11 + i \in 1..(n + 15)
  BY <1>2
<1>11. \A i \in 1..8 : b[i] = h[i]
  BY <1>6, <1>7, <1>8, <1>9
<1>12. \A i \in 1..n : b[11 + i] = d[i]
  BY <1>6, <1>7, <1>8, <1>10
<1>13. /\ b[1] = h[1] /\ b[2] = h[2] /\ b[3] = h[3] /\ b[4] = h[4]
       /\ b[5] = h[5] /\ b[6] = h[6] /\ b[7] = h[7] /\ b[8] = h[8]
  BY <1>11
<1>14. TagAhead(t, n, b, r)
  BY <1>2, <1>4, <1>8, <1>12, <1>13 DEF TagAhead, d
<1> QED
  BY <1>1, <1>14 DEF b, d, n

\* For all tags an agent can send, of every size three bytes can say, whatever comes
\* after: the parser that stands at
\* the first byte of a tag hands on that tag and stands after it.  So the header
\* of the stream is the only thing it misreads (flv.rs:307).
THEOREM TagsAreReadBack ==
  ASSUME NEW t \in Tags, NEW r \in Cells,
         NEW q \in Parser, ~q.error, q.header, q.buffer = BuildFlvTagWire(t) \o r
  PROVE  ParseTurn(q) = [q EXCEPT !.buffer = r, !.out = Append(q.out, t)]
<1> DEFINE b == BuildFlvTagWire(t) \o r
           n == Len(t.data)
<1>0. TagAhead(t, n, b, r)
  BY TagWireIs
<1>2. t.type \in TagType /\ t.ts \in Nat /\ t.data \in Cells
      /\ t = [type |-> t.type, ts |-> t.ts, data |-> t.data]
  BY TagIsTyped
<1>13. Fits(t.ts, 4) /\ Fits(n, 3)
  BY WireAssumption
<1> HIDE DEF b, n
<1>1. /\ b \in Cells /\ n \in Nat /\ Len(b) = n + 15 + Len(r) /\ Len(r) \in Nat
      /\ b[1] = t.type /\ b[2] = Byte(n, 2) /\ b[3] = Byte(n, 1) /\ b[4] = Byte(n, 0)
      /\ b[5] = Byte(t.ts, 2) /\ b[6] = Byte(t.ts, 1) /\ b[7] = Byte(t.ts, 0)
      /\ b[8] = Byte(t.ts, 3)
      /\ \A i \in 1..n : b[11 + i] = t.data[i]
      /\ \A i \in 1..Len(r) : b[n + 15 + i] = r[i]
  BY <1>0, LenProperties DEF TagAhead, Cells
<1>3. BigEndian(b[2], b[3], b[4]) = n
  BY <1>1, <1>13, SizeIs
<1>4. TagSpan(b) = n + 15
  BY <1>1, <1>3 DEF TagSpan, TagHeaderLen, PrevTagSizeLen
<1>5. SubSeq(b, 12, 11 + n) = t.data
  <2> DEFINE s == SubSeq(b, 12, 11 + n)
  <2>1. s \in Seq(Nat) /\ Len(s) = n /\ \A i \in 1..n : s[i] = b[11 + i]
    <3>1. PICK z \in Nat : z = 11
      OBVIOUS
    <3>2. z + n <= Len(b) /\ b \in Seq(Nat) /\ n \in Nat
      BY <1>1, <3>1 DEF Cells
    <3>3. /\ SubSeq(b, z + 1, z + n) \in Seq(Nat)
          /\ Len(SubSeq(b, z + 1, z + n)) = n
          /\ \A i \in 1..n : SubSeq(b, z + 1, z + n)[i] = b[z + i]
      <4> HIDE DEF s
      <4> QED
        BY <3>2, CutIs, Zenon
    <3>4. z + 1 = 12 /\ z + n = 11 + n /\ \A i \in 1..n : z + i = 11 + i
      BY <1>1, <3>1
    <3> QED
      BY <3>3, <3>4
  <2> HIDE DEF s
  <2>2. t.data \in Seq(Nat) /\ Len(s) = Len(t.data) /\ \A i \in 1..Len(s) : s[i] = t.data[i]
    BY <1>1, <1>2, <2>1 DEF Cells, n
  <2>3. s = t.data
    BY <2>1, <2>2, SeqEqual
  <2> QED
    BY <2>3 DEF s
<1>6. TagAt(b) = t
  <2>1. BigEndian(b[8] * 256 + b[5], b[6], b[7]) = t.ts
    BY <1>1, <1>2, <1>13, TimestampIs
  <2>2. SubSeq(b, TagHeaderLen + 1, TagHeaderLen + BigEndian(b[2], b[3], b[4])) = t.data
    BY <1>3, <1>5 DEF TagHeaderLen
  <2> QED
    BY <1>1, <1>2, <2>1, <2>2 DEF TagAt
<1>7. SubSeq(b, n + 15 + 1, Len(b)) = r
  <2> DEFINE k == n + 15
             s == SubSeq(b, k + 1, Len(b))
  <2>1. k \in 0..Len(b) /\ Len(b) - k = Len(r)
    BY <1>1
  <2>2. s \in Seq(Nat) /\ Len(s) = Len(r) /\ \A i \in 1..Len(r) : s[i] = b[k + i]
    <3> HIDE DEF k
    <3>1. b \in Seq(Nat)
      BY <1>1 DEF Cells
    <3> QED
      BY <2>1, <3>1, DropIs
  <2> HIDE DEF s
  <2>4. r \in Seq(Nat) /\ \A i \in 1..Len(s) : s[i] = r[i]
    <3>1. r \in Seq(Nat)
      BY DEF Cells
    <3>2. \A i \in 1..Len(r) : b[k + i] = r[i]
      BY <1>1
    <3> HIDE DEF k
    <3> QED
      BY <2>2, <3>1, <3>2
  <2>3. s = r
    BY <2>2, <2>4, SeqEqual
  <2> QED
    BY <2>3 DEF s
<1>8. q.buffer = b
  BY DEF b
<1>9. ParseTurn(q) = ParseTag(q)
  BY <1>1, <1>8 DEF ParseTurn, TagHeaderLen
<1>10. ParseTag(q) = [Drain(q, n + 15) EXCEPT !.out = Append(@, t)]
  <2>1. b[1] \in TagType /\ ~(Len(b) < TagSpan(b))
    BY <1>1, <1>2, <1>4
  <2> QED
    BY <1>4, <1>6, <1>8, <2>1, ParseTagIs
<1>11. Drain(q, n + 15) = [q EXCEPT !.buffer = r]
  BY <1>7, <1>8 DEF Drain
<1>12. [[q EXCEPT !.buffer = r] EXCEPT !.out = Append(@, t)]
         = [q EXCEPT !.buffer = r, !.out = Append(q.out, t)]
  <2> DEFINE p == [q EXCEPT !.buffer = r]
             o == Append(q.out, t)
  <2>1. q.out \in Seq(Tag) /\ t \in Tag
    BY <1>2 DEF Parser, Tag
  <2>2. o \in Seq(Tag)
    BY <2>1, AppendProperties
  <2>3. p.out = q.out
    BY DEF Parser
  <2>4. [p EXCEPT !.out = Append(@, t)] = [p EXCEPT !.out = o]
    BY <2>3
  <2> HIDE DEF o
  <2>5. [p EXCEPT !.out = o] = [q EXCEPT !.buffer = r, !.out = o]
    BY <2>2 DEF Parser
  <2> QED
    BY <2>4, <2>5 DEF o
<1> QED
  BY <1>9, <1>10, <1>11, <1>12
=============================================================================
