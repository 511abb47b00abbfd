--------------------------- MODULE HlsRelayProofs ---------------------------
(***************************************************************************)
(* Proofs about HlsRelay, for every finite set of viewers and all sizes    *)
(* that satisfy HlsAssumption.                                             *)
(***************************************************************************)
EXTENDS HlsRelay, FiniteSetTheorems, SequenceTheorems, TLAPS

-----------------------------------------------------------------------------
(* The invariant, in parts.                                                *)

\* Playlists are cached and broadcast in the order of their numbers, and none
\* is newer than the one the loop saw last.
PlaylistsInOrder ==
    /\ \A i \in DOMAIN segments : IsPlaylist(segments[i]) => segments[i].n <= last
    /\ \A i \in DOMAIN pending : IsPlaylist(pending[i]) => pending[i].n = last
    /\ \A i \in DOMAIN frames : IsPlaylist(frames[i]) => frames[i].n <= last
    /\ \A i, j \in DOMAIN frames :
          i <= j /\ IsPlaylist(frames[i]) /\ IsPlaylist(frames[j]) => frames[i].n <= frames[j].n

\* In the cache s the playlist p is k entries from the end, unless it was pushed
\* out, and no playlist comes after it.
EndsWith(s, k, p) ==
    /\ \A j \in 1..Len(s) : j > Len(s) - k => ~IsPlaylist(s[j])
    /\ k < MaxSegments => k < Len(s) /\ s[Len(s) - k] = p

\* The last playlist is in the cache, since entries from its end, until
\* MaxSegments entries were pushed after it; only segments that it lists come
\* after it.
CacheHolds ==
    last # 0 =>
        /\ since <= cursor - FirstListed(last)
        /\ EndsWith(segments, since, M3u8(last))

\* What was written to a viewer at a place is a run of frames, and k, the next
\* frame of a subscription, goes on where it ended.
RunOf(s, place, k) ==
    /\ \A i \in DOMAIN s : s[i] = s[1] + (i - 1)
    /\ place = "live" /\ s # << >> => k = s[1] + Len(s)
    /\ place \in {"new", "counted", "greeted"} => s = << >>

SentIsRun == \A v \in Viewer : RunOf(sent[v], at[v], next[v])

\* No playlist that was written, or is still to be, is older than the greeting g.
Dominates(f, s, place, k, g) ==
    /\ \A i \in DOMAIN s : IsPlaylist(f[s[i]]) => g <= f[s[i]].n
    /\ place = "live" => \A i \in k..Len(f) : IsPlaylist(f[i]) => g <= f[i].n

GreetingIsOldest == \A v \in Viewer : Dominates(frames, sent[v], at[v], next[v], greeting[v])

\* What is remembered as fetched was given, or is about to be.
FetchedIsGiven == fetched \subseteq Given

RoomLeft == Len(frames) + Len(pending) <= MaxFrames /\ (last # 0 => loop # "absent")

HlsInv ==
    /\ TypeOK
    /\ RoomLeft
    /\ PlaylistsInOrder
    /\ CacheHolds
    /\ SentIsRun
    /\ GreetingIsOldest
    /\ FetchedIsGiven
    /\ SegmentsAccounted

-----------------------------------------------------------------------------
(* The operators the model is built from.                                  *)

LEMMA HlsConstants ==
  /\ Window \in Nat \ {0} /\ RingSize \in Nat \ {0} /\ Forgotten \in Nat \ {0}
  /\ MaxHead \in Nat /\ MaxFrames \in Nat /\ MaxClients \in Nat
  /\ MaxFetched \in Nat /\ MaxSegments \in Nat
BY HlsAssumption

LEMMA EntryIs ==
  /\ \A h \in 1..MaxHead : /\ M3u8(h) \in Entry /\ IsPlaylist(M3u8(h)) /\ M3u8(h).n = h
                           /\ Ts(h) \in Entry /\ ~IsPlaylist(Ts(h)) /\ Ts(h).n = h /\ Ts(h).type = "ts"
  /\ \A e \in Entry : e.n \in 1..MaxHead
<1>1. ASSUME NEW h \in 1..MaxHead
      PROVE  /\ M3u8(h) \in Entry /\ IsPlaylist(M3u8(h)) /\ M3u8(h).n = h
             /\ Ts(h) \in Entry /\ ~IsPlaylist(Ts(h)) /\ Ts(h).n = h /\ Ts(h).type = "ts"
  <2>1. M3u8(h) \in Entry /\ Ts(h) \in Entry
    BY DEF Entry
  <2> QED
    BY <2>1 DEF M3u8, Ts, IsPlaylist
<1>2. ASSUME NEW e \in Entry PROVE e.n \in 1..MaxHead
  <2>1. \E h \in 1..MaxHead : e = M3u8(h) \/ e = Ts(h)
    BY DEF Entry
  <2> QED
    BY <2>1 DEF M3u8, Ts
<1> QED
  BY <1>1, <1>2

LEMMA FirstListedIs ==
  \A h \in Nat : FirstListed(h) \in Nat /\ FirstListed(h) >= 1 /\ FirstListed(h) <= h + 1
                 /\ h - FirstListed(h) < Window
BY HlsConstants DEF FirstListed

\* t is s with e added at the end, of which the newest MaxSegments entries are kept.
Pushed(t, s, e) ==
    /\ t \in Seq(Entry)
    /\ Len(t) = IF Len(s) < MaxSegments THEN Len(s) + 1 ELSE MaxSegments
    /\ Len(t) > 0 => t[Len(t)] = e
    /\ \A i \in 1..Len(t) - 1 : /\ i + (Len(s) + 1 - Len(t)) \in 1..Len(s)
                                /\ t[i] = s[i + (Len(s) + 1 - Len(t))]

LEMMA PushIs ==
  ASSUME NEW s \in Seq(Entry), Len(s) <= MaxSegments, NEW e \in Entry
  PROVE  Pushed(Push(s, e), s, e)
<1> DEFINE all == Append(s, e)
<1>1. MaxSegments \in Nat /\ Len(s) \in Nat
  BY HlsConstants, LenProperties
<1>2. /\ all \in Seq(Entry) /\ Len(all) = Len(s) + 1 /\ all[Len(s) + 1] = e
      /\ \A i \in 1..Len(s) : all[i] = s[i]
  BY AppendProperties
<1>3. CASE Len(s) < MaxSegments
  <2>1. Push(s, e) = all
    BY <1>1, <1>2, <1>3 DEF Push
  <2> HIDE DEF all
  <2> QED
    BY <1>1, <1>2, <1>3, <2>1 DEF Pushed
<1>4. CASE Len(s) = MaxSegments
  <2>1. Push(s, e) = SubSeq(all, Len(all) - MaxSegments + 1, Len(all)) /\ Len(all) - MaxSegments + 1 = 2
    BY <1>1, <1>2, <1>4 DEF Push
  <2>2. Push(s, e) = SubSeq(all, 2, Len(s) + 1)
    BY <1>2, <2>1
  <2> HIDE DEF all
  <2>3. \A i \in 2..Len(s) + 1 : all[i] \in Entry
    BY <1>2, ElementOfSeq
  <2>4. 2 \in Int /\ Len(s) + 1 \in Int /\ 2 <= (Len(s) + 1) + 1
    BY <1>1, <1>4
  <2> DEFINE t == SubSeq(all, 2, Len(s) + 1)
  <2>5. /\ t \in Seq(Entry)
        /\ Len(t) = Len(s) + 1 - 2 + 1
        /\ \A i \in 1..(Len(s) + 1 - 2 + 1) : t[i] = all[2 + i - 1]
    BY <2>3, <2>4, SubSeqProperties
  <2> HIDE DEF t
  <2>6. Len(t) = Len(s) /\ \A i \in 1..Len(s) : t[i] = all[i + 1]
    BY <1>1, <2>5
  <2>7. Len(s) > 0 => t[Len(s)] = e
    BY <1>1, <1>2, <1>4, <2>6
  <2>8. \A i \in 1..Len(s) - 1 : i + 1 \in 1..Len(s) /\ t[i] = s[i + 1]
    BY <1>1, <1>2, <2>6
  <2>9. \A i \in 1..Len(s) - 1 : i + (Len(s) + 1 - Len(t)) = i + 1
    BY <1>1, <2>6
  <2>10. Pushed(t, s, e)
    BY <1>1, <1>4, <2>5, <2>6, <2>7, <2>8, <2>9 DEF Pushed
  <2> QED
    BY <2>2, <2>10 DEF t
<1> QED
  BY <1>1, <1>3, <1>4

\* The cache serves the playlist that was seen last, 0 standing for none, until
\* MaxSegments entries were pushed after it.
LEMMA LatestIsLast ==
  ASSUME TypeOK, PlaylistsInOrder, CacheHolds
  PROVE  LatestM3u8 = IF last # 0 /\ since < MaxSegments THEN last ELSE 0
<1> DEFINE found == {i \in DOMAIN segments : segments[i].type = "m3u8"}
<1>1. /\ last \in Nat /\ segments \in Seq(Entry) /\ DOMAIN segments = 1..Len(segments)
      /\ Len(segments) \in Nat /\ Len(segments) <= MaxSegments /\ since \in Nat
  BY LenProperties DEF TypeOK
<1>2. CASE last = 0
  <2>1. \A i \in DOMAIN segments : segments[i] \in Entry
    BY <1>1, ElementOfSeq
  <2>2. \A i \in DOMAIN segments : segments[i].n \in 1..MaxHead
    BY <2>1, EntryIs
  <2>3. \A i \in DOMAIN segments : ~(segments[i].type = "m3u8")
    BY <1>2, <2>2 DEF PlaylistsInOrder, IsPlaylist
  <2> QED
    BY <1>2, <2>3 DEF LatestM3u8
<1>3. CASE last # 0 /\ since < MaxSegments
  <2>1. PICK i \in DOMAIN segments :
          /\ segments[i] = M3u8(last)
          /\ \A j \in DOMAIN segments : j > i => ~IsPlaylist(segments[j])
    <3>1. Len(segments) - since \in DOMAIN segments
      BY <1>1, <1>3 DEF CacheHolds, EndsWith
    <3> QED
      BY <1>1, <1>3, <3>1 DEF CacheHolds, EndsWith
  <2>2. i \in found /\ \A j \in found : j \in Int /\ i >= j
    BY <1>1, <2>1 DEF M3u8, IsPlaylist
  <2> HIDE DEF found
  <2>3. Max(found) \in found /\ \A j \in found : Max(found) >= j
    BY <2>2 DEF Max
  <2>4. Max(found) = i
    BY <2>2, <2>3
  <2> USE DEF found
  <2>5. LatestM3u8 = segments[Max(found)].n
    BY <2>2 DEF LatestM3u8
  <2> QED
    BY <1>3, <2>1, <2>4, <2>5 DEF M3u8
<1>4. CASE last # 0 /\ ~(since < MaxSegments)
  <2>1. \A j \in DOMAIN segments : j > Len(segments) - since
    BY <1>1, <1>4, HlsConstants
  <2>2. \A j \in DOMAIN segments : ~(segments[j].type = "m3u8")
    BY <1>1, <1>4, <2>1 DEF CacheHolds, EndsWith, IsPlaylist
  <2> QED
    BY <1>4, <2>2 DEF LatestM3u8
<1> QED
  BY <1>2, <1>3, <1>4

\* URLs are forgotten when there are too many, and never others.
LEMMA RememberIs ==
  ASSUME NEW urls, IsFiniteSet(urls), Cardinality(urls) <= MaxFetched + 1, NEW kept \in Remember(urls)
  PROVE  kept \subseteq urls /\ Cardinality(kept) <= MaxFetched
<1>1. Cardinality(urls) \in Nat /\ MaxFetched \in Nat /\ Forgotten \in Nat \ {0}
  BY HlsConstants, FS_CardinalityType
<1>2. CASE Cardinality(urls) > MaxFetched
  <2>1. PICK out \in SUBSET urls : Cardinality(out) = Forgotten /\ kept = urls \ out
    BY <1>2 DEF Remember, kSubset
  <2>2. out # {}
    BY <1>1, <2>1, FS_EmptySet
  <2>3. kept \in SUBSET urls /\ kept # urls
    BY <2>1, <2>2
  <2>4. /\ IsFiniteSet(kept) /\ Cardinality(kept) <= Cardinality(urls)
        /\ Cardinality(urls) = Cardinality(kept) => urls = kept
    BY <2>3, FS_Subset
  <2>5. Cardinality(kept) \in Nat
    BY <2>4, FS_CardinalityType
  <2> QED
    BY <1>1, <2>3, <2>4, <2>5
<1>3. CASE ~(Cardinality(urls) > MaxFetched)
  BY <1>1, <1>3 DEF Remember
<1> QED
  BY <1>2, <1>3

-----------------------------------------------------------------------------
(* The types.                                                              *)

\* The parts of TypeOK, by who writes them.
PullTypes ==
    /\ head \in 0..MaxHead
    /\ loop \in {"absent", "polling", "waiting", "ended"}
    /\ running \in BOOLEAN
    /\ last \in 0..head /\ cursor \in 1..(last + 1)
    /\ segments \in Seq(Entry) /\ Len(segments) <= MaxSegments
    /\ fetched \in SUBSET (1..last) /\ Cardinality(fetched) <= MaxFetched
    /\ pending \in Seq(Entry) /\ Len(pending) <= 1
    /\ frames \in Seq(Entry) /\ Len(frames) <= MaxFrames
    /\ since \in Nat
    /\ failed \subseteq 1..last

ViewerTypes ==
    /\ at \in [Viewer -> Place]
    /\ closed \subseteq Viewer
    /\ count = Cardinality(Served) /\ count <= MaxClients
    /\ greeting \in [Viewer -> 0..last]
    /\ next \in [Viewer -> 1..(Len(frames) + 1)]
    /\ sent \in [Viewer -> Seq(1..Len(frames))]

LEMMA TypeParts == TypeOK <=> PullTypes /\ ViewerTypes
BY DEF TypeOK, PullTypes, ViewerTypes

\* What is broadcast is the one entry that was pending.
LEMMA BroadcastIs ==
  ASSUME PullTypes, Broadcast
  PROVE  /\ pending \in Seq(Entry) /\ Len(pending) = 1 /\ pending[1] \in Entry
         /\ Len(frames) \in Nat /\ frames' \in Seq(Entry) /\ Len(frames') = Len(frames) + 1
         /\ frames'[Len(frames) + 1] = pending[1]
         /\ \A i \in 1..Len(frames) : frames'[i] = frames[i]
<1>1. /\ pending \in Seq(Entry) /\ pending # << >> /\ Len(pending) <= 1
      /\ frames \in Seq(Entry) /\ frames' = Append(frames, pending[1])
  BY DEF Broadcast, PullTypes
<1>2. Len(pending) \in Nat \ {0} /\ Len(frames) \in Nat
  BY <1>1, EmptySeq, LenProperties
<1>3. Len(pending) = 1 /\ 1 \in 1..Len(pending)
  <2>1. \A k \in Nat \ {0} : k <= 1 => k = 1 /\ 1 \in 1..k
    OBVIOUS
  <2> QED
    BY <1>1, <1>2, <2>1
<1>4. pending[1] \in Entry
  BY <1>1, <1>3, ElementOfSeq
<1> QED
  BY <1>1, <1>2, <1>3, <1>4, AppendProperties

\* The steps that change what the viewers' tasks leave alone.
LEMMA PullTypeStep ==
  ASSUME HlsInv, [Next]_vars
  PROVE  PullTypes'
<1> USE HlsConstants
<1>1. PullTypes /\ RoomLeft
  BY TypeParts DEF HlsInv
<1>2. /\ head \in Nat /\ last \in Nat /\ cursor \in Nat /\ head <= MaxHead /\ last <= head
      /\ Len(segments) \in Nat /\ Len(frames) \in Nat /\ Len(pending) \in Nat
  BY <1>1, LenProperties DEF PullTypes
<1>3. CASE Publish
  BY <1>1, <1>2, <1>3 DEF Publish, PullTypes, pullVars
<1>4. CASE CachePlaylist
  <2>1. head \in 1..MaxHead /\ M3u8(head) \in Entry
    BY <1>2, <1>4, EntryIs DEF CachePlaylist
  <2>2. segments' \in Seq(Entry) /\ Len(segments') <= MaxSegments
    <3>1. Pushed(segments', segments, M3u8(head))
      BY <1>1, <1>4, <2>1, PushIs DEF CachePlaylist, PullTypes
    <3> QED
      BY <1>1, <1>2, <3>1 DEF Pushed, PullTypes
  <2>3. cursor' \in 1..(last' + 1) /\ last' \in 0..head' /\ failed' = {}
    BY <1>2, <1>4, FirstListedIs DEF CachePlaylist
  <2>4. fetched' \in SUBSET (1..last') /\ Cardinality(fetched') <= MaxFetched
    BY <1>1, <1>2, <1>4 DEF CachePlaylist, PullTypes
  <2>5. pending' \in Seq(Entry) /\ Len(pending') <= 1
    BY <1>4, <2>1 DEF CachePlaylist
  <2> QED
    BY <1>1, <1>4, <2>2, <2>3, <2>4, <2>5 DEF CachePlaylist, PullTypes
<1>5. CASE PollFails \/ PollAgain \/ LoopEnds
  BY <1>1, <1>5 DEF PollFails, PollAgain, LoopEnds, PullTypes
<1>6. CASE Broadcast
  <2>1. Len(pending) = 1 /\ frames' \in Seq(Entry) /\ Len(frames') = Len(frames) + 1
    BY <1>1, <1>6, BroadcastIs
  <2>2. pending' \in Seq(Entry) /\ Len(pending') = 0
    BY <1>6, EmptySeq DEF Broadcast
  <2> QED
    BY <1>1, <1>2, <1>6, <2>1, <2>2 DEF Broadcast, PullTypes, RoomLeft
<1>7. CASE SkipFetched
  BY <1>1, <1>2, <1>7 DEF SkipFetched, PullTypes
<1>8. CASE FetchFails
  BY <1>1, <1>2, <1>8 DEF FetchFails, PullTypes
<1>9. CASE CacheSegment
  <2>1. cursor \in 1..last /\ cursor \in 1..MaxHead /\ Ts(cursor) \in Entry
    BY <1>1, <1>2, <1>9, EntryIs DEF CacheSegment, PullTypes
  <2>2. segments' \in Seq(Entry) /\ Len(segments') <= MaxSegments
    <3>1. Pushed(segments', segments, Ts(cursor))
      BY <1>1, <1>9, <2>1, PushIs DEF CacheSegment, PullTypes
    <3> QED
      BY <1>1, <1>2, <3>1 DEF Pushed, PullTypes
  <2>3. fetched' \in SUBSET (1..last) /\ Cardinality(fetched') <= MaxFetched
    <3>1. IsFiniteSet(1..last)
      BY <1>2, FS_Interval
    <3>2. IsFiniteSet(fetched)
      BY <1>1, <3>1, FS_Subset DEF PullTypes
    <3>3. /\ IsFiniteSet(fetched \cup {cursor})
          /\ Cardinality(fetched \cup {cursor}) = Cardinality(fetched) + 1
      BY <1>9, <3>2, FS_AddElement DEF CacheSegment
    <3>4. Cardinality(fetched) \in Nat
      BY <3>2, FS_CardinalityType
    <3>5. Cardinality(fetched \cup {cursor}) <= MaxFetched + 1
      BY <1>1, <3>3, <3>4 DEF PullTypes
    <3>6. fetched' \subseteq fetched \cup {cursor} /\ Cardinality(fetched') <= MaxFetched
      BY <1>9, <3>3, <3>5, RememberIs DEF CacheSegment
    <3> QED
      BY <1>1, <2>1, <3>6 DEF PullTypes
  <2>4. pending' \in Seq(Entry) /\ Len(pending') <= 1
    BY <1>9, <2>1 DEF CacheSegment
  <2> QED
    BY <1>1, <1>2, <1>9, <2>1, <2>2, <2>3, <2>4 DEF CacheSegment, PullTypes
<1>10. CASE Stop
  BY <1>1, <1>10 DEF Stop, PullTypes
<1>11. ASSUME GetOrCreateRelay, UNCHANGED <<head, last, cursor, segments, fetched, pending, frames, since, failed>>
       PROVE  PullTypes'
  BY <1>1, <1>11 DEF GetOrCreateRelay, PullTypes
<1>12. ASSUME UNCHANGED <<head, pullVars>> PROVE PullTypes'
  BY <1>1, <1>12 DEF pullVars, PullTypes
<1> QED
  BY <1>3, <1>4, <1>5, <1>6, <1>7, <1>8, <1>9, <1>10, <1>11, <1>12
     DEF Next, PullStep, Connect, Reject, Close, ViewerStep, Greet, Subscribe, Send, Lagged, Leave,
         RemoveClient, vars

\* Served loses or gains one viewer, or stays as it is.
LEMMA ServedFinite == IsFiniteSet(Served) /\ Cardinality(Served) \in Nat
<1>1. Served \in SUBSET Viewer
  BY DEF Served
<1>2. IsFiniteSet(Served)
  BY <1>1, HlsAssumption, FS_Subset
<1> QED
  BY <1>2, FS_CardinalityType

LEMMA ViewerTypeStep ==
  ASSUME HlsInv, [Next]_vars
  PROVE  ViewerTypes'
<1> USE HlsConstants
<1>1. PullTypes /\ ViewerTypes
  BY TypeParts DEF HlsInv
<1>2. Len(frames) \in Nat /\ last \in Nat /\ head \in Nat /\ last <= head
  BY <1>1, LenProperties DEF PullTypes
\* What the pull loop does leaves room for the positions in the channel.
<1>3. ASSUME UNCHANGED viewerVars, last' \in Nat, last <= last',
             Len(frames') \in Nat, Len(frames) <= Len(frames')
      PROVE  ViewerTypes'
  <2>1. at' = at /\ closed' = closed /\ count' = count /\ greeting' = greeting /\ next' = next /\ sent' = sent
    BY <1>3 DEF viewerVars
  <2>2. Served' = Served
    BY <2>1 DEF Served
  <2>3. greeting' \in [Viewer -> 0..last']
    <3>1. \A x \in 0..last : x \in 0..last'
      BY <1>2, <1>3
    <3> QED
      BY <1>1, <2>1, <3>1 DEF ViewerTypes
  <2>4. next' \in [Viewer -> 1..(Len(frames') + 1)]
    <3>1. \A x \in 1..(Len(frames) + 1) : x \in 1..(Len(frames') + 1)
      BY <1>2, <1>3
    <3> QED
      BY <1>1, <2>1, <3>1 DEF ViewerTypes
  <2>5. sent' \in [Viewer -> Seq(1..Len(frames'))]
    <3>1. 1..Len(frames) \subseteq 1..Len(frames')
      BY <1>2, <1>3
    <3>2. \A s \in Seq(1..Len(frames)) : s \in Seq(1..Len(frames'))
      BY <3>1, SeqMonotonic
    <3> QED
      BY <1>1, <2>1, <3>2 DEF ViewerTypes
  <2> QED
    BY <1>1, <2>1, <2>2, <2>3, <2>4, <2>5 DEF ViewerTypes
<1>4. CASE Publish \/ PullStep \/ Stop
  <2>1. CASE Broadcast
    BY <1>1, <1>2, <1>3, <2>1, BroadcastIs DEF Broadcast
  <2>2. CASE CachePlaylist
    BY <1>2, <1>3, <2>2 DEF CachePlaylist
  <2>3. CASE UNCHANGED <<viewerVars, last, frames>>
    BY <1>2, <1>3, <2>3
  <2> QED
    BY <1>4, <2>1, <2>2, <2>3
       DEF Publish, PullStep, Stop, PollFails, PollAgain, LoopEnds, SkipFetched, FetchFails,
           CacheSegment, pullVars
\* The steps of a viewer.
<1>5. ASSUME NEW v \in Viewer, Connect(v) PROVE ViewerTypes'
  <2>1. Served' = Served \cup {v} /\ v \notin Served
    BY <1>1, <1>5 DEF Connect, Served, ViewerTypes
  <2>2. Cardinality(Served') = Cardinality(Served) + 1
    BY <2>1, ServedFinite, FS_AddElement
  <2>3. count' = Cardinality(Served') /\ count' <= MaxClients
    BY <1>1, <1>5, <2>2, ServedFinite DEF Connect, ViewerTypes
  <2>4. at' \in [Viewer -> Place]
    BY <1>1, <1>5 DEF Connect, ViewerTypes, Place
  <2> QED
    BY <1>1, <1>5, <2>3, <2>4 DEF Connect, ViewerTypes
<1>6. ASSUME NEW v \in Viewer, Reject(v) PROVE ViewerTypes'
  <2>1. Served' = Served
    BY <1>1, <1>6 DEF Reject, Served, ViewerTypes
  <2>2. at' \in [Viewer -> Place]
    BY <1>1, <1>6 DEF Reject, ViewerTypes, Place
  <2> QED
    BY <1>1, <1>6, <2>1, <2>2 DEF Reject, ViewerTypes
<1>7. ASSUME NEW v \in Viewer, Close(v) PROVE ViewerTypes'
  <2>1. Served' = Served
    BY <1>7 DEF Close, Served
  <2> QED
    BY <1>1, <1>7, <2>1 DEF Close, ViewerTypes, pullVars
<1>8. ASSUME NEW v \in Viewer, Greet(v) PROVE ViewerTypes'
  <2>1. Served' = Served
    BY <1>1, <1>8 DEF Greet, Served, ViewerTypes
  <2>2. at' \in [Viewer -> Place]
    BY <1>1, <1>8 DEF Greet, ViewerTypes, Place
  <2>3. LatestM3u8 \in 0..last
    BY <1>2, LatestIsLast DEF HlsInv
  <2>4. greeting' \in [Viewer -> 0..last]
    BY <1>1, <1>2, <1>8, <2>3 DEF Greet, ViewerTypes
  <2> QED
    BY <1>1, <1>8, <2>1, <2>2, <2>4 DEF Greet, ViewerTypes, pullVars
<1>9. ASSUME NEW v \in Viewer, Subscribe(v) PROVE ViewerTypes'
  <2>1. Served' = Served
    BY <1>1, <1>9 DEF Subscribe, Served, ViewerTypes
  <2>2. at' \in [Viewer -> Place]
    BY <1>1, <1>9 DEF Subscribe, ViewerTypes, Place
  <2>3. next' \in [Viewer -> 1..(Len(frames) + 1)]
    BY <1>1, <1>2, <1>9 DEF Subscribe, ViewerTypes
  <2> QED
    BY <1>1, <1>9, <2>1, <2>2, <2>3 DEF Subscribe, ViewerTypes, pullVars
<1>10. ASSUME NEW v \in Viewer, Send(v) PROVE ViewerTypes'
  <2>1. Served' = Served
    BY <1>10 DEF Send, Served
  <2>2. next[v] \in 1..Len(frames)
    BY <1>1, <1>2, <1>10 DEF Send, ViewerTypes
  <2>3. next' \in [Viewer -> 1..(Len(frames) + 1)]
    BY <1>1, <1>2, <1>10, <2>2 DEF Send, ViewerTypes
  <2>4. Append(sent[v], next[v]) \in Seq(1..Len(frames))
    BY <1>1, <2>2, AppendProperties DEF ViewerTypes
  <2>5. sent' \in [Viewer -> Seq(1..Len(frames))]
    BY <1>1, <1>10, <2>4 DEF Send, ViewerTypes
  <2> QED
    BY <1>1, <1>10, <2>1, <2>3, <2>5 DEF Send, ViewerTypes, pullVars
<1>11. ASSUME NEW v \in Viewer, at[v] = "live", RemoveClient(v) PROVE ViewerTypes'
  <2>1. Served' = Served \ {v} /\ v \in Served
    BY <1>1, <1>11 DEF RemoveClient, Served, ViewerTypes
  <2>2. Cardinality(Served') = Cardinality(Served) - 1 /\ Cardinality(Served') \in Nat
    BY <2>1, ServedFinite, FS_RemoveElement, FS_CardinalityType
  <2>3. count' = Cardinality(Served') /\ count' <= MaxClients
    BY <1>1, <1>11, <2>2, ServedFinite DEF RemoveClient, ViewerTypes
  <2>4. at' \in [Viewer -> Place]
    BY <1>1, <1>11 DEF RemoveClient, ViewerTypes, Place
  <2> QED
    BY <1>1, <1>11, <2>3, <2>4 DEF RemoveClient, ViewerTypes, pullVars
<1>12. CASE UNCHANGED vars
  BY <1>2, <1>3, <1>12 DEF vars, pullVars
<1> QED
  BY <1>4, <1>5, <1>6, <1>7, <1>8, <1>9, <1>10, <1>11, <1>12 DEF Next, ViewerStep, Lagged, Leave

LEMMA TypePartsNext == TypeOK' <=> PullTypes' /\ ViewerTypes'
BY TypeParts, PTL

LEMMA TypeStep == HlsInv /\ [Next]_vars => TypeOK'
BY PullTypeStep, ViewerTypeStep, TypePartsNext

-----------------------------------------------------------------------------
(* The other parts of the invariant, step by step.                         *)

LEMMA RoomStep == HlsInv /\ [Next]_vars => RoomLeft'
<1> SUFFICES ASSUME HlsInv, [Next]_vars
             PROVE  RoomLeft'
  OBVIOUS
<1>1. PullTypes /\ RoomLeft
  BY TypeParts DEF HlsInv
<1>2. Len(frames) \in Nat /\ Len(pending) \in Nat /\ MaxFrames \in Nat
  BY <1>1, LenProperties, HlsConstants DEF PullTypes
<1>3. ASSUME NEW e, pending' = <<e>>, Len(frames) < MaxFrames, UNCHANGED <<frames, loop>>, loop # "absent"
      PROVE  RoomLeft'
  <2>1. Len(pending') = 1
    BY <1>3
  <2> QED
    BY <1>2, <1>3, <2>1 DEF RoomLeft
<1>4. CASE CachePlaylist
  BY <1>3, <1>4 DEF CachePlaylist
<1>5. CASE CacheSegment
  <2>1. last # 0
    BY <1>1, <1>5 DEF CacheSegment, PullTypes
  <2> QED
    BY <1>1, <1>3, <1>5, <2>1 DEF CacheSegment, RoomLeft
<1>6. CASE Broadcast
  <2>1. Len(pending) = 1 /\ Len(frames') = Len(frames) + 1 /\ Len(pending') = 0
    BY <1>1, <1>6, BroadcastIs, EmptySeq DEF Broadcast
  <2> QED
    BY <1>1, <1>2, <1>6, <2>1 DEF Broadcast, RoomLeft
<1>7. ASSUME UNCHANGED <<frames, pending, last>>, loop' = "absent" => loop = "absent"
      PROVE  RoomLeft'
  BY <1>1, <1>7 DEF RoomLeft
<1> QED
  BY <1>4, <1>5, <1>6, <1>7
     DEF Next, PullStep, Publish, PollFails, PollAgain, LoopEnds, SkipFetched, FetchFails, Stop,
         Connect, Reject, GetOrCreateRelay, Close, ViewerStep, Greet, Subscribe, Send, Lagged, Leave,
         RemoveClient, pullVars, vars

\* An entry that is pushed keeps the playlists of the cache below a bound.
LEMMA PushBounds ==
  ASSUME NEW s \in Seq(Entry), NEW e \in Entry, NEW t, Pushed(t, s, e), NEW max \in Nat,
         \A i \in DOMAIN s : IsPlaylist(s[i]) => s[i].n <= max,
         IsPlaylist(e) => e.n <= max
  PROVE  \A i \in DOMAIN t : IsPlaylist(t[i]) => t[i].n <= max
<1>1. /\ t \in Seq(Entry) /\ (Len(t) > 0 => t[Len(t)] = e)
      /\ \A i \in 1..Len(t) - 1 : \E j \in 1..Len(s) : t[i] = s[j]
  BY DEF Pushed
<1>2. Len(t) \in Nat /\ DOMAIN t = 1..Len(t) /\ DOMAIN s = 1..Len(s)
  BY <1>1, LenProperties
<1>3. \A i \in 1..Len(t) : i = Len(t) \/ i \in 1..Len(t) - 1
  <2>1. \A k \in Nat : \A i \in 1..k : i = k \/ i \in 1..k - 1
    OBVIOUS
  <2> QED
    BY <1>2, <2>1
<1>4. \A i \in 1..Len(t) : Len(t) > 0
  BY <1>2
<1>5. \A i \in 1..Len(t) : t[i] = e \/ \E j \in DOMAIN s : t[i] = s[j]
  BY <1>1, <1>2, <1>3, <1>4
<1> QED
  BY <1>2, <1>5

LEMMA OrderStep == HlsInv /\ [Next]_vars => PlaylistsInOrder'
<1> SUFFICES ASSUME HlsInv, [Next]_vars
             PROVE  PlaylistsInOrder'
  OBVIOUS
<1>1. PullTypes /\ PlaylistsInOrder
  BY TypeParts DEF HlsInv
<1>2. /\ last \in Nat /\ head \in Nat /\ last <= head /\ head <= MaxHead /\ MaxHead \in Nat
      /\ Len(segments) <= MaxSegments
      /\ segments \in Seq(Entry) /\ frames \in Seq(Entry) /\ Len(frames) \in Nat
      /\ DOMAIN frames = 1..Len(frames)
  BY <1>1, LenProperties, HlsConstants DEF PullTypes
<1>3. \A i \in DOMAIN segments : segments[i] \in Entry /\ segments[i].n \in Int
  BY <1>2, LenProperties, ElementOfSeq, EntryIs
<1>4. \A i \in DOMAIN frames : frames[i] \in Entry /\ frames[i].n \in Int
  BY <1>2, LenProperties, ElementOfSeq, EntryIs
<1>5. CASE CachePlaylist
  <2>1. /\ head \in 1..MaxHead /\ last' = head /\ UNCHANGED frames
        /\ segments' = Push(segments, M3u8(head)) /\ pending' = <<M3u8(head)>>
    BY <1>2, <1>5 DEF CachePlaylist
  <2>2. M3u8(head) \in Entry /\ M3u8(head).n = head
    BY <2>1, EntryIs
  <2>3. Pushed(segments', segments, M3u8(head))
    BY <1>2, <2>1, <2>2, PushIs
  <2>4. \A i \in DOMAIN segments : IsPlaylist(segments[i]) => segments[i].n <= head
    BY <1>1, <1>2, <1>3 DEF PlaylistsInOrder
  <2>5. \A i \in DOMAIN segments' : IsPlaylist(segments'[i]) => segments'[i].n <= head
    BY <1>2, <2>2, <2>3, <2>4, PushBounds
  <2>6. \A i \in DOMAIN pending' : IsPlaylist(pending'[i]) => pending'[i].n = head
    BY <2>1, <2>2
  <2>7. \A i \in DOMAIN frames : IsPlaylist(frames[i]) => frames[i].n <= head
    BY <1>1, <1>2, <1>4 DEF PlaylistsInOrder
  <2> QED
    BY <1>1, <2>1, <2>5, <2>6, <2>7 DEF PlaylistsInOrder, IsPlaylist
<1>6. CASE CacheSegment
  <2>1. /\ cursor \in 1..MaxHead /\ UNCHANGED <<frames, last>>
        /\ segments' = Push(segments, Ts(cursor)) /\ pending' = <<Ts(cursor)>>
    BY <1>1, <1>2, <1>6 DEF CacheSegment, PullTypes
  <2>2. Ts(cursor) \in Entry /\ ~IsPlaylist(Ts(cursor))
    BY <2>1, EntryIs
  <2>3. Pushed(segments', segments, Ts(cursor))
    BY <1>2, <2>1, <2>2, PushIs
  <2>4. \A i \in DOMAIN segments' : IsPlaylist(segments'[i]) => segments'[i].n <= last
    BY <1>1, <1>2, <2>2, <2>3, PushBounds DEF PlaylistsInOrder
  <2>5. \A i \in DOMAIN pending' : ~IsPlaylist(pending'[i])
    BY <2>1, <2>2
  <2> QED
    BY <1>1, <2>1, <2>4, <2>5 DEF PlaylistsInOrder, IsPlaylist
<1>7. CASE Broadcast
  <2>1. /\ pending \in Seq(Entry) /\ Len(pending) = 1 /\ pending[1] \in Entry
        /\ frames' \in Seq(Entry) /\ Len(frames') = Len(frames) + 1
        /\ frames'[Len(frames) + 1] = pending[1]
        /\ \A i \in 1..Len(frames) : frames'[i] = frames[i]
        /\ pending' = << >> /\ UNCHANGED <<segments, last>>
    BY <1>1, <1>7, BroadcastIs DEF Broadcast
  <2>2. DOMAIN frames' = 1..Len(frames) + 1 /\ DOMAIN pending = 1..1
    BY <2>1, LenProperties
  <2>3. IsPlaylist(pending[1]) => pending[1].n = last
    BY <1>1, <2>2 DEF PlaylistsInOrder
  <2>4. \A i \in 1..Len(frames) : IsPlaylist(frames[i]) => frames[i].n <= last
    BY <1>1, <1>2 DEF PlaylistsInOrder
  <2>5. \A i \in DOMAIN frames' : i \in 1..Len(frames) \/ i = Len(frames) + 1
    BY <1>2, <2>2
  <2>6. \A i \in DOMAIN frames' : IsPlaylist(frames'[i]) => frames'[i].n <= last
    BY <1>2, <2>1, <2>3, <2>4, <2>5
  <2>7. ASSUME NEW i \in DOMAIN frames', NEW j \in DOMAIN frames', i <= j,
               IsPlaylist(frames'[i]), IsPlaylist(frames'[j])
        PROVE  frames'[i].n <= frames'[j].n
    <3>1. CASE j = Len(frames) + 1
      BY <2>1, <2>3, <2>6, <2>7, <3>1
    <3>2. CASE j # Len(frames) + 1
      <4>1. i \in 1..Len(frames) /\ j \in 1..Len(frames)
        BY <1>2, <2>2, <2>7, <3>2
      <4> QED
        BY <1>1, <1>2, <2>1, <2>7, <4>1 DEF PlaylistsInOrder
    <3> QED
      BY <3>1, <3>2
  <2>8. DOMAIN pending' = {}
    BY <2>1
  <2> QED
    BY <1>1, <2>1, <2>6, <2>7, <2>8 DEF PlaylistsInOrder, IsPlaylist
<1>8. ASSUME UNCHANGED <<segments, pending, frames, last>> PROVE PlaylistsInOrder'
  BY <1>1, <1>8 DEF PlaylistsInOrder, IsPlaylist
<1> QED
  BY <1>5, <1>6, <1>7, <1>8
     DEF Next, PullStep, Publish, PollFails, PollAgain, LoopEnds, SkipFetched, FetchFails, Stop,
         Connect, Reject, Close, ViewerStep, Greet, Subscribe, Send, Lagged, Leave,
         RemoveClient, pullVars, vars

\* A segment that is pushed moves what the cache ends with back by one, and the
\* playlist before it out only if the cache has no room for one more.
LEMMA PushKeeps ==
  ASSUME NEW s \in Seq(Entry), Len(s) <= MaxSegments, NEW e, ~IsPlaylist(e), NEW t, Pushed(t, s, e),
         NEW p, NEW k \in Nat, EndsWith(s, k, p)
  PROVE  EndsWith(t, k + 1, p)
<1>1. /\ t \in Seq(Entry) /\ (Len(t) > 0 => t[Len(t)] = e)
      /\ Len(t) = IF Len(s) < MaxSegments THEN Len(s) + 1 ELSE MaxSegments
      /\ \A x \in 1..Len(t) - 1 : /\ x + (Len(s) + 1 - Len(t)) \in 1..Len(s)
                                  /\ t[x] = s[x + (Len(s) + 1 - Len(t))]
  BY DEF Pushed
<1>2. Len(s) \in Nat /\ Len(t) \in Nat /\ DOMAIN t = 1..Len(t) /\ MaxSegments \in Nat
  BY <1>1, LenProperties, HlsConstants
<1>3. ASSUME NEW j \in 1..Len(t), j > Len(t) - (k + 1) PROVE ~IsPlaylist(t[j])
  <2>1. CASE j = Len(t)
    BY <1>1, <1>2, <2>1
  <2>2. CASE j # Len(t)
    <3>1. j \in 1..Len(t) - 1 /\ j + (Len(s) + 1 - Len(t)) > Len(s) - k
      <4>1. \A a \in Nat, b \in Nat : \A x \in 1..b : x # b /\ x > b - (k + 1) =>
              x \in 1..b - 1 /\ x + (a + 1 - b) > a - k
        OBVIOUS
      <4> QED
        BY <1>2, <1>3, <2>2, <4>1
    <3>2. /\ j + (Len(s) + 1 - Len(t)) \in 1..Len(s)
          /\ t[j] = s[j + (Len(s) + 1 - Len(t))]
      BY <1>1, <3>1
    <3> QED
      BY <3>1, <3>2 DEF EndsWith
  <2> QED
    BY <2>1, <2>2
<1>4. ASSUME k + 1 < MaxSegments PROVE k + 1 < Len(t) /\ t[Len(t) - (k + 1)] = p
  <2>1. k < Len(s) /\ s[Len(s) - k] = p
    BY <1>2, <1>4 DEF EndsWith
  <2>2. k + 1 < Len(t)
    BY <1>1, <1>2, <1>4, <2>1
  <2>3. Len(t) - (k + 1) \in 1..Len(t) - 1 /\ (Len(t) - (k + 1)) + (Len(s) + 1 - Len(t)) = Len(s) - k
    BY <1>2, <2>2
  <2> QED
    BY <1>1, <2>1, <2>2, <2>3
<1> QED
  BY <1>3, <1>4 DEF EndsWith

\* The playlist seen last stays in the cache until MaxSegments entries have come
\* after it.
LEMMA CacheStep == HlsInv /\ [Next]_vars => CacheHolds'
<1> SUFFICES ASSUME HlsInv, [Next]_vars
             PROVE  CacheHolds'
  OBVIOUS
<1> USE HlsConstants
<1>1. PullTypes /\ CacheHolds
  BY TypeParts DEF HlsInv
<1>2. /\ last \in Nat /\ head \in Nat /\ last <= head /\ head <= MaxHead
      /\ cursor \in Nat /\ cursor >= 1 /\ cursor <= last + 1 /\ since \in Nat
      /\ segments \in Seq(Entry) /\ Len(segments) \in Nat /\ Len(segments) <= MaxSegments
      /\ DOMAIN segments = 1..Len(segments)
  BY <1>1, LenProperties DEF PullTypes
<1>3. CASE CachePlaylist
  <2>1. /\ head \in 1..MaxHead /\ last' = head /\ cursor' = FirstListed(head) /\ since' = 0
        /\ segments' = Push(segments, M3u8(head))
    BY <1>2, <1>3 DEF CachePlaylist
  <2>2. M3u8(head) \in Entry
    BY <2>1, EntryIs
  <2>3. Pushed(segments', segments, M3u8(head))
    BY <1>2, <2>1, <2>2, PushIs
  <2>4. /\ segments' \in Seq(Entry) /\ (Len(segments') > 0 => segments'[Len(segments')] = M3u8(head))
        /\ Len(segments') = IF Len(segments) < MaxSegments THEN Len(segments) + 1 ELSE MaxSegments
    BY <2>3 DEF Pushed
  <2>5. Len(segments') \in Nat /\ DOMAIN segments' = 1..Len(segments')
    BY <1>2, <2>4, LenProperties
  <2>6. \A j \in DOMAIN segments' : ~(j > Len(segments') - since')
    BY <2>1, <2>5
  <2>7. since' <= cursor' - FirstListed(head)
    BY <2>1, FirstListedIs
  <2>8. since' < MaxSegments => /\ since' < Len(segments')
                                /\ segments'[Len(segments') - since'] = M3u8(head)
    <3>1. MaxSegments > 0 => Len(segments') > 0
      BY <1>2, <2>4
    <3>2. Len(segments') - since' = Len(segments')
      BY <2>1, <2>5
    <3> QED
      BY <2>1, <2>4, <3>1, <3>2
  <2>9. M3u8(last)' = M3u8(head) /\ FirstListed(last)' = FirstListed(head)
    BY <2>1 DEF M3u8, FirstListed
  <2>10. EndsWith(segments', since', M3u8(head))
    BY <2>5, <2>6, <2>8 DEF EndsWith
  <2> QED
    BY <2>7, <2>9, <2>10 DEF CacheHolds, EndsWith, IsPlaylist
<1>4. CASE CacheSegment
  <2>1. /\ cursor \in 1..MaxHead /\ last' = last /\ cursor' = cursor + 1 /\ since' = since + 1
        /\ segments' = Push(segments, Ts(cursor)) /\ last # 0
    BY <1>2, <1>4 DEF CacheSegment
  <2>2. Ts(cursor) \in Entry /\ ~IsPlaylist(Ts(cursor))
    BY <2>1, EntryIs
  <2>3. Pushed(segments', segments, Ts(cursor))
    BY <1>2, <2>1, <2>2, PushIs
  <2>4. EndsWith(segments, since, M3u8(last))
    BY <1>1, <2>1 DEF CacheHolds
  <2>5. since + 1 <= (cursor + 1) - FirstListed(last)
    <3>1. FirstListed(last) \in Nat /\ since <= cursor - FirstListed(last)
      BY <1>1, <1>2, <2>1, FirstListedIs DEF CacheHolds
    <3> QED
      BY <1>2, <3>1
  <2>6. EndsWith(segments', since + 1, M3u8(last))
    BY <1>2, <2>2, <2>3, <2>4, PushKeeps
  <2>7. M3u8(last) = M3u8(last)' /\ FirstListed(last) = FirstListed(last)'
    BY <2>1 DEF M3u8, FirstListed
  <2> QED
    BY <2>1, <2>5, <2>6, <2>7 DEF CacheHolds, EndsWith, IsPlaylist
<1>5. ASSUME UNCHANGED <<segments, last, since>>, cursor' = cursor + 1 PROVE CacheHolds'
  <2>1. FirstListed(last) \in Nat
    BY <1>2, FirstListedIs
  <2>2. last # 0 => since <= (cursor + 1) - FirstListed(last)
    BY <1>1, <1>2, <2>1 DEF CacheHolds
  <2>3. M3u8(last) = M3u8(last)' /\ FirstListed(last) = FirstListed(last)'
    BY <1>5 DEF M3u8, FirstListed
  <2> QED
    BY <1>1, <1>5, <2>2, <2>3 DEF CacheHolds, EndsWith, IsPlaylist
<1>6. ASSUME UNCHANGED <<segments, last, since, cursor>> PROVE CacheHolds'
  BY <1>1, <1>6 DEF CacheHolds, EndsWith, M3u8, IsPlaylist, FirstListed
<1> QED
  BY <1>3, <1>4, <1>5, <1>6
     DEF Next, PullStep, Publish, PollFails, PollAgain, LoopEnds, Broadcast, SkipFetched, FetchFails,
         Stop, Connect, Reject, Close, ViewerStep, Greet, Subscribe, Send, Lagged, Leave,
         RemoveClient, pullVars, vars

\* The segments that were given, or are about to be.
LEMMA GivenIs ==
  ASSUME NEW n
  PROVE  n \in Given <=>
           \/ \E i \in DOMAIN frames : frames[i].type = "ts" /\ frames[i].n = n
           \/ \E i \in DOMAIN pending : pending[i].type = "ts" /\ pending[i].n = n
BY DEF Given

LEMMA GivenIsNext ==
  ASSUME NEW n
  PROVE  n \in Given' <=>
           \/ \E i \in DOMAIN frames' : frames'[i].type = "ts" /\ frames'[i].n = n
           \/ \E i \in DOMAIN pending' : pending'[i].type = "ts" /\ pending'[i].n = n
BY DEF Given

LEMMA GivenStep ==
  HlsInv /\ [Next]_vars => FetchedIsGiven' /\ SegmentsAccounted'
<1> SUFFICES ASSUME HlsInv, [Next]_vars
             PROVE  FetchedIsGiven' /\ SegmentsAccounted'
  OBVIOUS
<1>1. PullTypes /\ FetchedIsGiven /\ SegmentsAccounted
  BY TypeParts DEF HlsInv
<1>2. /\ last \in Nat /\ head \in Nat /\ last <= head /\ head <= MaxHead
      /\ cursor \in Nat /\ cursor >= 1 /\ cursor <= last + 1
  BY <1>1, HlsConstants DEF PullTypes
<1>3. CASE CachePlaylist
  <2>1. /\ fetched' = fetched /\ frames' = frames /\ pending = << >>
        /\ last' = head /\ cursor' = FirstListed(head)
    BY <1>3 DEF CachePlaylist, PassOver
  <2>2. DOMAIN pending = {}
    BY <2>1
  <2>3. Given \subseteq Given'
    BY <2>1, <2>2, GivenIs, GivenIsNext
  <2>4. FirstListed(head) \in Nat
    BY <1>2, FirstListedIs
  <2>5. \A n \in 1..(FirstListed(head) - 1) : ~(n >= FirstListed(head))
    BY <2>4
  <2>6. SegmentsAccounted'
    BY <2>1, <2>5 DEF SegmentsAccounted, FirstListed
  <2> QED
    BY <1>1, <2>1, <2>3, <2>6 DEF FetchedIsGiven
<1>4. CASE Broadcast
  <2>1. /\ pending \in Seq(Entry) /\ Len(pending) = 1
        /\ frames \in Seq(Entry) /\ Len(frames) \in Nat /\ frames' \in Seq(Entry)
        /\ Len(frames') = Len(frames) + 1
        /\ frames'[Len(frames) + 1] = pending[1]
        /\ \A i \in 1..Len(frames) : frames'[i] = frames[i]
    BY <1>1, <1>4, BroadcastIs DEF PullTypes
  <2>2. DOMAIN pending = {1} /\ DOMAIN frames = 1..Len(frames) /\ DOMAIN frames' = 1..Len(frames) + 1
    <3>1. 1..1 = {1}
      OBVIOUS
    <3> QED
      BY <2>1, <3>1, LenProperties
  <2>3. Len(frames) + 1 \in DOMAIN frames' /\ \A i \in DOMAIN frames : i \in DOMAIN frames'
    BY <2>1, <2>2
  <2>4. Given \subseteq Given'
    BY <2>1, <2>2, <2>3, GivenIs, GivenIsNext
  <2>5. UNCHANGED <<fetched, cursor, last, failed>>
    BY <1>4 DEF Broadcast
  <2> QED
    BY <1>1, <2>4, <2>5 DEF FetchedIsGiven, SegmentsAccounted, FirstListed
<1>5. ASSUME UNCHANGED <<frames, pending, fetched, last>>, cursor' = cursor + 1,
             failed \subseteq failed', cursor \in fetched \/ cursor \in failed'
      PROVE  FetchedIsGiven' /\ SegmentsAccounted'
  <2>1. Given' = Given
    BY <1>5 DEF Given
  <2>2. \A n \in 1..(cursor + 1 - 1) : n \in 1..(cursor - 1) \/ n = cursor
    BY <1>2
  <2>3. FetchedIsGiven'
    BY <1>1, <1>5, <2>1 DEF FetchedIsGiven
  <2>4. ASSUME NEW n \in 1..(cursor' - 1), n >= FirstListed(last) PROVE n \in Given' \cup failed'
    <3>1. CASE n = cursor
      BY <1>1, <1>5, <2>1, <3>1 DEF FetchedIsGiven
    <3>2. CASE n \in 1..(cursor - 1)
      BY <1>1, <1>5, <2>1, <2>4, <3>2 DEF SegmentsAccounted
    <3>3. n \in 1..(cursor + 1 - 1)
      BY <1>2, <1>5
    <3> QED
      BY <2>2, <3>1, <3>2, <3>3
  <2>5. FirstListed(last) = FirstListed(last)'
    BY <1>5 DEF FirstListed
  <2> QED
    BY <2>3, <2>4, <2>5 DEF SegmentsAccounted
<1>6. CASE SkipFetched
  BY <1>5, <1>6 DEF SkipFetched
<1>7. CASE FetchFails
  BY <1>5, <1>7 DEF FetchFails
<1>8. CASE CacheSegment
  <2>1. /\ pending = << >> /\ pending' = <<Ts(cursor)>> /\ UNCHANGED <<frames, last, failed>>
        /\ cursor' = cursor + 1 /\ cursor \in 1..MaxHead /\ cursor <= last
        /\ fetched' \in Remember(fetched \cup {cursor})
    BY <1>1, <1>2, <1>8, HlsConstants DEF CacheSegment
  <2>2. DOMAIN pending = {} /\ DOMAIN pending' = {1} /\ pending'[1] = Ts(cursor)
    <3>1. DOMAIN pending' = 1..1 /\ 1..1 = {1}
      BY <2>1
    <3> QED
      BY <2>1, <3>1
  <2>3. Ts(cursor).type = "ts" /\ Ts(cursor).n = cursor
    BY <2>1, EntryIs
  <2>4. cursor \in Given'
    BY <2>2, <2>3, GivenIsNext
  <2>5. Given \subseteq Given'
    BY <2>1, <2>2, GivenIs, GivenIsNext
  <2>6. fetched' \subseteq fetched \cup {cursor}
    BY <2>1 DEF Remember
  <2>7. \A n \in 1..(cursor + 1 - 1) : n \in 1..(cursor - 1) \/ n = cursor
    BY <1>2
  <2> QED
    BY <1>1, <2>1, <2>4, <2>5, <2>6, <2>7 DEF FetchedIsGiven, SegmentsAccounted, FirstListed
<1>9. ASSUME UNCHANGED <<frames, pending, fetched, cursor, last, failed>>
      PROVE  FetchedIsGiven' /\ SegmentsAccounted'
  <2>1. Given' = Given
    BY <1>9 DEF Given
  <2> QED
    BY <1>1, <1>9, <2>1 DEF FetchedIsGiven, SegmentsAccounted, FirstListed
<1> QED
  BY <1>3, <1>4, <1>6, <1>7, <1>8, <1>9
     DEF Next, PullStep, Publish, PollFails, PollAgain, LoopEnds, Stop, Connect, Reject, Close,
         ViewerStep, Greet, Subscribe, Send, Lagged, Leave, RemoveClient, pullVars, vars

\* A viewer is written the frame its subscription is at.
LEMMA AppendRun ==
  ASSUME NEW s \in Seq(Nat), NEW k \in Nat, RunOf(s, "live", k)
  PROVE  RunOf(Append(s, k), "live", k + 1)
<1> DEFINE t == Append(s, k)
<1>1. /\ t \in Seq(Nat) /\ Len(t) = Len(s) + 1 /\ t[Len(s) + 1] = k
      /\ \A i \in 1..Len(s) : t[i] = s[i]
  BY AppendProperties
<1> HIDE DEF t
<1>2. Len(s) \in Nat /\ DOMAIN s = 1..Len(s) /\ DOMAIN t = 1..(Len(s) + 1)
  BY <1>1, LenProperties
<1>3. \A i \in DOMAIN t : i \in Int /\ (i \in 1..Len(s) \/ i = Len(s) + 1)
  BY <1>2
<1>4. CASE s = << >>
  <2>1. Len(s) = 0
    BY <1>4
  <2>2. t[1] = k /\ \A i \in DOMAIN t : i = 1
    BY <1>1, <1>2, <2>1
  <2>3. \A i \in DOMAIN t : t[i] = t[1] + (i - 1)
    BY <2>2
  <2>4. k + 1 = t[1] + Len(t)
    BY <1>1, <2>1, <2>2
  <2> QED
    BY <2>3, <2>4 DEF RunOf, t
<1>5. CASE s # << >>
  <2>1. Len(s) # 0
    BY <1>5, EmptySeq
  <2>2. 1 \in 1..Len(s)
    BY <1>2, <2>1
  <2>3. t[1] = s[1] /\ s[1] \in Nat
    BY <1>1, <2>2, ElementOfSeq
  <2>4. k = t[1] + Len(s) /\ \A i \in 1..Len(s) : s[i] = t[1] + (i - 1)
    BY <1>2, <1>5, <2>3 DEF RunOf
  <2>5. t[Len(s) + 1] = t[1] + ((Len(s) + 1) - 1)
    BY <1>1, <1>2, <2>3, <2>4
  <2>6. \A i \in DOMAIN t : t[i] = t[1] + (i - 1)
    BY <1>1, <1>3, <2>4, <2>5
  <2>7. k + 1 = t[1] + Len(t)
    BY <1>1, <1>2, <2>3, <2>4
  <2> QED
    BY <2>6, <2>7 DEF RunOf, t
<1> QED
  BY <1>4, <1>5

LEMMA RunStep == HlsInv /\ [Next]_vars => SentIsRun'
<1> SUFFICES ASSUME HlsInv, [Next]_vars, NEW w \in Viewer
             PROVE  RunOf(sent[w], at[w], next[w])'
  BY DEF SentIsRun
<1>1. PullTypes /\ ViewerTypes /\ RunOf(sent[w], at[w], next[w])
  BY TypeParts DEF HlsInv, SentIsRun
<1>2. Len(frames) \in Nat
  BY <1>1, LenProperties DEF PullTypes
<1>3. /\ at \in [Viewer -> Place] /\ next \in [Viewer -> 1..(Len(frames) + 1)]
      /\ sent[w] \in Seq(Nat) /\ next[w] \in Nat
      /\ sent \in [Viewer -> Seq(1..Len(frames))]
  <2>1. sent[w] \in Seq(1..Len(frames)) /\ 1..Len(frames) \subseteq Nat
    BY <1>1 DEF ViewerTypes
  <2>2. sent[w] \in Seq(Nat)
    BY <2>1, SeqMonotonic
  <2> QED
    BY <1>1, <1>2, <2>2 DEF ViewerTypes
\* The place changes among those before a subscription, or to the end.
<1>4. ASSUME sent'[w] = sent[w], next'[w] = next[w],
             \/ at'[w] = at[w] \/ at'[w] = "gone"
             \/ at[w] \in {"new", "counted"} /\ at'[w] # "live"
      PROVE  RunOf(sent[w], at[w], next[w])'
  BY <1>1, <1>4 DEF RunOf
<1>5. CASE Publish \/ PullStep \/ Stop \/ UNCHANGED vars
  <2>1. UNCHANGED viewerVars
    BY <1>5 DEF Publish, PullStep, Stop, CachePlaylist, PollFails, PollAgain, Broadcast, SkipFetched,
                FetchFails, CacheSegment, LoopEnds, vars
  <2> QED
    BY <1>4, <2>1 DEF viewerVars
<1>6. ASSUME NEW v \in Viewer, Connect(v) \/ Reject(v) \/ Close(v) \/ Greet(v)
      PROVE  RunOf(sent[w], at[w], next[w])'
  BY <1>3, <1>4, <1>6 DEF Connect, Reject, Close, Greet
<1>7. ASSUME NEW v \in Viewer, Lagged(v) \/ Leave(v)
      PROVE  RunOf(sent[w], at[w], next[w])'
  BY <1>3, <1>4, <1>7 DEF Lagged, Leave, RemoveClient
<1>8. ASSUME NEW v \in Viewer, Subscribe(v)
      PROVE  RunOf(sent[w], at[w], next[w])'
  <2>1. CASE v = w
    <3>1. sent[w] = << >> /\ sent'[w] = << >>
      BY <1>1, <1>8, <2>1 DEF Subscribe, RunOf
    <3>2. DOMAIN sent'[w] = {}
      BY <3>1
    <3>3. at'[w] = "live"
      BY <1>3, <1>8, <2>1 DEF Subscribe
    <3> QED
      BY <3>1, <3>2, <3>3 DEF RunOf
  <2>2. CASE v # w
    BY <1>3, <1>4, <1>8, <2>2 DEF Subscribe
  <2> QED
    BY <2>1, <2>2
<1>9. ASSUME NEW v \in Viewer, Send(v)
      PROVE  RunOf(sent[w], at[w], next[w])'
  <2>1. CASE v = w
    <3>1. at[w] = "live" /\ at'[w] = "live" /\ sent'[w] = Append(sent[w], next[w]) /\ next'[w] = next[w] + 1
      BY <1>3, <1>9, <2>1 DEF Send
    <3>2. RunOf(Append(sent[w], next[w]), "live", next[w] + 1)
      BY <1>1, <1>3, <3>1, AppendRun
    <3>3. RunOf(sent'[w], at'[w], next'[w])
      BY <3>1, <3>2
    <3> QED
      BY <3>3 DEF RunOf
  <2>2. CASE v # w
    BY <1>3, <1>4, <1>9, <2>2 DEF Send
  <2> QED
    BY <2>1, <2>2
<1> QED
  BY <1>5, <1>6, <1>7, <1>8, <1>9 DEF Next, ViewerStep

LEMMA GreetingStep == HlsInv /\ [Next]_vars => GreetingIsOldest'
<1> SUFFICES ASSUME HlsInv, [Next]_vars, NEW w \in Viewer
             PROVE  Dominates(frames, sent[w], at[w], next[w], greeting[w])'
  BY DEF GreetingIsOldest
<1>1. /\ PullTypes /\ ViewerTypes /\ PlaylistsInOrder
      /\ RunOf(sent[w], at[w], next[w])
      /\ Dominates(frames, sent[w], at[w], next[w], greeting[w])
  BY TypeParts DEF HlsInv, SentIsRun, GreetingIsOldest
<1>2. Len(frames) \in Nat /\ last \in Nat
  BY <1>1, LenProperties DEF PullTypes
<1>3. /\ at \in [Viewer -> Place] /\ next \in [Viewer -> 1..(Len(frames) + 1)]
      /\ sent \in [Viewer -> Seq(1..Len(frames))] /\ greeting \in [Viewer -> 0..last]
      /\ sent[w] \in Seq(1..Len(frames)) /\ next[w] \in Nat
      /\ greeting[w] \in Nat /\ greeting[w] <= last
  BY <1>1, <1>2 DEF ViewerTypes
<1>4. /\ DOMAIN sent[w] = 1..Len(sent[w]) /\ Len(sent[w]) \in Nat
      /\ \A i \in DOMAIN sent[w] : sent[w][i] \in 1..Len(frames)
  BY <1>3, LenProperties, ElementOfSeq
\* A viewer that is not written to, and whose subscription does not begin.
<1>5. ASSUME UNCHANGED frames, sent'[w] = sent[w], next'[w] = next[w], greeting'[w] = greeting[w],
             at'[w] = at[w] \/ at'[w] # "live"
      PROVE  Dominates(frames, sent[w], at[w], next[w], greeting[w])'
  BY <1>1, <1>5 DEF Dominates, IsPlaylist
\* A viewer that has been given nothing yet, and to which nothing is owed.
<1>6. ASSUME UNCHANGED frames, sent'[w] = << >>, at'[w] # "live" \/ next'[w] = Len(frames) + 1
      PROVE  Dominates(frames, sent[w], at[w], next[w], greeting[w])'
  <2>1. DOMAIN sent'[w] = {}
    BY <1>6
  <2>2. at'[w] = "live" => \A i \in next'[w]..Len(frames') : FALSE
    BY <1>2, <1>6
  <2> QED
    BY <2>1, <2>2 DEF Dominates
<1>7. CASE Broadcast
  <2>1. /\ pending \in Seq(Entry) /\ Len(pending) = 1
        /\ Len(frames') = Len(frames) + 1
        /\ frames'[Len(frames) + 1] = pending[1]
        /\ \A i \in 1..Len(frames) : frames'[i] = frames[i]
        /\ UNCHANGED viewerVars
    BY <1>1, <1>7, BroadcastIs DEF Broadcast
  <2>2. sent' = sent /\ at' = at /\ next' = next /\ greeting' = greeting
    BY <2>1 DEF viewerVars
  <2>3. 1 \in DOMAIN pending
    BY <2>1, LenProperties
  <2>4. IsPlaylist(pending[1]) => greeting[w] <= pending[1].n
    BY <1>1, <1>3, <2>3 DEF PlaylistsInOrder
  <2>5. ASSUME NEW i \in DOMAIN sent[w], IsPlaylist(frames'[sent[w][i]])
        PROVE  greeting[w] <= frames'[sent[w][i]].n
    <3>1. frames'[sent[w][i]] = frames[sent[w][i]]
      BY <1>4, <2>1
    <3> QED
      BY <1>1, <2>5, <3>1 DEF Dominates
  <2>6. ASSUME at[w] = "live", NEW i \in next[w]..(Len(frames) + 1), IsPlaylist(frames'[i])
        PROVE  greeting[w] <= frames'[i].n
    <3>1. CASE i = Len(frames) + 1
      BY <2>1, <2>4, <2>6, <3>1
    <3>2. CASE i # Len(frames) + 1
      <4>1. next[w] \in Int /\ next[w] >= 1
        BY <1>2, <1>3
      <4>2. i \in next[w]..Len(frames) /\ i \in 1..Len(frames)
        BY <1>2, <3>2, <4>1
      <4> QED
        BY <1>1, <2>1, <2>6, <4>2 DEF Dominates
    <3> QED
      BY <3>1, <3>2
  <2> QED
    BY <2>1, <2>2, <2>5, <2>6 DEF Dominates, IsPlaylist
<1>8. CASE Publish \/ Stop \/ CachePlaylist \/ PollFails \/ PollAgain \/ SkipFetched \/ FetchFails
           \/ CacheSegment \/ LoopEnds \/ UNCHANGED vars
  <2>1. UNCHANGED <<frames, viewerVars>>
    BY <1>8 DEF Publish, Stop, CachePlaylist, PollFails, PollAgain, SkipFetched,
                FetchFails, CacheSegment, LoopEnds, vars, pullVars
  <2> QED
    BY <1>5, <2>1 DEF viewerVars
<1>9. ASSUME NEW v \in Viewer, Connect(v) \/ Reject(v) \/ Close(v)
      PROVE  Dominates(frames, sent[w], at[w], next[w], greeting[w])'
  BY <1>3, <1>5, <1>9 DEF Connect, Reject, Close, pullVars
<1>10. ASSUME NEW v \in Viewer, Lagged(v) \/ Leave(v)
       PROVE  Dominates(frames, sent[w], at[w], next[w], greeting[w])'
  BY <1>3, <1>5, <1>10 DEF Lagged, Leave, RemoveClient, pullVars
<1>11. ASSUME NEW v \in Viewer, Greet(v)
       PROVE  Dominates(frames, sent[w], at[w], next[w], greeting[w])'
  <2>1. CASE v = w
    <3>1. sent'[w] = << >> /\ UNCHANGED frames
      BY <1>1, <1>11, <2>1 DEF Greet, RunOf, pullVars
    <3>2. at'[w] # "live"
      BY <1>3, <1>11, <2>1 DEF Greet
    <3> QED
      BY <1>6, <3>1, <3>2
  <2>2. CASE v # w
    BY <1>3, <1>5, <1>11, <2>2 DEF Greet, pullVars
  <2> QED
    BY <2>1, <2>2
<1>12. ASSUME NEW v \in Viewer, Subscribe(v)
       PROVE  Dominates(frames, sent[w], at[w], next[w], greeting[w])'
  <2>1. CASE v = w
    <3>1. sent'[w] = << >> /\ UNCHANGED frames
      BY <1>1, <1>12, <2>1 DEF Subscribe, RunOf, pullVars
    <3>2. next'[w] = Len(frames) + 1
      BY <1>3, <1>12, <2>1 DEF Subscribe
    <3> QED
      BY <1>6, <3>1, <3>2
  <2>2. CASE v # w
    BY <1>3, <1>5, <1>12, <2>2 DEF Subscribe, pullVars
  <2> QED
    BY <2>1, <2>2
<1>13. ASSUME NEW v \in Viewer, Send(v)
       PROVE  Dominates(frames, sent[w], at[w], next[w], greeting[w])'
  <2>1. CASE v = w
    <3> DEFINE t == Append(sent[w], next[w])
    <3>1. /\ at[w] = "live" /\ at'[w] = "live" /\ sent'[w] = t /\ next'[w] = next[w] + 1
          /\ UNCHANGED <<frames, greeting>> /\ next[w] \in 1..Len(frames)
      BY <1>2, <1>3, <1>13, <2>1 DEF Send, pullVars
    <3>2. /\ t \in Seq(1..Len(frames)) /\ Len(t) = Len(sent[w]) + 1 /\ t[Len(sent[w]) + 1] = next[w]
          /\ \A i \in 1..Len(sent[w]) : t[i] = sent[w][i]
      BY <1>3, <3>1, AppendProperties
    <3> HIDE DEF t
    <3>3. DOMAIN t = 1..(Len(sent[w]) + 1)
      BY <3>2, LenProperties
    <3>4. \A i \in DOMAIN t : i \in 1..Len(sent[w]) \/ i = Len(sent[w]) + 1
      BY <1>4, <3>3
    <3>5. \A i \in next[w]..Len(frames) : IsPlaylist(frames[i]) => greeting[w] <= frames[i].n
      BY <1>1, <3>1 DEF Dominates
    <3>6. next[w] \in next[w]..Len(frames) /\ \A i \in (next[w] + 1)..Len(frames) : i \in next[w]..Len(frames)
      BY <1>2, <3>1
    <3>7. \A i \in DOMAIN t : IsPlaylist(frames[t[i]]) => greeting[w] <= frames[t[i]].n
      BY <1>1, <1>4, <3>2, <3>4, <3>5, <3>6 DEF Dominates
    <3>8. Dominates(frames, t, "live", next[w] + 1, greeting[w])
      BY <3>5, <3>6, <3>7 DEF Dominates
    <3> QED
      BY <3>1, <3>8 DEF Dominates, IsPlaylist
  <2>2. CASE v # w
    BY <1>3, <1>5, <1>13, <2>2 DEF Send, pullVars
  <2> QED
    BY <2>1, <2>2
<1> QED
  BY <1>7, <1>8, <1>9, <1>10, <1>11, <1>12, <1>13 DEF Next, PullStep, ViewerStep

-----------------------------------------------------------------------------
(* The invariant and what follows from it.                                 *)

LEMMA HlsInit == Init => HlsInv
<1> SUFFICES ASSUME Init PROVE HlsInv
  OBVIOUS
<1> USE HlsConstants
<1>1. Len(segments) = 0 /\ Len(pending) = 0 /\ Len(frames) = 0
  BY DEF Init
<1>2. DOMAIN segments = {} /\ DOMAIN pending = {} /\ DOMAIN frames = {}
  BY DEF Init
<1>3. Served = {} /\ Cardinality(Served) = 0 /\ Cardinality(fetched) = 0
  <2>1. Served = {} /\ fetched = {}
    BY DEF Init, Served
  <2> QED
    BY <2>1, FS_EmptySet
<1>4. \A v \in Viewer : sent[v] = << >> /\ DOMAIN sent[v] = {} /\ at[v] = "new"
  BY DEF Init
<1>5. PullTypes
  <2>1. << >> \in Seq(Entry)
    OBVIOUS
  <2>2. 0 \in 0..MaxHead /\ 0 \in 0..0 /\ 1 \in 1..(0 + 1) /\ {} \in SUBSET (1..0)
    OBVIOUS
  <2>3. /\ head \in 0..MaxHead /\ last \in 0..head /\ cursor \in 1..(last + 1)
        /\ fetched \in SUBSET (1..last) /\ failed \subseteq 1..last
    BY <2>2 DEF Init
  <2>4. /\ segments \in Seq(Entry) /\ pending \in Seq(Entry) /\ frames \in Seq(Entry)
        /\ loop \in {"absent", "polling", "waiting", "ended"} /\ running \in BOOLEAN
    BY <2>1 DEF Init
  <2>5. /\ Len(segments) <= MaxSegments /\ Len(pending) <= 1 /\ Len(frames) <= MaxFrames
        /\ Cardinality(fetched) <= MaxFetched /\ since \in Nat
    BY <1>1, <1>3 DEF Init
  <2> QED
    BY <2>3, <2>4, <2>5 DEF PullTypes
<1>6. ViewerTypes
  <2>1. << >> \in Seq(1..Len(frames))
    OBVIOUS
  <2> QED
    BY <1>1, <1>3, <2>1 DEF Init, ViewerTypes, Place
<1>7. PlaylistsInOrder
  BY <1>2 DEF PlaylistsInOrder
<1>8. CacheHolds /\ FetchedIsGiven /\ SegmentsAccounted /\ RoomLeft
  BY <1>1 DEF Init, CacheHolds, FetchedIsGiven, SegmentsAccounted, RoomLeft
<1>9. SentIsRun
  BY <1>4 DEF SentIsRun, RunOf
<1>10. GreetingIsOldest
  BY <1>4 DEF GreetingIsOldest, Dominates
<1> QED
  BY <1>5, <1>6, <1>7, <1>8, <1>9, <1>10, TypeParts DEF HlsInv

\* The parts of HlsInv hold together in every state of the relay: each step
\* keeps each of them, given all.
THEOREM HlsInvariant == Spec => []HlsInv
<1>1. HlsInv /\ [Next]_vars => HlsInv'
  BY TypeStep, RoomStep, OrderStep, CacheStep, RunStep, GreetingStep, GivenStep DEF HlsInv
<1> QED
  BY HlsInit, <1>1, PTL DEF Spec

\* The variables of the relay keep their types and its counters their bounds:
\* the cache, the remembered URLs and the clients never exceed what is
\* configured, and the client count is the number of viewers being served.
THEOREM TypeCorrect == Spec => []TypeOK
<1>1. HlsInv => TypeOK
  BY DEF HlsInv
<1> QED
  BY HlsInvariant, <1>1, PTL

\* For all sizes of the cache and of a playlist the newest playlist is what a
\* request for it is answered with until as many segments as the cache holds
\* were cached after it; then there is none, and never an older one.
THEOREM LatestServed == Spec => []LatestIsServed
<1>1. HlsInv => LatestIsServed
  BY LatestIsLast DEF HlsInv, LatestIsServed, HandleHls, RoomLeft
<1> QED
  BY HlsInvariant, <1>1, PTL

\* What the relay needs of its configuration: a cache with room for a playlist
\* and for all it lists always has the newest one.
THEOREM RoomyCacheServes == MaxSegments > Window => (Spec => []PlaylistIsKept)
<1> SUFFICES ASSUME MaxSegments > Window PROVE Spec => []PlaylistIsKept
  OBVIOUS
<1>1. ASSUME HlsInv, last # 0 PROVE HandleHls = <<200, last>>
  <2>1. last \in Nat /\ cursor \in Nat /\ cursor <= last + 1 /\ since \in Nat
    BY <1>1 DEF HlsInv, TypeOK
  <2>2. FirstListed(last) \in Nat /\ last - FirstListed(last) < Window
    BY <2>1, FirstListedIs
  <2>3. since <= cursor - FirstListed(last)
    BY <1>1 DEF HlsInv, CacheHolds
  <2>4. since < MaxSegments
    BY <2>1, <2>2, <2>3, HlsConstants
  <2>5. LatestM3u8 = last /\ loop # "absent"
    BY <1>1, <2>4, LatestIsLast DEF HlsInv, RoomLeft
  <2> QED
    BY <1>1, <2>5 DEF HandleHls
<1>2. HlsInv => PlaylistIsKept
  BY <1>1 DEF PlaylistIsKept
<1> QED
  BY HlsInvariant, <1>2, PTL

\* What a viewer is given since it subscribed is the stream without a gap.
THEOREM NoGap == Spec => []NoGapBeforeCut
<1>1. ASSUME HlsInv, NEW v \in Viewer, NEW i \in 1..(Len(sent[v]) - 1)
      PROVE  sent[v][i + 1] = sent[v][i] + 1
  <2>1. ViewerTypes /\ RunOf(sent[v], at[v], next[v])
    BY <1>1, TypeParts DEF HlsInv, SentIsRun
  <2>2. sent[v] \in Seq(1..Len(frames))
    BY <2>1 DEF ViewerTypes
  <2>3. /\ Len(sent[v]) \in Nat /\ DOMAIN sent[v] = 1..Len(sent[v])
        /\ \A j \in 1..Len(sent[v]) : sent[v][j] \in Int
    BY <2>2, LenProperties, ElementOfSeq
  <2>4. i \in DOMAIN sent[v] /\ i + 1 \in DOMAIN sent[v] /\ 1 \in 1..Len(sent[v])
    BY <2>3
  <2>5. sent[v][i] = sent[v][1] + (i - 1) /\ sent[v][i + 1] = sent[v][1] + ((i + 1) - 1)
    BY <2>1, <2>4 DEF RunOf
  <2> QED
    BY <2>3, <2>4, <2>5
<1>2. HlsInv => NoGapBeforeCut
  BY <1>1 DEF NoGapBeforeCut
<1> QED
  BY HlsInvariant, <1>2, PTL

\* The playlists a viewer is given never go back in time, the one from the
\* cache included.
THEOREM PlaylistsNeverBack == Spec => []PlaylistNeverBackwards
<1>1. ASSUME HlsInv, NEW v \in Viewer, NEW j \in DOMAIN sent[v], IsPlaylist(Written(v, j))
      PROVE  /\ greeting[v] <= Written(v, j).n
             /\ \A i \in 1..j : IsPlaylist(Written(v, i)) => Written(v, i).n <= Written(v, j).n
  <2>1. /\ PullTypes /\ ViewerTypes /\ PlaylistsInOrder /\ RunOf(sent[v], at[v], next[v])
        /\ Dominates(frames, sent[v], at[v], next[v], greeting[v])
    BY <1>1, TypeParts DEF HlsInv, SentIsRun, GreetingIsOldest
  <2>2. greeting[v] <= Written(v, j).n
    BY <1>1, <2>1 DEF Dominates, Written
  <2>3. sent[v] \in Seq(1..Len(frames)) /\ Len(frames) \in Nat /\ DOMAIN frames = 1..Len(frames)
    BY <2>1, LenProperties DEF ViewerTypes, PullTypes
  <2>4. /\ Len(sent[v]) \in Nat /\ DOMAIN sent[v] = 1..Len(sent[v])
        /\ \A i \in 1..Len(sent[v]) : sent[v][i] \in 1..Len(frames)
    BY <2>3, LenProperties, ElementOfSeq
  <2>5. ASSUME NEW i \in 1..j, IsPlaylist(Written(v, i))
        PROVE  Written(v, i).n <= Written(v, j).n
    <3>1. i \in 1..Len(sent[v]) /\ j \in 1..Len(sent[v]) /\ 1 \in 1..Len(sent[v]) /\ i <= j
      BY <2>4
    <3>2. sent[v][i] = sent[v][1] + (i - 1) /\ sent[v][j] = sent[v][1] + (j - 1)
      BY <2>1, <2>4, <3>1 DEF RunOf
    <3>3. sent[v][1] \in Int /\ sent[v][i] \in DOMAIN frames /\ sent[v][j] \in DOMAIN frames
      BY <2>3, <2>4, <3>1
    <3>4. sent[v][i] <= sent[v][j]
      BY <3>1, <3>2, <3>3
    <3> QED
      BY <1>1, <2>1, <2>5, <3>3, <3>4 DEF PlaylistsInOrder, Written
  <2> QED
    BY <2>2, <2>5
<1>2. HlsInv => PlaylistNeverBackwards
  BY <1>1 DEF PlaylistNeverBackwards
<1> QED
  BY HlsInvariant, <1>2, PTL

\* A segment of the playlist being worked on is broadcast unless its fetch
\* failed in this very pass, whatever the loop remembers or forgets.
THEOREM SegmentsAreAccounted == Spec => []SegmentsAccounted
<1>1. HlsInv => SegmentsAccounted
  BY DEF HlsInv
<1> QED
  BY HlsInvariant, <1>1, PTL
=============================================================================
