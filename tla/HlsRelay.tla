------------------------------ MODULE HlsRelay ------------------------------
(***************************************************************************)
(* One stream on one agent (agent-rust) in the encrypted mode: the pull    *)
(* loop of StreamRelay::start (relay/mod.rs) that polls the playlist of    *)
(* the origin, fetches the segments it has not fetched yet, caches and     *)
(* broadcasts both, and the viewers of handle_ws_encrypted_mode (main.rs). *)
(*                                                                         *)
(* A playlist is named by the newest segment it lists; it lists the last   *)
(* Window segments.  The loop caches an entry and broadcasts it in two     *)
(* critical sections; a viewer's task reads the cached playlist, writes    *)
(* it, and only then subscribes.  Encryption does not fail, and different  *)
(* playlists have different hashes.                                        *)
(***************************************************************************)
EXTENDS Integers, Sequences, SequencesExt, FiniteSetsExt

CONSTANTS
    Viewer,       \* WebSocket connections in the encrypted mode
    Window,       \* segments a playlist lists
    MaxHead,      \* bound: segments the origin publishes
    MaxSegments,  \* config.buffer_segments
    MaxFetched,   \* 100 URLs remembered
    Forgotten,    \* 20 of them forgotten at a time
    RingSize,     \* 256 frames in the broadcast channel
    MaxFrames,    \* bound: frames broadcast
    MaxClients    \* config.max_clients

\* Nothing ties the size of the cache to what a playlist lists: the shipped
\* configurations have 30 of each.
ASSUME HlsAssumption ==
    /\ IsFiniteSet(Viewer)
    /\ {Window, RingSize, Forgotten} \subseteq Nat \ {0}
    /\ {MaxHead, MaxFrames, MaxClients} \subseteq Nat
    /\ MaxFetched \in Nat /\ Forgotten <= MaxFetched + 1
    /\ MaxSegments \in Nat

VARIABLES
    head,     \* the newest segment the origin has published
    loop,     \* the pull loop: "absent", "polling", "waiting" or "ended"
    running,  \* the flag stop clears
    last,     \* the playlist of the current or last pass (0: none yet)
    cursor,   \* the next segment of that pass; the pass is over after last
    segments, \* the cache
    fetched,  \* segments whose URL is remembered
    pending,  \* what was cached and is not broadcast yet, at most one entry
    frames,   \* all entries broadcast, in order (seq_counter is its length)
    since,    \* history: segments cached since the last playlist was
    failed,   \* history: segments of this pass that could not be fetched
    at,       \* where each viewer's task is
    closed,   \* viewers that have closed their connection
    count,    \* client_count
    greeting, \* the playlist written to a viewer when it connected (0: none)
    next,     \* number of the next frame of each subscription
    sent      \* history: numbers of the frames written to each viewer, in order

pullVars == <<loop, running, last, cursor, segments, fetched, pending, frames, since, failed>>
viewerVars == <<at, closed, count, greeting, next, sent>>
vars == <<head, pullVars, viewerVars>>

M3u8(h) == [type |-> "m3u8", n |-> h]
Ts(n) == [type |-> "ts", n |-> n]
Entry == {M3u8(h) : h \in 1..MaxHead} \cup {Ts(n) : n \in 1..MaxHead}

Place == {"new", "counted", "greeted", "live", "gone"}
Served == {v \in Viewer : at[v] \in {"counted", "greeted", "live"}}

TypeOK ==
    /\ head \in 0..MaxHead
    /\ loop \in {"absent", "polling", "waiting", "ended"}
    /\ running \in BOOLEAN
    /\ last \in 0..head /\ cursor \in 1..(last + 1)
    /\ segments \in Seq(Entry) /\ Len(segments) <= MaxSegments
    /\ fetched \in SUBSET (1..last) /\ Cardinality(fetched) <= MaxFetched
    /\ pending \in Seq(Entry) /\ Len(pending) <= 1
    /\ frames \in Seq(Entry) /\ Len(frames) <= MaxFrames
    /\ since \in Nat
    /\ failed \subseteq 1..last
    /\ at \in [Viewer -> Place]
    /\ closed \subseteq Viewer
    /\ count = Cardinality(Served) /\ count <= MaxClients
    /\ greeting \in [Viewer -> 0..last]
    /\ next \in [Viewer -> 1..(Len(frames) + 1)]
    /\ sent \in [Viewer -> Seq(1..Len(frames))]

Init ==
    /\ head = 0
    /\ loop = "absent"
    /\ running = FALSE
    /\ last = 0
    /\ cursor = 1
    /\ segments = << >>
    /\ fetched = {}
    /\ pending = << >>
    /\ frames = << >>
    /\ since = 0
    /\ failed = {}
    /\ at = [v \in Viewer |-> "new"]
    /\ closed = {}
    /\ count = 0
    /\ greeting = [v \in Viewer |-> 0]
    /\ next = [v \in Viewer |-> 1]
    /\ sent = [v \in Viewer |-> << >>]
-----------------------------------------------------------------------------
(* The origin and the pull loop.                                           *)

Publish ==
    /\ head < MaxHead
    /\ head' = head + 1
    /\ UNCHANGED <<pullVars, viewerVars>>

\* Fault: the cache is one entry short.
PushShort(ring, e) ==
    LET all == Append(ring, e)
    IN  IF Len(all) >= MaxSegments THEN SubSeq(all, Len(all) - MaxSegments + 2, Len(all)) ELSE all

\* The cache keeps the newest MaxSegments entries.
Push(ring, e) ==
    LET all == Append(ring, e)
    IN  IF Len(all) > MaxSegments THEN SubSeq(all, Len(all) - MaxSegments + 1, Len(all)) ELSE all

\* The first segment a playlist lists, as parse_m3u8 finds it.
FirstListed(h) == IF h > Window THEN h - Window + 1 ELSE 1

PassOver == cursor > last /\ pending = << >>

\* The playlist is fetched and is not the one seen last; one that has not
\* changed is ignored, also if segments of it could not be fetched.
CachePlaylist ==
    /\ loop = "polling" /\ running /\ PassOver
    /\ head # last
    /\ Len(frames) < MaxFrames
    /\ last' = head
    /\ cursor' = FirstListed(head)
    /\ segments' = Push(segments, M3u8(head))
    /\ pending' = <<M3u8(head)>>
    /\ since' = 0
    /\ failed' = {}
    /\ UNCHANGED <<head, loop, running, fetched, frames, viewerVars>>

\* The playlist cannot be fetched: the loop sleeps for the backoff.
PollFails ==
    /\ loop = "polling" /\ running /\ PassOver
    /\ loop' = "waiting"
    /\ UNCHANGED <<head, running, last, cursor, segments, fetched, pending, frames, since, failed, viewerVars>>

PollAgain ==
    /\ loop = "waiting"
    /\ loop' = "polling"
    /\ UNCHANGED <<head, running, last, cursor, segments, fetched, pending, frames, since, failed, viewerVars>>

Broadcast ==
    /\ pending # << >>
    /\ frames' = Append(frames, pending[1])
    /\ pending' = << >>
    /\ UNCHANGED <<head, loop, running, last, cursor, segments, fetched, since, failed, viewerVars>>

SkipFetched ==
    /\ cursor <= last /\ pending = << >>
    /\ cursor \in fetched
    /\ cursor' = cursor + 1
    /\ UNCHANGED <<head, loop, running, last, segments, fetched, pending, frames, since, failed, viewerVars>>

\* Fault: a segment counts as fetched before it is.
FetchFailsRemembered ==
    /\ cursor <= last /\ pending = << >>
    /\ cursor \notin fetched
    /\ fetched' = fetched \cup {cursor}
    /\ failed' = failed \cup {cursor}
    /\ cursor' = cursor + 1
    /\ UNCHANGED <<head, loop, running, last, segments, pending, frames, since, viewerVars>>

FetchFails ==
    /\ cursor <= last /\ pending = << >>
    /\ cursor \notin fetched
    /\ failed' = failed \cup {cursor}
    /\ cursor' = cursor + 1
    /\ UNCHANGED <<head, loop, running, last, segments, fetched, pending, frames, since, viewerVars>>

\* Fault: nothing is forgotten.
RememberAll(urls) == {urls}

\* What may be left of the remembered URLs: over the limit some of them go, in
\* the order of a hash map, which is any order.
Remember(urls) ==
    IF Cardinality(urls) > MaxFetched THEN {urls \ out : out \in kSubset(Forgotten, urls)} ELSE {urls}

CacheSegment ==
    /\ cursor <= last /\ pending = << >>
    /\ cursor \notin fetched
    /\ Len(frames) < MaxFrames
    /\ segments' = Push(segments, Ts(cursor))
    /\ fetched' \in Remember(fetched \cup {cursor})
    /\ pending' = <<Ts(cursor)>>
    /\ since' = since + 1
    /\ cursor' = cursor + 1
    /\ UNCHANGED <<head, loop, running, last, frames, failed, viewerVars>>

\* Shutdown: the flag is looked at before the next pass.
Stop ==
    /\ running
    /\ running' = FALSE
    /\ UNCHANGED <<head, loop, last, cursor, segments, fetched, pending, frames, since, failed, viewerVars>>

LoopEnds ==
    /\ loop = "polling" /\ ~running /\ PassOver
    /\ loop' = "ended"
    /\ UNCHANGED <<head, running, last, cursor, segments, fetched, pending, frames, since, failed, viewerVars>>

PullStep ==
    \/ CachePlaylist \/ PollFails \/ PollAgain \/ Broadcast
    \/ SkipFetched \/ FetchFails \/ CacheSegment \/ LoopEnds
-----------------------------------------------------------------------------
(* A viewer.                                                               *)

\* The relay is made, and its loop started, once, under the lock of the map.
GetOrCreateRelay ==
    /\ loop' = IF loop = "absent" THEN "polling" ELSE loop
    /\ running' = (running \/ loop = "absent")

Connect(v) ==
    /\ at[v] = "new"
    /\ count < MaxClients
    /\ GetOrCreateRelay
    /\ count' = count + 1
    /\ at' = [at EXCEPT ![v] = "counted"]
    /\ UNCHANGED <<head, last, cursor, segments, fetched, pending, frames, since, failed, closed, greeting, next, sent>>

Reject(v) ==
    /\ at[v] = "new"
    /\ count >= MaxClients
    /\ GetOrCreateRelay
    /\ at' = [at EXCEPT ![v] = "gone"]
    /\ UNCHANGED <<head, last, cursor, segments, fetched, pending, frames, since, failed, closed, count, greeting, next, sent>>

Close(v) ==
    /\ v \in Served
    /\ v \notin closed
    /\ closed' = closed \cup {v}
    /\ UNCHANGED <<head, pullVars, at, count, greeting, next, sent>>

\* The newest playlist in the cache, 0 if it holds none.
LatestM3u8 ==
    LET found == {i \in DOMAIN segments : segments[i].type = "m3u8"}
    IN  IF found = {} THEN 0 ELSE segments[Max(found)].n

\* handle_hls: the status and the playlist a request for it is answered with.
HandleHls ==
    IF loop = "absent" THEN <<404, 0>>
    ELSE IF LatestM3u8 = 0 THEN <<503, 0>>
    ELSE <<200, LatestM3u8>>

\* The cached playlist is written, if there is one; a failure is ignored.
Greet(v) ==
    /\ at[v] = "counted"
    /\ at' = [at EXCEPT ![v] = "greeted"]
    /\ greeting' = [greeting EXCEPT ![v] = IF v \in closed THEN 0 ELSE LatestM3u8]
    /\ UNCHANGED <<head, pullVars, closed, count, next, sent>>

\* The oldest frame the channel still holds.
Oldest == IF Len(frames) > RingSize THEN Len(frames) - RingSize + 1 ELSE 1

\* Fault: the subscription starts with what the channel still holds.
SubscribeFromOldest(v) ==
    /\ at[v] = "greeted"
    /\ at' = [at EXCEPT ![v] = "live"]
    /\ next' = [next EXCEPT ![v] = Oldest]
    /\ UNCHANGED <<head, pullVars, closed, count, greeting, sent>>

Subscribe(v) ==
    /\ at[v] = "greeted"
    /\ at' = [at EXCEPT ![v] = "live"]
    /\ next' = [next EXCEPT ![v] = Len(frames) + 1]
    /\ UNCHANGED <<head, pullVars, closed, count, greeting, sent>>

Send(v) ==
    /\ at[v] = "live" /\ v \notin closed
    /\ Oldest <= next[v] /\ next[v] <= Len(frames)
    /\ sent' = [sent EXCEPT ![v] = Append(@, next[v])]
    /\ next' = [next EXCEPT ![v] = @ + 1]
    /\ UNCHANGED <<head, pullVars, at, closed, count, greeting>>

RemoveClient(v) ==
    /\ count' = IF count > 0 THEN count - 1 ELSE 0
    /\ at' = [at EXCEPT ![v] = "gone"]
    /\ UNCHANGED <<head, pullVars, closed, greeting, next, sent>>

\* Fault: a viewer that fell behind goes on with what the channel still holds.
LagSkips(v) ==
    /\ at[v] = "live" /\ next[v] < Oldest
    /\ next' = [next EXCEPT ![v] = Oldest]
    /\ UNCHANGED <<head, pullVars, at, closed, count, greeting, sent>>

\* Any error of recv ends the sending task, and the viewer's place is given up;
\* its socket stays open, and silent, until the viewer closes it.
Lagged(v) ==
    /\ at[v] = "live" /\ next[v] < Oldest
    /\ RemoveClient(v)

\* A write fails, or the receiving task sees the close.
Leave(v) ==
    /\ at[v] = "live" /\ v \in closed
    /\ RemoveClient(v)

ViewerStep(v) == Greet(v) \/ Subscribe(v) \/ Send(v) \/ Lagged(v) \/ Leave(v)

Next ==
    \/ Publish \/ PullStep \/ Stop
    \/ \E v \in Viewer : Connect(v) \/ Reject(v) \/ Close(v) \/ ViewerStep(v)

Spec == Init /\ [][Next]_vars
-----------------------------------------------------------------------------
(* Properties.                                                             *)

\* A viewer that connects, or asks for the playlist over HTTP, is given the
\* newest one as long as fewer than MaxSegments segments were cached after it,
\* and from then on none: never an older one, and never none any sooner, for
\* any sizes of cache and playlist and whatever was fetched, forgotten or
\* lost.
LatestIsServed ==
    last # 0 => HandleHls = IF since < MaxSegments THEN <<200, last>> ELSE <<503, 0>>

\* "发送最新 m3u8" (main.rs:525): from the first playlist on a viewer that connects
\* is sent the newest one, and "No data yet" (main.rs:931) is the answer only
\* before the first.  A pass that caches as many segments as the cache has room
\* for evicts the playlist it began with.
PlaylistIsKept == last # 0 => HandleHls = <<200, last>>

\* The i-th frame written to a viewer, and whether it is a playlist.
Written(v, i) == frames[sent[v][i]]
IsPlaylist(e) == e.type = "m3u8"

\* The playlists a viewer is given never go back in time, though the first
\* comes from the cache and the others from the channel.
PlaylistNeverBackwards ==
    \A v \in Viewer : \A j \in DOMAIN sent[v] : IsPlaylist(Written(v, j)) =>
        /\ greeting[v] <= Written(v, j).n
        /\ \A i \in 1..j : IsPlaylist(Written(v, i)) => Written(v, i).n <= Written(v, j).n

\* What a viewer is given since it subscribed is the stream without a gap: one
\* that falls behind the channel is cut off, never continued past frames
\* the channel has lost (the WebSocket FLV mode does continue).
NoGapBeforeCut ==
    \A v \in Viewer : \A i \in 1..(Len(sent[v]) - 1) : sent[v][i + 1] = sent[v][i] + 1

Given == {frames[i].n : i \in {j \in DOMAIN frames : frames[j].type = "ts"}}
        \cup {pending[i].n : i \in {j \in DOMAIN pending : pending[j].type = "ts"}}

\* A segment of the playlist being worked on is broadcast unless its fetch
\* failed in this very pass: one that failed in an earlier pass is tried again,
\* and what the loop remembers or forgets of its fetches never costs a segment.
SegmentsAccounted ==
    \A n \in 1..(cursor - 1) : n >= FirstListed(last) => n \in Given \cup failed
=============================================================================
