------------------------------ MODULE FlvRelay ------------------------------
(***************************************************************************)
(* One stream on one agent (agent-rust): the FlvPuller that pulls it       *)
(* (relay/flv.rs), its broadcast channel and GOP cache, and the viewers    *)
(* served by handle_http_flv_connection and handle_ws_flv_mode (main.rs)   *)
(* with the drop policy of relay/packet_drop.rs.                           *)
(*                                                                         *)
(* The puller broadcasts a tag and then, under the cache's lock, adds it   *)
(* to the cache; a viewer's task reads the cache, writes it to the viewer, *)
(* and only then subscribes.  Each of these is a step of its own.  Numbers *)
(* of tags are their places in the sequence of all tags received, over     *)
(* reconnections: what a source sent while nobody listened has no number.  *)
(* A write to a viewer that has closed fails.                              *)
(***************************************************************************)
EXTENDS GopCache, FiniteSets

CONSTANTS
    Viewer,      \* connections of viewers, or of agents that pull from this one
    WsViewer,    \* those that use WebSocket; the others use HTTP-FLV
    Kind,        \* kinds of tag in the stream
    MaxTags,     \* bound: tags received
    RingSize,    \* 512 tags in the broadcast channel
    MaxClients,  \* config.max_clients
    HasBackup    \* a backup origin is configured

ASSUME RelayAssumption ==
    /\ IsFiniteSet(Viewer)
    /\ WsViewer \subseteq Viewer
    /\ Kind \subseteq HeaderKind \cup MediaKind
    /\ MaxTags \in Nat
    /\ RingSize \in Nat \ {0}
    /\ MaxClients \in Nat
    /\ HasBackup \in BOOLEAN

VARIABLES
    puller,   \* "absent", "pulling", "waiting" (to retry) or "ended"
    backup,   \* using_backup
    tags,     \* kinds of the tags broadcast, in order
    fed,      \* how many of them the cache has been given
    cache,    \* the GOP cache
    at,       \* where each viewer's task is
    closed,   \* viewers that have closed their connection
    count,    \* client_count
    next,     \* number of the next tag of each subscription
    lag,      \* lag_count of the viewer's BackpressureTracker
    startup,  \* the tags of the cache each viewer is written when it joins
    sent,     \* history: numbers of the tags written to each viewer since, in order
    joined,   \* history: number of the first tag of the subscription
    gaps      \* history: runs of tags the channel overwrote before the viewer read them

vars == <<puller, backup, tags, fed, cache, at, closed, count, next, lag, startup, sent, joined, gaps>>
pullVars == <<puller, backup, tags, fed, cache>>
readVars == <<next, lag, joined, gaps>>
sentVars == <<startup, sent>>

\* "reading": the cache was read and is being written; "leaked": the task is
\* over and its place was not given back.
Place == {"new", "counted", "greeted", "reading", "live", "gone", "leaked"}
Served == {v \in Viewer : at[v] \in {"counted", "greeted", "reading", "live"}}

TypeOK ==
    /\ puller \in {"absent", "pulling", "waiting", "ended"}
    /\ backup \in BOOLEAN
    /\ tags \in Seq(Kind) /\ Len(tags) <= MaxTags
    /\ fed \in Nat /\ fed \in {Len(tags), Len(tags) - 1}
    /\ cache \in Cache(fed)
    /\ at \in [Viewer -> Place]
    /\ closed \subseteq Viewer
    /\ count \in 0..MaxClients
    /\ next \in [Viewer -> 1..(Len(tags) + 1)]
    /\ lag \in [Viewer -> 0..Len(tags)]
    /\ startup \in [Viewer -> Seq(1..Len(tags))]
    /\ sent \in [Viewer -> Seq(1..Len(tags))]
    /\ joined \in [Viewer -> 1..(Len(tags) + 1)]
    /\ gaps \in [Viewer -> SUBSET [first : 1..Len(tags), last : 1..Len(tags)]]

Init ==
    /\ puller = "absent"
    /\ backup = FALSE
    /\ tags = << >>
    /\ fed = 0
    /\ cache = EmptyCache
    /\ at = [v \in Viewer |-> "new"]
    /\ closed = {}
    /\ count = 0
    /\ next = [v \in Viewer |-> 1]
    /\ lag = [v \in Viewer |-> 0]
    /\ startup = [v \in Viewer |-> << >>]
    /\ sent = [v \in Viewer |-> << >>]
    /\ joined = [v \in Viewer |-> 1]
    /\ gaps = [v \in Viewer |-> {}]

-----------------------------------------------------------------------------
(* The puller.                                                             *)

Broadcast(k) ==
    /\ puller = "pulling"
    /\ fed = Len(tags)
    /\ Len(tags) < MaxTags
    /\ tags' = Append(tags, k)
    /\ UNCHANGED <<puller, backup, fed, cache, at, closed, count, readVars, sentVars>>

FeedCache ==
    /\ fed < Len(tags)
    /\ fed' = fed + 1
    /\ cache' = AddTag(cache, fed + 1, tags[fed + 1])
    /\ UNCHANGED <<puller, backup, tags, at, closed, count, readVars, sentVars>>

\* A connection that fails, or breaks: the other source is next, after a wait.
\* The cache is kept.
PullFails ==
    /\ puller = "pulling"
    /\ fed = Len(tags)
    /\ puller' = "waiting"
    /\ backup' = (HasBackup /\ ~backup)
    /\ UNCHANGED <<tags, fed, cache, at, closed, count, readVars, sentVars>>

Retry ==
    /\ puller = "waiting"
    /\ puller' = "pulling"
    /\ UNCHANGED <<backup, tags, fed, cache, at, closed, count, readVars, sentVars>>

\* The upstream closes the response, or a shutdown has cleared the running flag
\* when a chunk comes: the task ends, the relay stays in the map.
StreamEnds ==
    /\ puller = "pulling"
    /\ fed = Len(tags)
    /\ puller' = "ended"
    /\ UNCHANGED <<backup, tags, fed, cache, at, closed, count, readVars, sentVars>>

\* The flag was cleared during a wait: the loop ends instead of retrying.
Stop ==
    /\ puller = "waiting"
    /\ puller' = "ended"
    /\ UNCHANGED <<backup, tags, fed, cache, at, closed, count, readVars, sentVars>>

-----------------------------------------------------------------------------
(* A viewer.                                                               *)

\* The relay of the stream is made, and its puller started, once: a relay that
\* is in the map is used again, also if its puller has ended.
GetOrCreateFlvRelay == puller' = IF puller = "absent" THEN "pulling" ELSE puller

\* add_client.
Connect(v) ==
    /\ at[v] = "new"
    /\ count < MaxClients
    /\ at' = [at EXCEPT ![v] = "counted"]
    /\ count' = count + 1
    /\ GetOrCreateFlvRelay
    /\ UNCHANGED <<backup, tags, fed, cache, closed, readVars, sentVars>>

\* add_client refuses; by then the relay exists.
Reject(v) ==
    /\ at[v] = "new"
    /\ count >= MaxClients
    /\ at' = [at EXCEPT ![v] = "gone"]
    /\ GetOrCreateFlvRelay
    /\ UNCHANGED <<backup, tags, fed, cache, closed, count, readVars, sentVars>>

Close(v) ==
    /\ at[v] \notin {"new", "gone", "leaked"}
    /\ v \notin closed
    /\ closed' = closed \cup {v}
    /\ UNCHANGED <<pullVars, at, count, readVars, sentVars>>

\* Fault: the place is not given back.
RemoveClientKeeps(v) ==
    /\ at' = [at EXCEPT ![v] = "gone"]
    /\ UNCHANGED <<pullVars, closed, count, readVars, sentVars>>

\* remove_client, at the end of a viewer's task.
RemoveClient(v) ==
    /\ at' = [at EXCEPT ![v] = "gone"]
    /\ count' = IF count > 0 THEN count - 1 ELSE 0
    /\ UNCHANGED <<pullVars, closed, readVars, sentVars>>

\* The response header and the FLV header.
Greet(v) ==
    /\ at[v] = "counted"
    /\ v \notin closed
    /\ at' = [at EXCEPT ![v] = "greeted"]
    /\ UNCHANGED <<pullVars, closed, count, readVars, sentVars>>

\* If they cannot be written the WebSocket task gives the place back; the
\* HTTP-FLV task leaves by the ? operator and does not.
GreetFails(v) ==
    /\ at[v] = "counted"
    /\ v \in closed
    /\ IF v \in WsViewer THEN RemoveClient(v)
       ELSE /\ at' = [at EXCEPT ![v] = "leaked"]
            /\ UNCHANGED <<pullVars, closed, count, readVars, sentVars>>

ReadStartup(v) ==
    /\ at[v] = "greeted"
    /\ at' = [at EXCEPT ![v] = "reading"]
    /\ startup' = [startup EXCEPT ![v] = GetStartupTags(cache)]
    /\ UNCHANGED <<pullVars, closed, count, readVars, sent>>

\* Fault: the subscription starts with the tags the channel still holds.
SubscribeFromOldest(v) ==
    /\ at[v] = "reading"
    /\ v \notin closed \/ startup[v] = << >>
    /\ at' = [at EXCEPT ![v] = "live"]
    /\ next' = [next EXCEPT ![v] = IF Len(tags) > RingSize THEN Len(tags) - RingSize + 1 ELSE 1]
    /\ joined' = next'
    /\ UNCHANGED <<pullVars, closed, count, lag, sentVars, gaps>>

\* The startup tags are written, if there are any, and the task subscribes: it
\* will see the tags that are broadcast from now on.
Subscribe(v) ==
    /\ at[v] = "reading"
    /\ v \notin closed \/ startup[v] = << >>
    /\ at' = [at EXCEPT ![v] = "live"]
    /\ next' = [next EXCEPT ![v] = Len(tags) + 1]
    /\ joined' = [joined EXCEPT ![v] = Len(tags) + 1]
    /\ UNCHANGED <<pullVars, closed, count, lag, sentVars, gaps>>

StartupFails(v) ==
    /\ at[v] = "reading"
    /\ v \in closed
    /\ startup[v] # << >>
    /\ RemoveClient(v)

-----------------------------------------------------------------------------
(* The receive loop.                                                       *)

\* The oldest tag the channel still holds.
Oldest == IF Len(tags) > RingSize THEN Len(tags) - RingSize + 1 ELSE 1

\* RecvError::Lagged: what was overwritten is skipped and becomes the lag.
Lagged(v) ==
    /\ at[v] = "live"
    /\ next[v] < Oldest
    /\ lag' = [lag EXCEPT ![v] = Oldest - next[v]]
    /\ gaps' = [gaps EXCEPT ![v] = @ \cup {[first |-> next[v], last |-> Oldest - 1]}]
    /\ next' = [next EXCEPT ![v] = Oldest]
    /\ UNCHANGED <<pullVars, at, closed, count, sentVars, joined>>

Available(v) == at[v] = "live" /\ Oldest <= next[v] /\ next[v] <= Len(tags)

\* Fault: everything is dropped while the viewer lags.
ShouldDropAll(v) == lag[v] > 0

\* should_drop with the default policy: only pictures that are not key frames.
ShouldDrop(v) == lag[v] > 0 /\ tags[next[v]] = "inter"

Drop(v) ==
    /\ Available(v)
    /\ ShouldDrop(v)
    /\ next' = [next EXCEPT ![v] = @ + 1]
    /\ UNCHANGED <<pullVars, at, closed, count, lag, sentVars, joined, gaps>>

\* The tag is written, which relieves the pressure by one.
Send(v) ==
    /\ Available(v)
    /\ ~ShouldDrop(v)
    /\ v \notin closed
    /\ sent' = [sent EXCEPT ![v] = Append(@, next[v])]
    /\ next' = [next EXCEPT ![v] = @ + 1]
    /\ lag' = [lag EXCEPT ![v] = IF @ > 0 THEN @ - 1 ELSE 0]
    /\ UNCHANGED <<pullVars, at, closed, count, startup, joined, gaps>>

SendFails(v) ==
    /\ Available(v)
    /\ ~ShouldDrop(v)
    /\ v \in closed
    /\ RemoveClient(v)

\* Fault: the close is seen only when there is a tag to write.
NoticeCloseOnTag(v) ==
    /\ Available(v)
    /\ v \in WsViewer
    /\ v \in closed
    /\ RemoveClient(v)

\* The reader task of a WebSocket viewer sees the close by itself.
NoticeClose(v) ==
    /\ at[v] = "live"
    /\ v \in WsViewer
    /\ v \in closed
    /\ RemoveClient(v)

ViewerStep(v) ==
    \/ Greet(v) \/ GreetFails(v) \/ ReadStartup(v) \/ Subscribe(v) \/ StartupFails(v)
    \/ Lagged(v) \/ Drop(v) \/ Send(v) \/ SendFails(v) \/ NoticeClose(v)

Next ==
    \/ \E k \in Kind : Broadcast(k)
    \/ FeedCache \/ PullFails \/ Retry \/ StreamEnds \/ Stop
    \/ \E v \in Viewer : Connect(v) \/ Reject(v) \/ Close(v) \/ ViewerStep(v)

\* Tasks that can run do run, and a wait for a retry ends.  Nothing is assumed
\* of the stream, of the source or of the viewers.
Fairness ==
    /\ WF_vars(FeedCache)
    /\ WF_vars(Retry \/ Stop)
    /\ \A v \in Viewer : WF_vars(ViewerStep(v))

Spec == Init /\ [][Next]_vars
FairSpec == Spec /\ Fairness
-----------------------------------------------------------------------------
(* Properties.                                                             *)

\* Of the tags numbered in s the pictures and sounds are in order, f being the
\* kinds of all tags.
MediaInOrder(f, s) ==
    \A i, j \in DOMAIN s :
        i < j /\ f[s[i]] \in MediaKind /\ f[s[j]] \in MediaKind => s[i] < s[j]

\* client_count is the number of connections being served and of those the
\* greeting of an HTTP-FLV viewer leaked, and no others, whatever connections
\* come, fail and go in between: no more than MaxClients are served at a time,
\* and no other way of ending a connection costs a place.
CountIsExact == count = Cardinality(Served) + Cardinality({v \in Viewer : at[v] = "leaked"})

\* No viewer is written a picture or a sound twice or after a later one, though
\* what it gets first comes from the cache and the rest from the channel.
SentInOrder == \A v \in Viewer : MediaInOrder(tags, startup[v] \o sent[v])

\* The last key frame up to i, 0 if there is none.
KeyOf(i) == LET keys == {k \in 1..i : tags[k] = "key"}
            IN  IF keys = {} THEN 0 ELSE CHOOSE k \in keys : \A j \in keys : j <= k

\* Each picture in a set of tags comes with the last key frame received before
\* it and with all pictures and sound received between the two.
Whole(s) ==
    \A i \in s : tags[i] = "inter" =>
        KeyOf(i) # 0 /\ \A j \in KeyOf(i)..i : tags[j] \in MediaKind => j \in s

\* Whatever the cache replays is made of beginnings of GOPs as they were
\* received: no picture without its key frame, and nothing left out before it,
\* even when GOPs were cut short or evicted.  (It says nothing of what a source
\* sent while the agent was not connected, which get_startup_tags leaves out
\* unnoticed, or of the header replayed first, which may be that of later GOPs.)
StartupIsWhole == Whole(Range(GetStartupTags(cache)))

\* Of the runs G of tags that were not read in time, g is the last before i.
IsLastGap(G, g, i) ==
    /\ g \in G
    /\ g.last < i
    /\ \A h \in G : h.last < i => h.last <= g.last

Missed(g) == g.last - g.first + 1

\* Of the tags written, s, those after the run g and before tag i.
SentSince(s, g, i) == {k \in Range(s) : g.last < k /\ k < i}

\* Of the tags that came after a viewer subscribed, those it was not given were
\* overwritten in the channel, or are pictures dropped while it lagged: since it
\* last fell behind it had been written fewer tags than it had missed.  Key
\* frames, headers and sound are never dropped, and no picture is once the lag
\* was worked off.
LossIsExplained ==
    \A v \in Viewer : \A i \in joined[v]..(next[v] - 1) :
        \/ i \in Range(sent[v])
        \/ \E g \in gaps[v] : i \in g.first..g.last
        \/ /\ tags[i] = "inter"
           /\ \E g \in gaps[v] : /\ IsLastGap(gaps[v], g, i)
                                 /\ Cardinality(SentSince(sent[v], g, i)) < Missed(g)

\* A WebSocket viewer that has closed gives its place back, in whatever state
\* its task, the puller and the channel are.
ClosedWsIsReleased == \A v \in WsViewer : (v \in closed) ~> (at[v] = "gone")
=============================================================================
