# LiveCDN: TLA+ models, checks and proofs

LiveCDN distributes live video. A **Controller** (Go, `internal/`) keeps track of
edge **agents** (Rust, `agent-rust/`; an earlier Go agent is in `internal/agent`),
sends viewers to agents, rotates stream keys, adapts each viewer's latency mode and
tells agents which other agent they may pull from. Agents pull FLV streams from the
origin or from another agent and serve them over HTTP-FLV and WebSocket, or pull
playlists and segments (HLS) and serve them, encrypted, over WebSocket.

The files here are TLA+ modules that model these parts, TLC configurations that check
them on small instances, and proofs that TLAPS checks for every value of the
constants. `PROJECT.json` lists the components, the runs, for every checked property a
fault of the code that breaks it, which source lines every definition stands for,
where the code disagrees with its documentation, the hazards, and the theorems.

## 1. Inventory

| part (source) | state | operations | what is hard |
|---|---|---|---|
| Node registry (`controller/store.go`, `server.go`) | `nodes` map: status, last heartbeat, load, loss | register, heartbeat, approve, set status, remove, stale clean-up, change of the timeout | handlers that take the lock twice; the order of heartbeat and approval; a timeout changed at run time |
| Dispatch (`scheduler.go`, `sticky.go`) | client bindings | `Dispatch` (snapshot, sticky path, outlier filter, P2C selection), `Rotate`, `Set`, `Cleanup` | a request works on a snapshot while nodes change; two requests of one address share a binding |
| Stream table and keys (`store.go`, `server.go`, `keyrotate.go`) | `streams` map of pointers | start, stop, rotation by ticker and by hand, mode change | pointers read before and written after somebody else's write; two rotators with a mutex each |
| Sessions and latency (`store.go`, `latency_controller.go`) | `sessions` map, two timers and a mode per session | dispatch, quality report, end, ten-second check, clean-up | a report takes two locks; overlapping reports; timers that reset each other |
| Complaints (`store.go`) and outliers (`scheduler.go`) | windows and cool-downs; failures in a row, ejections, weights | quality reports, recovery | a report takes two locks; windows that begin and end; weights raised without a lock |
| FLV relay (`relay/flv.rs`, `gop_cache.rs`, `packet_drop.rs`, `main.rs`) | puller, GOP cache, broadcast channel, client count | pull, retry, cache, connect, greet, start up, receive, drop, close | cache and channel are read at different times; slow viewers; error paths |
| Cascade (`controller/mesh.go`, `store.go`) | roles the Controller recorded | offers by tier in heartbeat responses | late and lost responses, restarts with other flags |
| Cascade selector (`relay/cascade_selector.rs`) | path, last response, probes, switch times | `update_mesh_map`, `run_mesh_ping`, `emergency_switch` | two tasks and a lock per field |
| Agent link (`main.rs`, `server.go`) | the registration task and the heartbeat loop of a process | register once, beat every interval, register again after a 404 | requests and replies that are lost or late, restarts of either side, a registration that is tried once |
| Wire protocol (`protocol/mod.rs`) | the buffer of a `FrameDecoder` | encode, decode of versions 2 and 3, feed | chunks that end anywhere, two versions told apart by a value, an error that takes nothing from the buffer |
| FLV bytes (`relay/flv.rs`, `relay/flv_output.rs`) | the parser's buffer | write header and tags, parse a chunk | the same, and resynchronising inside a tag |
| Transport registry (`transport/registry.rs`) | a connection | dial, send, receive, close | messages that are not frames, errors that leave the connection up |
| Stream ciphers (`crypto/mod.rs`) | a counter on each side | encrypt, decrypt | counters that must stay in step over losses and late starts |
| HLS relay (`relay/mod.rs`, `main.rs`) | playlist seen last, segment cache, URLs fetched, broadcast channel, client count | poll, cache, fetch, broadcast, connect, greet, subscribe, send, close, playlist request | cache and channel are written and read at different times; URLs are forgotten in any order; failed fetches |
| Go agent (`internal/agent`), backoff, domain pool, snapshot store, audit log, self-update | | | see section 7 |

How they meet: an agent's heartbeat updates the registry and is answered with offers
(Mesh), which its selector turns into a path, which the FLV relay of the next new
stream pulls from. A viewer's dispatch request reads the registry, the cool-downs, the
ejections and the bindings and creates a session. The viewer's quality reports touch
that session, record complaints and failures of the node, and move the session's
latency mode. `cleanupLoop` ends whatever has run out.

## 2. Modules

Every module begins with a comment that says which code it models. Definitions keep
the names of the functions they translate. A definition whose comment begins with
*Fault* is a plausible bug of the definition after it; `PROJECT.json` says which
property notices it.

| module | models | composes |
|---|---|---|
| `NodeView` | abstract: what readers of the registry may rely on | |
| `NodeStore` | the registry | implements `NodeView` |
| `AgentLink` | agents' processes, requests and replies, restarts | extends `NodeStore`; implements `NodeView` |
| `Scheduler` | dispatch and bindings | `NodeView` as its registry |
| `StreamKeys` | stream table, key rotation, mode changes | |
| `ViewerSessions` | sessions and latency modes | |
| `Complaints`, `Outliers` | the two penalties of a node | |
| `NodePenalties` | `handleQualityReport` and `cleanupLoop` on one node | `Complaints`, `Outliers`, one clock |
| `GopCache`, `FlvRelay` | a stream on an agent, and its viewers | `FlvRelay` extends `GopCache` |
| `HlsRelay` | a stream on an agent in the encrypted mode, and its viewers | |
| `FrameCodec`, `FlvCodec` | what is written to the wire and how it is read: pure functions | |
| `Wire` | one connection with one of three receivers, and the ciphers on it | extends `FrameCodec`, `FlvCodec` |
| `Mesh` | which agent pulls from which | |
| `UpstreamChoice` | abstract: where an agent may pull from | |
| `CascadeSelector` | the selector of one agent in detail | implements `UpstreamChoice`, which is what `Mesh` lets an agent do |
| `*Proofs` | theorems about the module they extend; `NodeStoreProofs` also about `AgentLink`, `CascadeProofs` about `Mesh` and `FlvRelay`, `QualityProofs` about `ViewerSessions` and `NodePenalties` | |
| `MC*` | model values for TLC; four of them put two components that share no state into one run | `MCDispatch`: `Scheduler`, `StreamKeys`; `MCQuality`: `ViewerSessions`, `NodePenalties`; `MCCascade`: `Mesh`, `FlvRelay`; `MCUpstream`: `CascadeSelector`, `Wire` |

**Steps.** A step is what happens under one hold of a lock, or one access where there
is no lock. `handleApproveNode` is two steps and a report's complaint and failure two. The
sticky path of `Dispatch` is a step for each of `Get`, `GetNode` with the health test,
`isEjected`, the snapshot for the backups, and the answer or `Rotate`. A rotation generates a
key in one step and stores it in another. A weight update takes up to four (load, store, load
again, clamp). A path switch of the selector is three writes, and the emergency switch first
copies the last response and then switches by the copy. What a handler computes from values
of its own is not split further.

**`AgentLink`.** `start` is the task that `main` spawns to register
(`main.rs:170`), `hb` the loop `heartbeat_loop`; `StartHandled`, `BeatHandled` and
`RegisteredByLoop` are the Controller's handlers, `StartReplied` and `BeatReplied` what
the agent does with the answer. A `LinkTick` is one heartbeat interval. While the
network is in order (`net`), requests are answered within it; while it is not, clients
give up (`StartFails`, `BeatFails`) and what they asked for is handled late or never.
`RestartController` empties the registry, `StartAgent` starts a process with any
configuration. One assumption is made about the environment: a request is not handled
after its process has ended. `deploy/install.sh` makes the service manager wait three
seconds before it starts the next process.

**`FlvRelay`.** `startup` is what a viewer's task read from the cache, `sent` what it
wrote from the channel after that; a viewer sees the one followed by the other.

**`Wire`.** The three receivers do not share a connection in the program; they are
chosen by `recv` in the initial state. `decoder` is a `FrameDecoder`
fed with chunks of any size, `ws` a `PlainWsConn`, and `flv` the parser in
`pull_flv_stream` reading what `flv_output.rs` writes, byte by byte. `FrameDecoder`,
`StreamDecryptor` and `dial_transport` have no caller outside tests: the
agent sends frames to browsers and pulls FLV. They are modelled as a library's promise
to the code that will use them. The greeting frame of `HlsRelay` is not sent here.

**Time.** Ages are counted by `Tick` up to a cap that no comparison of the code tells
from a larger age. So time that passes is unbounded and the state space is finite.

**Data.** Load and loss are kept as sides of the thresholds that the code compares
them with. Scores are abstract: every list that the weighted picks can produce is a
possible outcome, the refusal because of zero scores included; in `CascadeSelector`
they are levels, of which only the gain and the penalty matter. A stream object is
identified by its key version. A tag is its kind and its place in the stream in
`FlvRelay`, and its bytes in `Wire`; a frame's header has a cell for each field. A sealed
payload is its number. A playlist is
named by the newest segment it lists; different playlists have different hashes, and
encryption does not fail. Tokens, cipher work, JSON and logs are left out.

## 3. Runs

The numbers are distinct states. Where a run has two components that share no state, the
initial state chooses which of them moves and the other stays as it was, so the numbers
add up.

| run | instance | states | shows |
|---|---|---|---|
| `agent_link` | 1 node, 3 configurations (one with a wrong token), 4 timeouts (negative, zero, equal to and above the healthy age) | 207 648 | see below |
| `dispatch` | 1 address with 2 requests over 2 nodes or 1 request over 3, ages 0 to 2; 1 stream, 2 rotators, 1 mode handler, 4 versions | 712 099 | |
| `quality` | 1 session and 2 overlapping reports; 1 node, 2 overlapping reports, the code's 3 complaints | 506 152 | |
| `cascade` | 1 HTTP-FLV viewer, 1 WebSocket viewer, room for 1, 4 tags of 3 kinds, a channel of 2, a cache of one GOP of 2; 3 agents, 2 relays and an edge | 1 089 113 | |
| `hls_relay` | 2 viewers, room for 1, playlists of 2, a cache of 2, 2 URLs remembered, a channel of 2 | 3 200 283 | |
| `upstream` | 2 upstreams, 2 switches in a window of 3; 3 receivers, 4 frames of versions 2 and 3 with payloads of 0, 1 (the limit) and 2 units, or 4 tags | 4 058 041 | |
| `new_nodes` | as `agent_link` | violation | a heartbeat approves a new node |
| `recovery` | as `quality` | violation | a session that was just moved down is ultra at the next check |
| `mesh_roles` | agents that may change roles | violation | two agents pull from each other |
| `hls_playlist` | as `hls_relay` | violation | a pass evicts its own playlist |
| `older_frames` | 2 frames | violation | frames of version 2 are not handed on |
| `flv_hop` | 2 tags between two agents | violation | the first tag is lost and the parser is out of step |

What the passing runs say, and why it could be otherwise:

- `agent_link`. `ServableIsVouched`: registering, however often, never puts a node in
  service by itself. `ImplementsNodeView`: what readers see behaves as `NodeView`, also
  over restarts of the Controller. `SilentNodeForgotten`: a node that falls silent
  disappears, whatever its status and however often the timeout is changed.
  `AgentStaysInService`: whatever was lost, removed or restarted before, an agent with
  the right token and a network in order comes back into service by itself and stays
  there; it is the 404 that brings it back. That this takes no administrator is against the
  documentation, which `new_nodes` shows. `ProcessIsDescribed`: the address and the rest of
  its description are those it runs with, unless its own registration failed while an older
  record stood. The cascade flags are not meant: the registry keeps them for a known id
  (`mesh_roles`).
- `dispatch`, requests. `BindingMatchesPick`: two requests that interleave `Get`, `Rotate`
  and `Set` of one binding do not extend it or bind to another node than the latest
  selection's. `StickyAnswerIsCurrent`: a sticky answer leads with a node that, at a moment
  of the request, was the client's latest selection and recent enough, and that was healthy
  at one; that it still is when the answer is given is more than separate locks can
  promise. `EjectionCapped`: the filter leaves a candidate and respects its share.
- `dispatch`, keys. `OverStaysOver`: once a stream is stopped and no call holds an older
  pointer, nothing revives it. `RetiredStaysRetired`: a key that was replaced, and that no
  call has in hand, stays out of use, though rotators that do not exclude each other may
  store keys in another order than they made them; a mode change that still has the old
  object can put it back. `KeyIsRotated`: the first key of a live stream is replaced, even
  after a mode change restores it.
- `quality`, sessions. `OneClock` and `DowngradeNeedsSustainedStall`: modes get worse one
  step at a time and only after sustained stalling, under any interleaving of reports and
  checks. `UpgradeNeedsStability`: they get better by one step after the stable time, or all
  the way when the check drops the state that a downgrade has just left without a clock, and
  in no other way; the second way is what `recovery` holds against the documentation.
  `HourOldIsUltra`: the hourly clean-up never discards a degraded mode.
  `SilentSessionRemoved`: viewers that disappear are cleaned up.
- `quality`, nodes. `CoolingIsEarned`: a cool-down needs the full
  number of unspent complaints within the window. `EnoughComplaintsCool` is the
  guarantee in the other direction that fixed windows leave: five complaints in five
  minutes, not three, always suffice. `EjectionIsEarned`: only an unbroken run of
  failures ejects, though two places end ejections. `WeightSettles`: unlocked updates
  leave the weight within its limits. `PenaltiesEnd`: a node that is no longer
  complained about is again neither cooling nor ejected.
- `cascade`, a stream. `SentInOrder`: the cache's tags and the channel's never overlap at a
  viewer. `StartupIsWhole`: what the cache replays is made of GOPs as they were received,
  from their key frame on and without a hole, also when a GOP was cut at its limit; it does
  not say that they can be decoded (section 4). `LossIsExplained`: what a subscriber
  misses was overwritten, or is a picture that came while it had been sent fewer tags since
  its last overrun than it had missed then.
  `CountIsExact`: the client count is the number of connections served
  and of HTTP-FLV connections whose greeting failed, the one way to lose a place.
  `ClosedWsIsReleased`: a WebSocket viewer that closes is released even if the stream
  is silent or has ended.
- `cascade`, the agents. `Layered`: while agents keep their roles, an agent that others pull
  from pulls from the origin. `OffersAreSafe` is its inductive strengthening.
- `hls_relay`. `LatestIsServed`: the newest playlist is in the cache until as many
  segments as the cache has entries were cached after it, and from then on there is none.
  `PlaylistNeverBackwards`: a viewer's first
  playlist comes from the cache and the others from the channel, and they never go
  back in time. `NoGapBeforeCut`: a viewer that falls behind is cut off and not continued
  past a gap. `SegmentsAccounted`: a listed segment is broadcast unless its fetch failed
  in this very pass, whatever the loop forgets of the URLs it fetched.
- `upstream`, the selector. `ImplementsChoice`: the two tasks never choose an agent that was
  not offered by the response being handled or by the one the ping task had copied, which
  may have been replaced since; `Mesh` assumes no more. `ScoreSwitchesAreRationed`:
  cool-down and window bound the switches for a better score although a decision may be
  carried out after the other task has switched.
- `upstream`, the wire. `ChunkingIsInvisible`: where the transport cuts the bytes makes no
  difference to the frame decoder or to the FLV parser. `FramesArriveAsSent` and
  `NothingIsLeftBehind`: frames come unchanged, in order and completely, up to the first
  that cannot be read, which stops a byte stream for good and costs a WebSocket one
  message. Which those are is what `Decode` does; of version 2 it is more than the code
  says (`older_frames`). `CipherKeepsStep`: the payloads opened are those from number 0 to
  the first that did not come.

**Why the bounds are enough.** Nodes, sessions and streams do not influence each other
except through the counts that the instances keep (the share of ejected nodes, the
client limit), so a few of each suffice; two concurrent handlers of one object produce
every overlap of a read and a write. Limits are scaled down in their order (a stall
time below a stable time below an hour), and the code's comparisons see only that
order. Tags, key versions, segments and frames are the bounded counters
(`MaxTags`, `MaxVer`, `MaxHead`, `MaxFrames`, `MaxSent`, `MaxSealed`): four tags outrun
the channel and the cache, four versions let two rotations overlap and an old object return, four segments move a playlist
past its window, five HLS frames outrun the channel and the cache, and four frames on the
wire are one that cannot be read or is left out, one before it and two after it. Frames and
tags on the wire are cut in every way. One node is enough for `agent_link`: a request touches
only its own node's record. One edge is enough for `cascade`: edges have no effect on each
other. The cache of `hls_relay` is as large as a playlist, as in the shipped configurations. The FLV, HLS and wire instances
may stop when these are used up, so they do not check deadlock.

**Fairness.** Weak fairness, but for the clock of `AgentLink`: the clock advances; tickers (`cleanupLoop`, the
latency check, the rotator) fire and their passes end; a handler or task that has
begun is scheduled again. Nothing is assumed of agents, viewers, administrators, the
origin or the network. Go and tokio schedule runnable goroutines and tasks, and the
loops have no exit, which is what these conditions need. `LinkTick` of `AgentLink` waits,
while the network is in order, for requests to be answered, so processes that start again
and again could disable it repeatedly; time passes whatever processes do, hence strong
fairness. `AgentStaysInService` and `ProcessIsDescribed` speak of behaviours in which
administrators and restarts cease (`LeftAlone`).
In `quality`, where both components have fairness conditions, the one that stays as it was
is in a state where none of the steps concerned is possible, so its conditions ask nothing.

## 4. Where the code and its documentation disagree

Six disagreements have runs:

1. `RegisterNode` keeps the cascade flags of a known id (`store.go:44`). Agents that
   are restarted with other flags are offered by the old ones; together with a removal
   two agents can pull from each other, which `mesh.go:182` rules out (`mesh_roles`).
2. An FLV header ends with its own size in four bytes, at 5 to 8. `pull_flv_stream` makes
   the size of the bytes at 5, 6 and 7 (`flv.rs:307`), which are zero, so it skips 4 of the
   13 bytes before the first tag. What follows is no tag, and the parser skips in steps
   of 11 bytes and does not find its way back except by luck (`flv_hop`). The tags of
   `FlvRelay` are therefore whatever the parser delivers.
3. `store.go:65` and `TASKS.md:209` say that new nodes wait for an administrator;
   `UpdateHeartbeat` sets the status to online (`store.go:109`), so the first heartbeat is
   the approval (`new_nodes`).
4. `latency_controller.go:15` says that latency recovers step by step once stalling ends. A
   downgrade clears both clocks, the next check takes such a state for an expired one
   (`latency_controller.go:168`) and drops it, and the session is ultra at once, while it
   stalls (`recovery`).
5. A viewer that connects is sent the newest playlist (`main.rs:525`). Playlists and segments
   share a cache (`relay/mod.rs:315`); the shipped origin lists 30 segments
   (`origin/srs.conf:54`) and the shipped agent caches 30 entries (`configs/agent.toml:35`),
   so a pass evicts the playlist it began with, and viewers find none (`hls_playlist`).
6. `protocol/mod.rs:132` says that version 2 is supported. Of version 2, types from 3 on are
   read as version 3 and stop a byte stream (`protocol/mod.rs:135`), and a frame without
   payload waits for more bytes, or is dropped by a WebSocket (`protocol/mod.rs:122`)
   (`older_frames`).

Others were met while modelling. They are visible in the models and no run is about
them:

- `main.rs:178` says that a failed registration is retried with the heartbeats; it is only
  if the Controller answers 404, and while an older record stands it does not, which is the
  exception in `ProcessIsDescribed`;
- `encode` accepts payloads that every decoder refuses (`protocol/mod.rs:103`);
- a `StreamDecryptor` that starts later than its encryptor opens nothing
  (`crypto/mod.rs:197`);
- an ended puller stays in the map of relays, its backoff is never reset after a success,
  and a viewer that closes within the request's header leaves a loop that never ends
  (`main.rs:595`);
- the sticky path does not look at the cool-down (`scheduler.go:107`);
- more than three candidates at exactly 5% loss make a request fail (`utils.go:36`);
- a stream that is stopped while a rotation holds its snapshot is live again
  (`keyrotate.go:87`);
- a mode change can put an old key back (`server.go:847`), and a rotation loses the
  latency mode (`keyrotate.go:80`);
- latency state with only the stall clock set is never dropped
  (`latency_controller.go:168`);
- three complaints that straddle the end of a window do not cool (`store.go:276`);
- `RecoverOutliers` keeps the ejection count that a recovery should reset
  (`scheduler.go:471`), and `cleanupLoop` can undo a failure's decay (`server.go:1144`);
- an HTTP-FLV viewer that closes before the headers are written keeps its place
  (`main.rs:663`);
- when the upstream ends a stream its viewers wait for ever and later ones join the
  dead relay (`flv.rs:160`);
- tags broadcast between the read of the cache and the subscription are lost
  (`main.rs:697`);
- what the cache replays can be decoded at once, says `gop_cache.rs:161`; but the latest
  sequence header is put before all GOPs, also older ones (`gop_cache.rs:297`), and the
  cache is not told of a reconnection, so a GOP goes on with what the new connection begins
  with (`gop_cache.rs:251`);
- `packet_drop.rs:16` to `18` say that a medium lag drops sound, which no caller enables
  (`packet_drop.rs:107`), and that a severe one skips to the next key frame, whereas
  pictures behind it are dropped too until as many tags were sent as had been missed
  (`packet_drop.rs:103`), which is what `LossIsExplained` states;
- an upstream that is no longer offered is kept by hysteresis
  (`cascade_selector.rs:420`); the emergency switch may choose the unreachable
  upstream again, and the ping's HEAD request is answered 404 by live agents
  (`cascade_selector.rs:569`, `655`); a switch does not reach streams that are being
  served (`main.rs:757`);
- forgetting 20 arbitrary URLs of more than 100 (`relay/mod.rs:324`)
  broadcasts segments that are still listed again; a segment that could not be fetched
  is tried again only once the playlist has changed (`relay/mod.rs:225`);
- an encrypted-mode viewer that lags loses its sending task while its socket stays open
  (`main.rs:549`), and its first frame has sequence number 0 like the stream's first
  (`main.rs:527`).

## 5. Proofs

All theorems hold for every value of the constants that satisfies the assumptions in
the modules: limits are naturals in their order, the model values are distinct, and
where something is counted (nodes in `Scheduler`, viewers in the relays) there are
finitely many. TLC evaluates these assumptions in every run.

- `NodeStoreProofs`: `TypeCorrect`, `ServableVouched`, `PendingOnlyCreated`,
  `RegistryImplementsNodeView`. `PendingOnlyCreated` says that nothing sends a node back
  to the approval queue, although approval tests and sets under two locks. `ServableIsVouched` is not inductive, since nothing in
  it keeps an unvouched node from being offline and coming back online by registering;
  `UnvouchedIsPending` rules that out. The refinement maps every action to a step of
  `NodeView`: `Tick` and configuration changes lose nodes in groups or stutter, the
  clean-up forgets groups. `LinkServableVouched` and `LinkImplementsNodeView` are the same
  for `AgentLink`: each of its steps is a handler of the registry, a step of the agents
  and the network that leaves the registry alone, or a restart of the Controller, which
  empties it.
- `StreamKeysProofs`: `TypeCorrect` and `OverIsFinal`, the action property
  `OverStaysOver`: a stream that is over is neither live nor held, snapshots and mode
  changes take only live streams, and only what is held is written. `RetiredIsFinal`: every
  version in the table or in a rotator's or a handler's hand has been made
  (`VersionsWereMade`), and no version is made twice, so an object that nobody holds cannot
  come back.
- `QualityProofs`, about `ViewerSessions`: the inductive invariant `ClockInv` is the type invariant,
  `OneClock`, that the timers are honest, i.e. the stall clock is no older than the
  run of stalled reports and the stable clock no older than the last stalled report, and that
  a state with neither clock is one that was just moved down (`IdleIsDowned`).
  From it: `OneClockAtATime`, `DowngradeIsEarned`, `UpgradeIsEarned` and `HourOldStateIsUltra`.
- `SchedulerProofs`: `TypeCorrect`, `BindingsMatch`, `StickyAnswersAreCurrent` and
  `EjectionsCapped`. `BindingMatchesPick` is inductive with the types, which say what a
  request holds at each place of `Dispatch`. `StickyAnswersAreCurrent` needs `SinceInv`: the
  histories of a request contain its client's latest recent selection and the nodes that are
  healthy at every moment, and the node it has in hand since `Get`, and since the health
  test. `EjectionCapped` is about the sizes of finite sets, whence
  the assumption that nodes are.
- `QualityProofs`, about `NodePenalties`: `EjectionsAreEarned` from `FailsAreReal` (failures are counted no
  higher than they came in a row). `WeightsSettle` from `WeightInv`: a weight above the
  maximum has a thread that is still to look at it again or to clamp it, and what is about to
  be stored is at least the floor. `CoolingsAreEarned` and `EnoughAlwaysCools` from `ComplaintInv`: the
  newest `count` complaints lie in the current window, the one that opened it is as old as
  the window, and the `Limit`-th complaint before it is more than a window old;
  so 2 * `Limit` - 1 complaints within a window include one that starts a cool-down.
  `PenaltiesTypeCorrect` from these two and `LedgerOK`: an ejection ends a failure run, so
  that no count passes the limit it is compared with.
- `CascadeSelectorProofs`: `SelectorImplementsChoice`, for which a decision under way must
  be known to be a choice from the response that is handled, and an emergency switch one from
  the copy (`DecisionIsOffered`), and
  `SwitchesRationed` from `RationInv`: the switches for a better score are among the
  recorded ones, but for one that has been made and is not yet written to the times, and what
  a decision found when it was made still holds when it is carried
  out, as ages only grow and the ping task's switches are not for a better score.
  `TypeCorrect` follows from `RationInv` and the types of the two tasks (`TasksOK`).
- `CascadeProofs`, about `Mesh`: `OffersStaySafe` and `CascadeIsLayered`, under the assumption
  `RolesAreKept` that every agent has one role. `CascadeHasNoLoop` follows: no agents pull
  from each other in a circle of any length, since an agent that others pull from pulls
  from the origin. The run `mesh_roles` violates `NoLoop` without the assumption, so it
  is needed.
- `CascadeProofs`, about `FlvRelay`: `FlvTypeCorrect` and `CountsAreExact`, proved
  together; that a place given back had been counted, so that the counter does not stop at
  zero, follows from `CountIsExact` itself.
  `LossesAreExplained` from `LossInv`: a viewer that lags has since its last overrun been sent
  at most as many tags as it missed less its lag, and what it lost
  lies before its place in the channel. `StartupStaysWhole` from `GopsAreWhole`: a GOP begins at its
  only key frame and has no hole, and the one being built is up to date unless it is full.
  `SentIsInOrder` from two invariants: the GOPs of the cache are in order (`IsOrdered`), and
  what a viewer was sent lies behind its place in the channel, which, once it has
  subscribed, is after all it was given from the cache (`OrderInv`). Both need what
  `get_startup_tags` returns for any number of GOPs. That is induction over data: the
  library's induction theorems cannot be instantiated by the installed provers, but `WFMin`
  and `NatLessThanWellFounded` can, and the lemma `UpTo` makes of them an induction on
  membership in a set, from which follow the existence and the uniqueness of the recursive
  function in `FlattenSeq` and what it returns (`FlattenSeqIs`).
- `HlsRelayProofs`: one inductive invariant, `HlsInv`, gives `TypeCorrect`, `LatestServed`,
  `NoGap`, `PlaylistsNeverBack` and `SegmentsAreAccounted`. Its parts: the newest playlist
  stands in the cache as many entries from the end as were pushed after it, until these fill
  the cache, and they are segments that it lists (`CacheHolds`); playlists are cached and
  broadcast in order (`PlaylistsInOrder`); what a viewer was sent is a run of frames that its
  subscription continues (`SentIsRun`); no playlist that was sent or is still to be
  is older than the greeting (`GreetingIsOldest`); what is remembered as fetched was given
  (`FetchedIsGiven`); and there is room for what is pending (`RoomLeft`, about the bounds).
  `RoomyCacheServes` adds that with a cache larger than a playlist the newest playlist is
  always there; `hls_playlist` shows that it must be larger.
- `WireProofs`: the four invariants of `Wire`, for any number of frames or tags, frames of any size,
  every limit on payloads, peers of both versions and any way of cutting the bytes.
  `FramesIn` and `OnChunk` are the decoders' loops, recursive functions over the bytes; the
  induction `UpTo` gives their existence, their uniqueness and what one step of them does
  (`FramesInIs`, `FramesInStep`, `TurnsIs`, `TurnsShift`).
  - `ChunkingNeverShows` from `Chunked`: the bytes that came and any that may follow are
    read as what is buffered and those bytes would be. It rests on `ProgressBy` (a turn of
    the loop does nothing, gives up or takes bytes, and then does the same if more bytes
    have come) and on `TwoChunks`.
  - `FramesComeInOrder` and `NoFrameIsForgotten` from `Delivered`, which says where among
    the frames sent the receiver stands. `DecodeBegins` is the key: `Decode` of a frame as it is
    written, with anything behind it, gives the frame back, an error or nothing, as the
    frame's type, version and size decide, and takes that many bytes.
  - `CountersAgree` from `Numbered` (payloads are numbered in the order in which they are
    sent) and `Counted`: the decryptor has opened the payloads before some number *m*, which
    has not come, and either waits for *m* or has passed it and will open nothing more.
  - `TagsAreReadBack`: a parser that stands at a tag as `build_flv_tag_wire` writes it hands
    on that tag and stands behind it, for every size that three bytes can say and every time of
    32 bits. So the header is the only thing the parser misreads, of which finding 2 is the
    consequence.

  `WireAssumption` says that the tags' times have 32 bits and their sizes three bytes: what
  the parser reads a tag from cannot say more.

Only model-checked:

- liveness, which this prover does not do: `SilentNodeForgotten`, `AgentStaysInService`,
  `ProcessIsDescribed`, `KeyIsRotated`, `SilentSessionRemoved`, `PenaltiesEnd`,
  `ClosedWsIsReleased`.

Every invariant, every action property and every refinement that a passing run checks is
also a theorem. What the violation runs check has none because it is false, except under an
assumption that the run does not make: `CascadeHasNoLoop` with roles that are kept, and
`RoomyCacheServes`.

## 6. Checking

`tlc -workers 2 -config X.cfg MCX` for a run, `tlapm X.tla` for a proof module. The
longest run takes about three minutes.

## 7. Not modelled

Not modelled, with the reason:

- `FlvRelay`'s source as `CascadeSelector` chooses it: a relay takes the path once, when it is
  created (`main.rs:757`), so composing the two adds no interaction beyond that read.
- The Go agent (`internal/agent`) and the Go packages it uses (`internal/protocol`,
  `internal/crypto`): the Rust agent has replaced them in the deployment.
- Backoff: arithmetic on waits, which are states of the relays here; the token bucket has
  no caller. The domain pool and the audit log: lists under one lock each that nothing
  else reads to decide something. The snapshot store: not wired into the server.
- Self-update: it asks for `/api/admin/agent_version`, which this Controller does not serve.
- The security layers and the switch command of the transport registry: types without code.

Left out for good: the ciphers (library calls), geo look-up and metrics (tables and
counters), the disguise site and health measurements (no state), the web pages and the
deployment scripts, and consistent hashing (not wired in; a library keeps the ring).
Functions without a caller (`weightedSelect`, `SetOverride`,
`report_upstream_ok`, `report_upstream_fail`) have no action.
