----------------------------- MODULE StreamKeys -----------------------------
(***************************************************************************)
(* The stream table of the Controller: CreateStream, GetStream, EndStream  *)
(* and GetLiveStreams (internal/controller/store.go), the handlers that    *)
(* start and stop streams and set their latency mode (server.go), and the  *)
(* key rotator (internal/controller/keyrotate.go), both its ticker and the *)
(* one handleTriggerKeyRotation makes for itself, with a mutex of its own. *)
(*                                                                         *)
(* The table holds pointers.  Every StreamInfo object is made with a fresh *)
(* key, so an object is identified by its key version: 1 is made by the    *)
(* start of the stream, each GenerateKey of a rotation makes the next; it  *)
(* is stored later, when others may have been made and stored.  EndStream  *)
(* and the mode handler change the object they reach in place; a pointer   *)
(* read earlier may by then no longer be the one in the table.             *)
(***************************************************************************)
EXTENDS Integers

CONSTANTS
    Stream,       \* stream keys (random, never reused)
    Rotator,      \* KeyRotator instances
    Ticker,       \* the one rotateLoop drives
    ModeHandler,  \* concurrent handleSetLatencyMode calls
    Mode,         \* the valid latency modes
    DefaultMode,  \* ultra
    NoMode,       \* the empty mode
    MaxVer        \* bound: key versions made per stream

ASSUME KeyAssumption ==
    /\ MaxVer \in Nat \ {0}
    /\ Ticker \in Rotator
    /\ DefaultMode \in Mode
    /\ NoMode \notin Mode

VARIABLES
    made,    \* how many objects of a stream were made
    cur,     \* the object in the table (0: the stream was never started)
    live,    \* IsLive of each object
    mode,    \* LatencyMode of each object
    mature,  \* streams whose CreatedAt is keyRotationInterval or more ago
    todo,    \* what each rotator has still to do of its snapshot
    fresh,   \* the object each rotator has made and not yet stored
    held,    \* the pointer each mode handler holds
    ended    \* history: streams EndStream was called for

keyVars == <<made, cur, live, mode, mature, todo, fresh, held, ended>>

Version == 1..MaxVer
Pointer == Stream \X Version

KeysTypeOK ==
    /\ made \in [Stream -> 0..MaxVer]
    /\ cur \in [Stream -> 0..MaxVer]
    /\ live \in SUBSET Pointer
    /\ mode \in [Pointer -> Mode \cup {NoMode}]
    /\ mature \subseteq Stream
    /\ todo \in [Rotator -> SUBSET Pointer]
    /\ fresh \in [Rotator -> SUBSET Pointer]
    /\ held \in [ModeHandler -> SUBSET (Pointer \X Mode)]
    /\ ended \subseteq Stream

KeyInit ==
    /\ made = [s \in Stream |-> 0]
    /\ cur = [s \in Stream |-> 0]
    /\ live = {}
    /\ mode = [p \in Pointer |-> NoMode]
    /\ mature = {}
    /\ todo = [k \in Rotator |-> {}]
    /\ fresh = [k \in Rotator |-> {}]
    /\ held = [h \in ModeHandler |-> {}]
    /\ ended = {}

Started(s) == cur[s] # 0
IsLive(s) == Started(s) /\ <<s, cur[s]>> \in live

\* Fault: the snapshot takes every stream of the table.
GetAllStreams == {<<s, cur[s]>> : s \in {t \in Stream : Started(t)}}

GetLiveStreams == {<<s, cur[s]>> : s \in {t \in Stream : IsLive(t)}}

\* The object handleStreamStart and handleAdminStreamStart make and put in the
\* table: a new key, live, a mode that is never empty (one the Controller does
\* not know is kept as it is; it is not modelled).  The viewer token that
\* SetToken adds is never read here.
CreateStream(s, m) ==
    /\ made' = [made EXCEPT ![s] = 1]
    /\ cur' = [cur EXCEPT ![s] = 1]
    /\ live' = live \cup {<<s, 1>>}
    /\ mode' = [mode EXCEPT ![<<s, 1>>] = IF m = NoMode THEN DefaultMode ELSE m]

\* Both handlers draw a stream key that is not in the table.
StartStream(s, m) ==
    /\ ~Started(s)
    /\ CreateStream(s, m)
    /\ UNCHANGED <<mature, todo, fresh, held, ended>>

\* handleStreamStop and handleAdminStreamStop: the object that is in the table
\* now is marked, in place.
EndStream(s) ==
    /\ Started(s)
    /\ live' = live \ {<<s, cur[s]>>}
    /\ ended' = ended \cup {s}
    /\ UNCHANGED <<made, cur, mode, mature, todo, fresh, held>>

\* RotateAllLiveStreams takes its snapshot under the read lock...
BeginRotation(k) ==
    /\ todo[k] = {} /\ fresh[k] = {}
    /\ GetLiveStreams # {}
    /\ todo' = [todo EXCEPT ![k] = GetLiveStreams]
    /\ UNCHANGED <<made, cur, live, mode, mature, fresh, held, ended>>

\* Fault: the comparison of the age is the wrong way round.
IsOld(s) == s \in mature

IsYoung(s) == s \notin mature

\* ...and takes its streams one by one, each to its end before the next.
Turn(k, p) ==
    /\ p \in todo[k]
    /\ fresh[k] = {}
    /\ todo' = [todo EXCEPT ![k] = @ \ {p}]

\* Those that are too young are skipped...
SkipYoung(k, p) ==
    /\ Turn(k, p)
    /\ IsYoung(p[1])
    /\ UNCHANGED <<made, cur, live, mode, mature, fresh, held, ended>>

\* Fault: the new version is counted from the one in the snapshot.
NextOfSnapshot(p) == p[2] + 1

\* A key that GenerateKey draws has never been drawn before.
NextKey(p) == made[p[1]] + 1

\* ...for the others a new object is made, with a new key, IsLive set and no
\* latency mode, that nobody else sees yet...
GenerateKey(k, p) ==
    LET s == p[1]
        v == NextKey(p)
    IN  /\ Turn(k, p)
        /\ ~IsYoung(s)
        /\ v <= MaxVer
        /\ made' = [made EXCEPT ![s] = v]
        /\ live' = live \cup {<<s, v>>}
        /\ mode' = [mode EXCEPT ![<<s, v>>] = NoMode]
        /\ fresh' = [fresh EXCEPT ![k] = {<<s, v>>}]
        /\ UNCHANGED <<cur, mature, held, ended>>

\* ...and then stored over whatever is in the table by now.
StoreKey(k) ==
    \E p \in fresh[k] :
        /\ cur' = [cur EXCEPT ![p[1]] = p[2]]
        /\ fresh' = [fresh EXCEPT ![k] = {}]
        /\ UNCHANGED <<made, live, mode, mature, todo, held, ended>>

\* The bound: a rotator that would need one more version gives up this stream.
OutOfVersions(k, p) ==
    /\ Turn(k, p)
    /\ ~IsYoung(p[1])
    /\ made[p[1]] = MaxVer
    /\ UNCHANGED <<made, cur, live, mode, mature, fresh, held, ended>>

\* handleSetLatencyMode refuses anything but the three modes, reads the pointer
\* and tests IsLive...
GetForMode(h, s, m) ==
    /\ held[h] = {}
    /\ m \in Mode
    /\ IsLive(s)
    /\ held' = [held EXCEPT ![h] = {<< <<s, cur[s]>>, m>>}]
    /\ UNCHANGED <<made, cur, live, mode, mature, todo, fresh, ended>>

\* ...then writes the mode into that object and puts the pointer back.
PutWithMode(h) ==
    \E w \in held[h] :
        LET p == w[1] IN
        /\ mode' = [mode EXCEPT ![p] = w[2]]
        /\ cur' = [cur EXCEPT ![p[1]] = p[2]]
        /\ held' = [held EXCEPT ![h] = {}]
        /\ UNCHANGED <<made, live, mature, todo, fresh, ended>>

Mature(s) ==
    /\ Started(s)
    /\ s \notin mature
    /\ mature' = mature \cup {s}
    /\ UNCHANGED <<made, cur, live, mode, todo, fresh, held, ended>>

\* The ticker of rotateLoop fires.
TickerFires(k) == k = Ticker /\ BeginRotation(k)

\* handleTriggerKeyRotation runs a pass of a rotator made for it: its mutex
\* keeps no other pass away.
TriggerKeyRotation(k) == k # Ticker /\ BeginRotation(k)

RotatorStep(k) ==
    \/ TickerFires(k) \/ TriggerKeyRotation(k)
    \/ \E p \in Pointer : SkipYoung(k, p) \/ GenerateKey(k, p) \/ OutOfVersions(k, p)
    \/ StoreKey(k)

KeyNext ==
    \/ \E s \in Stream :
          \/ \E m \in Mode \cup {NoMode} : StartStream(s, m)
          \/ EndStream(s)
          \/ Mature(s)
          \/ \E h \in ModeHandler, m \in Mode \cup {NoMode} : GetForMode(h, s, m)
    \/ \E k \in Rotator : RotatorStep(k)
    \/ \E h \in ModeHandler : PutWithMode(h)

\* The ticker of rotateLoop keeps firing and its passes run to their end; time
\* passes for every stream.
KeyFairness ==
    /\ WF_keyVars(RotatorStep(Ticker))
    /\ \A s \in Stream : WF_keyVars(Mature(s))

KeySpec == KeyInit /\ [][KeyNext]_keyVars
KeyFairSpec == KeySpec /\ KeyFairness
-----------------------------------------------------------------------------
(* Properties.                                                             *)

\* A rotation or a mode change that began before the stop still holds the
\* stream.
InFlight(s) ==
    \/ \E k \in Rotator, v \in Version : <<s, v>> \in todo[k] \cup fresh[k]
    \/ \E h \in ModeHandler, v \in Version, m \in Mode : << <<s, v>>, m>> \in held[h]

Over(s) == s \in ended /\ ~IsLive(s) /\ ~InFlight(s)

\* Once a stream is stopped and no rotation or mode change that started before
\* the stop is still running, nothing brings it back: neither a later rotation,
\* by the ticker or by an admin, nor a later mode change takes hold of it.
OverStaysOver == [][\A s \in Stream : Over(s) => Over(s)']_keyVars

\* An object that was in the table, is not now, and that no mode change or
\* rotation has in hand.
Retired(p) ==
    /\ p[2] <= made[p[1]] /\ cur[p[1]] # p[2]
    /\ \A k \in Rotator : p \notin fresh[k]
    /\ \A h \in ModeHandler, m \in Mode : <<p, m>> \notin held[h]

\* A key that was replaced is out of use for good, in whatever order overlapping
\* rotations make and store their keys (a key made earlier may be stored later):
\* only a mode change that had read the old object before it was replaced can
\* still put it back, and once none has it in hand nothing can.
RetiredStaysRetired == [][\A p \in Pointer : Retired(p) => Retired(p)']_keyVars

\* A stream that stays live does not keep the key it started with, not even if a
\* mode change puts that key back: the ticker replaces it (keyRotationInterval),
\* unless the stream is stopped or the bound on its versions is reached.
KeyIsRotated ==
    \A s \in Stream : (cur[s] = 1) ~> (cur[s] # 1 \/ s \in ended \/ made[s] = MaxVer)
=============================================================================
