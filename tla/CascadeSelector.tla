-------------------------- MODULE CascadeSelector ---------------------------
(***************************************************************************)
(* How one agent chooses its upstream: CascadeSelector                     *)
(* (agent-rust/src/relay/cascade_selector.rs), called by two tasks of      *)
(* main.rs, heartbeat_loop (update_mesh_map) and the ping loop             *)
(* (run_mesh_ping).                                                        *)
(*                                                                         *)
(* Every field has a lock of its own, so the tasks interleave between      *)
(* reading a field, deciding and each of the three writes of a switch, and *)
(* the ping task may switch by a response that has been replaced since.    *)
(* check_hysteresis holds the lock of the path while it looks at the       *)
(* switches made; a selection reads only what its task holds and the       *)
(* probes, which the ping task alone writes.                               *)
(* Scores are levels: the Controller's hint and the local score of a       *)
(* candidate make a level, a failed probe lowers it by Penalty, and        *)
(* MinGain levels are the 15% a better upstream must gain.  The loop guard *)
(* lets every candidate pass: it compares tiers with max_depth, 2, and     *)
(* candidates are Tier 1.  report_upstream_ok and report_upstream_fail     *)
(* have no caller.                                                         *)
(***************************************************************************)
EXTENDS Integers, Sequences, FiniteSets

CONSTANTS
    Upstream,     \* agents that may be offered
    Origin,       \* no upstream: pull from the origin
    Levels,       \* score levels
    Penalty,      \* what a failed probe costs
    MinGain,      \* what a switch must gain
    Cooldown,     \* 30 s between switches
    Window,       \* 5 minutes
    MaxSwitch     \* in which 3 switches are allowed

ASSUME SelectorAssumption ==
    /\ Origin \notin Upstream
    /\ Levels \subseteq Nat
    /\ {Penalty, MinGain, Cooldown, Window} \subseteq Nat
    /\ MaxSwitch \in Nat \ {0}

VARIABLES
    path,     \* current_path: its upstream and the score it was chosen with
    last,     \* last_mesh_response: {} or {offers}
    hb,       \* the heartbeat task: the response it handles, its decision
    ping,     \* where the ping task is in run_mesh_ping and emergency_switch
    forced,   \* what it is about to switch to, and the candidates it chose from
    probed,   \* candidates being probed
    failed,   \* candidates whose last probe found them unreachable
    since,    \* age of last_switch_at, up to Cooldown
    times,    \* ages of the latest MaxSwitch switches, newest first
    chosen    \* history: ages of the switches made for a better score

vars == <<path, last, hb, ping, forced, probed, failed, since, times, chosen>>

\* Offers are the candidates with the level of each.
Offers == UNION {[C -> Levels] : C \in SUBSET Upstream}
Direct == [up |-> Origin, score |-> 0]
NoHeartbeat == [step |-> "idle", offers |-> << >>, to |-> Direct, gain |-> FALSE]
Cap == Window + 1

TypeOK ==
    /\ path.up \in Upstream \cup {Origin} /\ path.score \in Int
    /\ last = {} \/ \E R \in Offers : last = {R}
    /\ hb.step \in {"idle", "path", "clock", "count", "store"}
    /\ ping \in {"idle", "probing", "checking", "switching", "path", "clock", "count"}
    /\ forced = {} \/ \E F \in [from : SUBSET Upstream, to : [up : Upstream \cup {Origin}, score : Int]] : forced = {F}
    /\ probed \subseteq Upstream
    /\ failed \subseteq Upstream
    /\ since \in 0..Cooldown
    /\ times \in Seq(0..Cap) /\ Len(times) <= MaxSwitch
    /\ chosen \in Seq(0..Cap) /\ Len(chosen) <= MaxSwitch + 1

Init ==
    /\ path = Direct
    /\ last = {}
    /\ hb = NoHeartbeat
    /\ ping = "idle"
    /\ forced = {}
    /\ probed = {}
    /\ failed = {}
    /\ since = Cooldown
    /\ times = << >>
    /\ chosen = << >>

-----------------------------------------------------------------------------
(* Choosing.                                                               *)

LevelOf(R, u) == R[u] - (IF u \in failed THEN Penalty ELSE 0)

\* select_from_candidates: one with the highest score, or none at all.
SelectFromCandidates(R) ==
    IF DOMAIN R = {} THEN {Direct}
    ELSE {[up |-> u, score |-> LevelOf(R, u)] :
            u \in {u \in DOMAIN R : \A w \in DOMAIN R : LevelOf(R, w) <= LevelOf(R, u)}}

\* An entry of a sequence of ages, which keeps the newest max of them.
Push(s, max) == SubSeq(<<0>> \o s, 1, IF Len(s) < max THEN Len(s) + 1 ELSE max)

\* What check_hysteresis retains of the switches: those within the window.
Recent(s) == {i \in DOMAIN s : s[i] <= Window}

\* Fault: the count of switches is off by one.
RationedOffByOne == since >= Cooldown /\ Cardinality(Recent(times)) <= MaxSwitch

\* A switch for a better score is allowed now.
Rationed == since >= Cooldown /\ Cardinality(Recent(times)) < MaxSwitch

\* Both the path and the choice are agents, and not the same one.
OtherAgent(p) == path.up # Origin /\ p.up # Origin /\ p.up # path.up

\* check_hysteresis.
CheckHysteresis(p) ==
    \/ (path.up = Origin) # (p.up = Origin)
    \/ OtherAgent(p) /\ Rationed /\ p.score >= path.score + MinGain

\* apply_path_switch: three writes, each under its own lock.
SetPath(p) == path' = p
SetSwitchedAt == since' = 0
CountSwitch == times' = Push(times, MaxSwitch)

-----------------------------------------------------------------------------
(* The heartbeat task: update_mesh_map.                                    *)

\* With the advice that its upstream is offline the agent switches in any case.
Decide(R, offline) ==
    /\ hb.step = "idle"
    /\ offline => path.up # Origin
    /\ \E p \in SelectFromCandidates(R) :
          hb' = IF offline \/ CheckHysteresis(p)
                THEN [step |-> "path", offers |-> R, to |-> p, gain |-> ~offline /\ OtherAgent(p)]
                ELSE [NoHeartbeat EXCEPT !.step = "store", !.offers = R]
    /\ UNCHANGED <<path, last, ping, forced, probed, failed, since, times, chosen>>

ApplyPath ==
    /\ hb.step = "path"
    /\ SetPath(hb.to)
    /\ hb' = [NoHeartbeat EXCEPT !.step = "clock", !.offers = hb.offers, !.gain = hb.gain]
    /\ chosen' = IF hb.gain THEN Push(chosen, MaxSwitch + 1) ELSE chosen
    /\ UNCHANGED <<last, ping, forced, probed, failed, since, times>>

ApplySwitchedAt ==
    /\ hb.step = "clock"
    /\ SetSwitchedAt
    /\ hb' = [NoHeartbeat EXCEPT !.step = "count", !.offers = hb.offers, !.gain = hb.gain]
    /\ UNCHANGED <<path, last, ping, forced, probed, failed, times, chosen>>

ApplyCount ==
    /\ hb.step = "count"
    /\ CountSwitch
    /\ hb' = [NoHeartbeat EXCEPT !.step = "store", !.offers = hb.offers]
    /\ UNCHANGED <<path, last, ping, forced, probed, failed, since, chosen>>

StoreResponse ==
    /\ hb.step = "store"
    /\ last' = {hb.offers}
    /\ hb' = NoHeartbeat
    /\ UNCHANGED <<path, ping, forced, probed, failed, since, times, chosen>>

-----------------------------------------------------------------------------
(* The ping task: run_mesh_ping.                                           *)

StartPing ==
    /\ ping = "idle"
    /\ \E R \in last : probed' = DOMAIN R
    /\ ping' = "probing"
    /\ UNCHANGED <<path, last, hb, forced, failed, since, times, chosen>>

\* mesh_ping of every candidate.  It fails for an agent that is down, and for
\* one that is up and answers the HEAD request with an error, as agents do.
MeshPing ==
    /\ ping = "probing"
    /\ \E F \in SUBSET probed : failed' = (failed \ probed) \cup F
    /\ ping' = "checking"
    /\ UNCHANGED <<path, last, hb, forced, probed, since, times, chosen>>

CheckUpstream ==
    /\ ping = "checking"
    /\ ping' = IF path.up \in failed THEN "switching" ELSE "idle"
    /\ probed' = {}
    /\ UNCHANGED <<path, last, hb, forced, failed, since, times, chosen>>

\* Fault: the agent tries every upstream it knows of.
EmergencySwitchAnywhere ==
    /\ ping = "switching"
    /\ \E R \in last, u \in Upstream : forced' = {[from |-> DOMAIN R, to |-> [up |-> u, score |-> 0]]}
    /\ ping' = "path"
    /\ UNCHANGED <<path, last, hb, probed, failed, since, times, chosen>>

\* emergency_switch takes a copy of the stored response, of which there is one,
\* as probes were made, and selects from it;
EmergencySwitch ==
    /\ ping = "switching"
    /\ \E R \in last : \E p \in SelectFromCandidates(R) : forced' = {[from |-> DOMAIN R, to |-> p]}
    /\ ping' = "path"
    /\ UNCHANGED <<path, last, hb, probed, failed, since, times, chosen>>

\* the switch follows, whatever the heartbeat task has stored or chosen since.
ForcePath ==
    /\ ping = "path"
    /\ \E F \in forced : SetPath(F.to)
    /\ forced' = {}
    /\ ping' = "clock"
    /\ UNCHANGED <<last, hb, probed, failed, since, times, chosen>>

ForceSwitchedAt ==
    /\ ping = "clock"
    /\ SetSwitchedAt
    /\ ping' = "count"
    /\ UNCHANGED <<path, last, hb, forced, probed, failed, times, chosen>>

ForceCount ==
    /\ ping = "count"
    /\ CountSwitch
    /\ ping' = "idle"
    /\ UNCHANGED <<path, last, hb, forced, probed, failed, since, chosen>>

\* A probe that was not repeated is too old to be used.
ExpireProbe(u) ==
    /\ u \in failed
    /\ \A R \in last : u \notin DOMAIN R
    /\ ping # "checking"
    /\ failed' = failed \ {u}
    /\ UNCHANGED <<path, last, hb, ping, forced, probed, since, times, chosen>>

Older(s) == [i \in DOMAIN s |-> IF s[i] = Cap THEN Cap ELSE s[i] + 1]

Tick ==
    /\ since' = IF since = Cooldown THEN since ELSE since + 1
    /\ times' = Older(times)
    /\ chosen' = Older(chosen)
    /\ UNCHANGED <<path, last, hb, ping, forced, probed, failed>>

Next ==
    \/ \E R \in Offers, offline \in BOOLEAN : Decide(R, offline)
    \/ ApplyPath \/ ApplySwitchedAt \/ ApplyCount \/ StoreResponse
    \/ StartPing \/ MeshPing \/ CheckUpstream
    \/ EmergencySwitch \/ ForcePath \/ ForceSwitchedAt \/ ForceCount
    \/ Tick
    \/ \E u \in Upstream : ExpireProbe(u)

Spec == Init /\ [][Next]_vars
-----------------------------------------------------------------------------
(* Properties.                                                             *)

\* Switches for a better score are at least a cool-down apart and no more than
\* MaxSwitch of them are made in a window, though the ping task makes others in
\* between, a decision may be carried out late and a switch is noted later than
\* it is made.
ScoreSwitchesAreRationed ==
    /\ Len(chosen) >= 2 => chosen[2] = Cap \/ chosen[2] - chosen[1] >= Cooldown
    /\ Len(chosen) > MaxSwitch => chosen[MaxSwitch + 1] > Window

\* The agent never uses an upstream other than the origin and those offered by
\* the response it handles or by the one that was stored when the ping task took
\* its copy, once for each copy, however the two tasks interleave.
Choice == INSTANCE UpstreamChoice WITH
    handled <- IF hb.step = "idle" THEN {} ELSE {DOMAIN hb.offers},
    stored  <- {DOMAIN R : R \in last},
    held    <- {F.from : F \in forced},
    choice  <- path.up
ImplementsChoice == Choice!ChoiceSpec
=============================================================================
