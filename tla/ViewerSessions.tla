--------------------------- MODULE ViewerSessions ---------------------------
(***************************************************************************)
(* Viewer sessions and their latency mode: the sessions map of MemoryStore *)
(* (internal/controller/store.go), handleQualityReport, handleEndSession   *)
(* and the session part of handleDispatch and cleanupLoop (server.go), and *)
(* the LatencyController (internal/controller/latency_controller.go).      *)
(*                                                                         *)
(* The two maps are guarded by different mutexes.  A quality report first  *)
(* touches the session and later, in another critical section, updates the *)
(* latency state, so a session may end in between.  Times are ages, with   *)
(* None for the zero time.  SetOverride has no caller and is left out.     *)
(***************************************************************************)
EXTENDS Integers

CONSTANTS
    Session,         \* session ids (random, never reused)
    Report,          \* quality reports being handled
    SessionTimeout,  \* 90 s without activity
    StallTime,       \* 30 s of stalling: downgrade
    StableTime,      \* 120 s without stalling: upgrade
    Hour             \* the age at which latency state is dropped

ASSUME ConstAssumption ==
    /\ SessionTimeout \in Nat
    /\ StallTime \in Nat \ {0}
    /\ StableTime \in Nat
    /\ Hour \in Nat
    /\ StallTime < Hour
    /\ StableTime < Hour

VARIABLES
    session,  \* "new", "active" or "gone": the store's sessions map
    idle,     \* age of LastActive of an active session
    mode,     \* degradeState.currentMode, or "absent": no latency state
    stall,    \* age of stallStart, or None
    stable,   \* age of stableStart, or None
    rep,      \* reports between TouchSession and ProcessQualityReport
    badRun,   \* history: age of the uninterrupted run of stalled reports
    badAge,   \* history: age of the last stalled report
    downed    \* history: sessions whose latest report moved the mode down

vars == <<session, idle, mode, stall, stable, rep, badRun, badAge, downed>>

None == -1
Mode == {"ultra", "standard", "resilient"}
Cap == Hour + 1
Timer == {None} \cup 0..Cap
NoReport == [of |-> {}, bad |-> FALSE]

TypeOK ==
    /\ session \in [Session -> {"new", "active", "gone"}]
    /\ idle \in [Session -> 0..SessionTimeout + 1]
    /\ mode \in [Session -> Mode \cup {"absent"}]
    /\ stall \in [Session -> Timer]
    /\ stable \in [Session -> Timer]
    /\ rep \in [Report -> [of : SUBSET Session, bad : BOOLEAN]]
    /\ badRun \in [Session -> Timer]
    /\ badAge \in [Session -> 0..Cap]
    /\ downed \subseteq Session
    /\ \A s \in Session : mode[s] = "absent" => stall[s] = None /\ stable[s] = None

Init ==
    /\ session = [s \in Session |-> "new"]
    /\ idle = [s \in Session |-> 0]
    /\ mode = [s \in Session |-> "absent"]
    /\ stall = [s \in Session |-> None]
    /\ stable = [s \in Session |-> None]
    /\ rep = [q \in Report |-> NoReport]
    /\ badRun = [s \in Session |-> None]
    /\ badAge = [s \in Session |-> Cap]
    /\ downed = {}

latencyVars == <<mode, stall, stable>>
historyVars == <<badRun, badAge, downed>>

\* AutoDowngradeRules and AutoUpgradeRules.
Downgrade(m) == IF m = "ultra" THEN "standard" ELSE "resilient"
Upgrade(m) == IF m = "resilient" THEN "standard" ELSE "ultra"

\* GetSessionMode: no latency state means ultra.
GetSessionMode(s) == IF mode[s] = "absent" THEN "ultra" ELSE mode[s]
Rank(m) == CASE m = "ultra" -> 0 [] m = "standard" -> 1 [] m = "resilient" -> 2

-----------------------------------------------------------------------------
(* The session table.                                                      *)

\* handleDispatch, once nodes were found.
CreateSession(s) ==
    /\ session[s] = "new"
    /\ session' = [session EXCEPT ![s] = "active"]
    /\ idle' = [idle EXCEPT ![s] = 0]
    /\ UNCHANGED <<latencyVars, rep, historyVars>>

\* handleEndSession: the latency state of the session stays.
EndSession(s) ==
    /\ session[s] = "active"
    /\ session' = [session EXCEPT ![s] = "gone"]
    /\ idle' = [idle EXCEPT ![s] = 0]
    /\ UNCHANGED <<latencyVars, rep, historyVars>>

\* Fault: the limit is compared with the wrong age.
IsIdleNever(s) == session[s] = "active" /\ idle[s] > SessionTimeout + 1

IsIdle(s) == session[s] = "active" /\ idle[s] > SessionTimeout

RemoveStaleSessions ==
    /\ \E s \in Session : IsIdle(s)
    /\ session' = [s \in Session |-> IF IsIdle(s) THEN "gone" ELSE session[s]]
    /\ idle' = [s \in Session |-> IF IsIdle(s) THEN 0 ELSE idle[s]]
    /\ UNCHANGED <<latencyVars, rep, historyVars>>

-----------------------------------------------------------------------------
(* A quality report.                                                       *)

\* First half of handleQualityReport; an unknown session is answered 404.
TouchSession(q, s, bad) ==
    /\ rep[q].of = {}
    /\ session[s] = "active"
    /\ idle' = [idle EXCEPT ![s] = 0]
    /\ rep' = [rep EXCEPT ![q] = [of |-> {s}, bad |-> bad]]
    /\ UNCHANGED <<session, latencyVars, historyVars>>

\* Fault: sustained stalling goes straight to the last mode.
StalledReportToLast(s) ==
    LET start == IF stall[s] = None THEN 0 ELSE stall[s]
        next  == IF start >= StallTime THEN "resilient" ELSE GetSessionMode(s)
    IN  /\ mode' = [mode EXCEPT ![s] = next]
        /\ stall' = [stall EXCEPT ![s] = start]
        /\ stable' = [stable EXCEPT ![s] = None]
        /\ badRun' = [badRun EXCEPT ![s] = IF @ = None THEN 0 ELSE @]
        /\ badAge' = [badAge EXCEPT ![s] = 0]
        /\ downed' = downed \ {s}

\* A stalled report (stallRate > 5%): the stall clock starts or goes on, and
\* at StallTime it moves the mode one step and starts over.
StalledReport(s) ==
    LET start == IF stall[s] = None THEN 0 ELSE stall[s]
        down  == start >= StallTime /\ Downgrade(GetSessionMode(s)) # GetSessionMode(s)
    IN  /\ mode' = [mode EXCEPT ![s] = IF down THEN Downgrade(GetSessionMode(s)) ELSE GetSessionMode(s)]
        /\ stall' = [stall EXCEPT ![s] = IF down THEN None ELSE start]
        /\ stable' = [stable EXCEPT ![s] = None]
        /\ badRun' = [badRun EXCEPT ![s] = IF @ = None THEN 0 ELSE @]
        /\ badAge' = [badAge EXCEPT ![s] = 0]
        /\ downed' = IF down THEN downed \cup {s} ELSE downed \ {s}

\* Fault: a smooth report leaves the stall clock running.
SmoothReportKeepsStall(s) ==
    /\ mode' = [mode EXCEPT ![s] = GetSessionMode(s)]
    /\ stable' = [stable EXCEPT ![s] = IF @ = None THEN 0 ELSE @]
    /\ badRun' = [badRun EXCEPT ![s] = None]
    /\ downed' = downed \ {s}
    /\ UNCHANGED <<stall, badAge>>

\* A report without stalling: the stable clock starts, unless it runs already,
\* and the stall clock is cleared.
SmoothReport(s) ==
    /\ mode' = [mode EXCEPT ![s] = GetSessionMode(s)]
    /\ stall' = [stall EXCEPT ![s] = None]
    /\ stable' = [stable EXCEPT ![s] = IF @ = None THEN 0 ELSE @]
    /\ badRun' = [badRun EXCEPT ![s] = None]
    /\ downed' = downed \ {s}
    /\ UNCHANGED badAge

\* Second half of handleQualityReport; latency state is made if there is none.
ProcessQualityReport(q) ==
    /\ \E s \in rep[q].of : IF rep[q].bad THEN StalledReport(s) ELSE SmoothReport(s)
    /\ rep' = [rep EXCEPT ![q] = NoReport]
    /\ UNCHANGED <<session, idle>>

-----------------------------------------------------------------------------
(* The ten-second check of the latency controller.                         *)

\* Fault: any running stable clock is enough.
CanUpgradeEarly(s) ==
    /\ mode[s] # "absent"
    /\ stable[s] # None
    /\ Upgrade(mode[s]) # mode[s]

CanUpgrade(s) ==
    /\ mode[s] # "absent"
    /\ stable[s] >= StableTime
    /\ Upgrade(mode[s]) # mode[s]

\* Fault: the stable clock is not restarted by an upgrade.
StableAfterUpgradeKept(s) == stable[s]

StableAfterUpgrade(s) == IF CanUpgrade(s) THEN 0 ELSE stable[s]

\* Latency state is dropped when neither clock runs, or when the stable clock
\* (as the upgrade pass left it) is more than an hour old.
Dropped(s) ==
    \/ StableAfterUpgrade(s) = None /\ stall[s] = None
    \/ StableAfterUpgrade(s) > Hour

CheckAndAdjust ==
    /\ mode' = [s \in Session |-> IF Dropped(s) THEN "absent"
                                  ELSE IF CanUpgrade(s) THEN Upgrade(mode[s]) ELSE mode[s]]
    /\ stall' = [s \in Session |-> IF Dropped(s) THEN None ELSE stall[s]]
    /\ stable' = [s \in Session |-> IF Dropped(s) THEN None ELSE StableAfterUpgrade(s)]
    /\ UNCHANGED <<session, idle, rep, historyVars>>

Older(a) == IF a = None \/ a = Cap THEN a ELSE a + 1

Tick ==
    /\ idle' = [s \in Session |->
                  IF session[s] = "active" /\ idle[s] <= SessionTimeout
                  THEN idle[s] + 1 ELSE idle[s]]
    /\ stall' = [s \in Session |-> Older(stall[s])]
    /\ stable' = [s \in Session |-> Older(stable[s])]
    /\ badRun' = [s \in Session |-> Older(badRun[s])]
    /\ badAge' = [s \in Session |-> Older(badAge[s])]
    /\ UNCHANGED <<session, mode, rep, downed>>

Next ==
    \/ \E s \in Session : CreateSession(s) \/ EndSession(s)
    \/ RemoveStaleSessions
    \/ \E q \in Report, s \in Session, bad \in BOOLEAN : TouchSession(q, s, bad)
    \/ \E q \in Report : ProcessQualityReport(q)
    \/ CheckAndAdjust
    \/ Tick

\* The clock, both tickers, and the handlers that have begun keep going.
Fairness ==
    /\ WF_vars(Tick)
    /\ WF_vars(RemoveStaleSessions)
    /\ WF_vars(CheckAndAdjust)
    /\ \A q \in Report : WF_vars(ProcessQualityReport(q))

Spec == Init /\ [][Next]_vars
FairSpec == Spec /\ Fairness
-----------------------------------------------------------------------------
(* Properties.                                                             *)

\* The stall clock and the stable clock of a session never run together, so no
\* session is due for a downgrade and for an upgrade at the same time, whatever
\* order its reports and the periodic check run in.
OneClock == \A s \in Session : stall[s] = None \/ stable[s] = None

\* The mode of a session gets worse one step at a time, and only when reports
\* have stalled without interruption for StallTime, however the reports of one
\* session overlap, and whether or not its state was dropped in between.
DowngradeNeedsSustainedStall ==
    [][\A s \in Session : Rank(GetSessionMode(s)') > Rank(GetSessionMode(s)) =>
          /\ badRun[s] >= StallTime
          /\ Rank(GetSessionMode(s)') = Rank(GetSessionMode(s)) + 1]_vars

\* The mode of a session gets better in two ways only: by one step, when the
\* last stalled report is at least StableTime old, or all the way to ultra, when
\* the check drops the state of a session whose latest report moved it down
\* (that report clears both clocks).  No overlap of reports with checks, no idle
\* time and no hour-old clock improves it otherwise.
UpgradeNeedsStability ==
    [][\A s \in Session : Rank(GetSessionMode(s)') < Rank(GetSessionMode(s)) =>
          \/ /\ badAge[s] >= StableTime
             /\ Rank(GetSessionMode(s)') = Rank(GetSessionMode(s)) - 1
          \/ mode'[s] = "absent" /\ s \in downed]_vars

\* What latency_controller.go:13-15 says of the controller: once the stalling is
\* over, the mode recovers step by step.  The code does not: a report that moves
\* the mode down leaves both clocks unset, so the next check takes the state for
\* an expired one and the session is ultra at once, the stalling still going on.
RecoveryIsGradual ==
    [][\A s \in Session : Rank(GetSessionMode(s)') < Rank(GetSessionMode(s)) =>
          /\ badAge[s] >= StableTime
          /\ Rank(GetSessionMode(s)') = Rank(GetSessionMode(s)) - 1]_vars

\* The hour-old state the check drops is never a degraded one: a session whose
\* mode is worse than ultra is upgraded by the same pass, which restarts the
\* clock.
HourOldIsUltra ==
    [][CheckAndAdjust =>
          \A s \in Session : stable[s] > Hour /\ mode'[s] = "absent" => mode[s] \in {"ultra", "absent"}]_vars

\* A session whose viewer disappears is eventually removed from the store.
SilentSessionRemoved ==
    \A s \in Session : (session[s] = "active") ~> (session[s] = "gone" \/ idle[s] = 0)
=============================================================================
