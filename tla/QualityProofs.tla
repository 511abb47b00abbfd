--------------------------- MODULE QualityProofs ----------------------------
(***************************************************************************)
(* Proofs about what quality reports do: to the session they name          *)
(* (ViewerSessions), for every set of sessions and of reports in flight,   *)
(* and to the node that serves it (NodePenalties), for any set of nodes;   *)
(* both for all limits that satisfy the assumptions of their modules.      *)
(***************************************************************************)
EXTENDS ViewerSessions, NodePenalties, SequenceTheorems, TLAPS

-----------------------------------------------------------------------------
(* Sessions.                                                               *)

\* What the history variables know: the stall clock is never older than the run
\* of stalled reports it measures, the stable clock never older than the time
\* since the last stalled report.
ClocksAreHonest ==
    \A s \in Session :
        /\ stall[s] # None => badRun[s] # None /\ badRun[s] >= stall[s]
        /\ stable[s] # None => badAge[s] >= stable[s]

\* A state with neither clock running is one that the latest report moved down.
IdleIsDowned ==
    \A s \in Session :
        mode[s] # "absent" /\ stall[s] = None /\ stable[s] = None => s \in downed

ClockInv == TypeOK /\ OneClock /\ ClocksAreHonest /\ IdleIsDowned

\* The next two lemmas give the latency state after each kind of report.
LEMMA StalledKeeps ==
  ASSUME ClockInv, NEW s \in Session, StalledReport(s)
  PROVE  /\ mode' \in [Session -> Mode \cup {"absent"}]
         /\ stall' \in [Session -> Timer]
         /\ stable' \in [Session -> Timer]
         /\ badRun' \in [Session -> Timer]
         /\ badAge' \in [Session -> 0..Cap]
         /\ downed' \subseteq Session
         /\ \A t \in Session : mode'[t] = "absent" => stall'[t] = None /\ stable'[t] = None
         /\ OneClock'
         /\ ClocksAreHonest'
         /\ IdleIsDowned'
BY ConstAssumption DEF ClockInv, TypeOK, OneClock, ClocksAreHonest, IdleIsDowned, StalledReport,
     Downgrade, GetSessionMode, Mode, Timer, None, Cap

LEMMA SmoothKeeps ==
  ASSUME ClockInv, NEW s \in Session, SmoothReport(s)
  PROVE  /\ mode' \in [Session -> Mode \cup {"absent"}]
         /\ stall' \in [Session -> Timer]
         /\ stable' \in [Session -> Timer]
         /\ badRun' \in [Session -> Timer]
         /\ badAge' \in [Session -> 0..Cap]
         /\ downed' \subseteq Session
         /\ \A t \in Session : mode'[t] = "absent" => stall'[t] = None /\ stable'[t] = None
         /\ OneClock'
         /\ ClocksAreHonest'
         /\ IdleIsDowned'
BY ConstAssumption DEF ClockInv, TypeOK, OneClock, ClocksAreHonest, IdleIsDowned, SmoothReport,
     GetSessionMode, Mode, Timer, None, Cap

\* A clock that is not running stays so, and ageing keeps the order of two clocks.
LEMMA OlderKeeps ==
  /\ \A a \in Timer : Older(a) \in Timer /\ (Older(a) = None <=> a = None)
  /\ \A a \in 0..Cap : Older(a) \in 0..Cap
  /\ \A a, b \in Timer : a # None /\ b # None /\ b >= a => Older(b) >= Older(a)
BY ConstAssumption DEF Older, Timer, None, Cap

\* The clocks are honest in every reachable state, the invariant being inductive:
\* one case per action.
LEMMA ClockInvHolds == Spec => []ClockInv
<1>1. Init => ClockInv
  BY ConstAssumption DEF Init, ClockInv, TypeOK, OneClock, ClocksAreHonest, IdleIsDowned, NoReport,
       Mode, Timer, None, Cap
<1>2. ClockInv /\ [Next]_vars => ClockInv'
  <2> SUFFICES ASSUME ClockInv, [Next]_vars
               PROVE  ClockInv'
    OBVIOUS
  <2>1. ASSUME NEW s \in Session, CreateSession(s)
        PROVE  ClockInv'
    BY <2>1, ConstAssumption DEF ClockInv, TypeOK, OneClock, ClocksAreHonest, IdleIsDowned, CreateSession,
         latencyVars, historyVars
  <2>2. ASSUME NEW s \in Session, EndSession(s)
        PROVE  ClockInv'
    BY <2>2, ConstAssumption DEF ClockInv, TypeOK, OneClock, ClocksAreHonest, IdleIsDowned, EndSession,
         latencyVars, historyVars
  <2>3. CASE RemoveStaleSessions
    BY <2>3, ConstAssumption DEF ClockInv, TypeOK, OneClock, ClocksAreHonest, IdleIsDowned,
         RemoveStaleSessions, IsIdle, latencyVars, historyVars
  <2>4. ASSUME NEW q \in Report, NEW s \in Session, NEW bad \in BOOLEAN, TouchSession(q, s, bad)
        PROVE  ClockInv'
    BY <2>4, ConstAssumption DEF ClockInv, TypeOK, OneClock, ClocksAreHonest, IdleIsDowned, TouchSession,
         latencyVars, historyVars
  <2>5. ASSUME NEW q \in Report, ProcessQualityReport(q)
        PROVE  ClockInv'
    <3>1. PICK s \in Session : IF rep[q].bad THEN StalledReport(s) ELSE SmoothReport(s)
      BY <2>5 DEF ProcessQualityReport, ClockInv, TypeOK
    <3>2. rep' \in [Report -> [of : SUBSET Session, bad : BOOLEAN]]
      BY <2>5 DEF ProcessQualityReport, NoReport, ClockInv, TypeOK
    <3>3. session' \in [Session -> {"new", "active", "gone"}] /\ idle' \in [Session -> 0..SessionTimeout + 1]
      BY <2>5 DEF ProcessQualityReport, ClockInv, TypeOK
    <3>4. CASE StalledReport(s)
      BY <3>2, <3>3, <3>4, StalledKeeps DEF ClockInv, TypeOK
    <3>5. CASE SmoothReport(s)
      BY <3>2, <3>3, <3>5, SmoothKeeps DEF ClockInv, TypeOK
    <3> QED
      BY <3>1, <3>4, <3>5
  <2>6. CASE CheckAndAdjust
    <3>1. /\ mode' \in [Session -> Mode \cup {"absent"}]
          /\ stall' \in [Session -> Timer]
          /\ stable' \in [Session -> Timer]
      BY <2>6, ConstAssumption DEF CheckAndAdjust, CanUpgrade, Upgrade, StableAfterUpgrade,
           ClockInv, TypeOK, Mode, Timer, None, Cap
    <3>2. \A s \in Session :
             /\ mode'[s] = "absent" => stall'[s] = None /\ stable'[s] = None
             /\ stall'[s] \in {None, stall[s]}
             /\ stable'[s] \in {None, stable[s], 0}
             /\ stable[s] = None => stable'[s] = None
             /\ stall'[s] = None /\ stable'[s] = None => mode'[s] = "absent"
      BY <2>6, ConstAssumption DEF CheckAndAdjust, Dropped, CanUpgrade, Upgrade,
           StableAfterUpgrade, ClockInv, TypeOK, Mode, Timer, None, Cap
    <3>3. OneClock' /\ ClocksAreHonest' /\ IdleIsDowned'
      BY <2>6, <3>2, ConstAssumption DEF CheckAndAdjust, historyVars, ClockInv, TypeOK,
           OneClock, ClocksAreHonest, IdleIsDowned, Timer, None, Cap
    <3> QED
      BY <2>6, <3>1, <3>2, <3>3 DEF CheckAndAdjust, historyVars, ClockInv, TypeOK
  <2>7. CASE Tick
    <3>1. idle' \in [Session -> 0..SessionTimeout + 1]
      BY <2>7, ConstAssumption DEF Tick, ClockInv, TypeOK
    <3>2. /\ stall' \in [Session -> Timer]
          /\ stable' \in [Session -> Timer]
          /\ badRun' \in [Session -> Timer]
          /\ badAge' \in [Session -> 0..Cap]
      BY <2>7, OlderKeeps DEF Tick, ClockInv, TypeOK, Timer
    <3>3. TypeOK'
      BY <2>7, <3>1, <3>2, OlderKeeps DEF Tick, ClockInv, TypeOK
    <3>4. \A s \in Session : /\ stall'[s] = Older(stall[s]) /\ stable'[s] = Older(stable[s])
                             /\ badRun'[s] = Older(badRun[s]) /\ badAge'[s] = Older(badAge[s])
      BY <2>7 DEF Tick
    <3>5. \A s \in Session : stall[s] \in Timer /\ stable[s] \in Timer /\ badRun[s] \in Timer
                             /\ badAge[s] \in 0..Cap
      BY DEF ClockInv, TypeOK
    <3>6. OneClock'
      BY <3>4, <3>5, OlderKeeps DEF ClockInv, OneClock
    <3>7. \A s \in Session : badAge[s] \in Timer /\ badAge[s] # None
      BY <3>5, ConstAssumption DEF Timer, None, Cap
    <3>8. ClocksAreHonest'
      BY <3>4, <3>5, <3>7, OlderKeeps DEF ClockInv, ClocksAreHonest
    <3>9. IdleIsDowned'
      BY <2>7, <3>4, <3>5, OlderKeeps DEF Tick, ClockInv, IdleIsDowned
    <3> QED
      BY <3>3, <3>6, <3>8, <3>9 DEF ClockInv
  <2>8. CASE UNCHANGED vars
    BY <2>8 DEF vars, ClockInv, TypeOK, OneClock, ClocksAreHonest, IdleIsDowned
  <2> QED
    BY <2>1, <2>2, <2>3, <2>4, <2>5, <2>6, <2>7, <2>8 DEF Next
<1> QED
  BY <1>1, <1>2, PTL DEF Spec

\* The stall clock and the stable clock of a session never run together, in any
\* interleaving of reports with the ten-second check (latency_controller.go).
THEOREM OneClockAtATime == Spec => [](TypeOK /\ OneClock)
<1>1. ClockInv => TypeOK /\ OneClock
  BY DEF ClockInv
<1> QED
  BY <1>1, ClockInvHolds, PTL

\* A session gets a worse mode one step at a time, and only after reports have
\* stalled without interruption for StallTime (ProcessQualityReport).
THEOREM DowngradeIsEarned == Spec => DowngradeNeedsSustainedStall
<1> DEFINE Earned == \A s \in Session : Rank(GetSessionMode(s)') > Rank(GetSessionMode(s)) =>
                        /\ badRun[s] >= StallTime
                        /\ Rank(GetSessionMode(s)') = Rank(GetSessionMode(s)) + 1
<1>1. ASSUME ClockInv, [Next]_vars
      PROVE  [Earned]_vars
  <2>1. CASE mode' = mode
    BY <1>1, <2>1 DEF GetSessionMode, Rank, ClockInv, TypeOK, Mode
  <2>2. ASSUME NEW q \in Report, ProcessQualityReport(q)
        PROVE  Earned
    <3>1. PICK s \in Session : IF rep[q].bad THEN StalledReport(s) ELSE SmoothReport(s)
      BY <1>1, <2>2 DEF ProcessQualityReport, ClockInv, TypeOK
    <3>2. \A t \in Session : GetSessionMode(t) \in Mode
      BY <1>1 DEF GetSessionMode, ClockInv, TypeOK, Mode
    <3>3. CASE StalledReport(s)
      <4>1. \A t \in Session \ {s} : mode'[t] = mode[t]
        BY <1>1, <3>3 DEF StalledReport, ClockInv, TypeOK
      <4>2. \/ mode'[s] = GetSessionMode(s)
            \/ /\ stall[s] # None /\ stall[s] >= StallTime
               /\ mode'[s] = Downgrade(GetSessionMode(s))
        BY <1>1, <3>3, ConstAssumption DEF StalledReport, ClockInv, TypeOK
      <4>3. stall[s] # None => stall[s] \in Int /\ badRun[s] \in Int /\ badRun[s] >= stall[s]
        BY <1>1, ConstAssumption DEF ClockInv, TypeOK, ClocksAreHonest, Timer, None, Cap
      <4>4. stall[s] # None /\ stall[s] >= StallTime => badRun[s] >= StallTime
        BY <4>3, ConstAssumption
      <4>5. Rank(GetSessionMode(s)') > Rank(GetSessionMode(s)) =>
               /\ badRun[s] >= StallTime
               /\ Rank(GetSessionMode(s)') = Rank(GetSessionMode(s)) + 1
        BY <3>2, <4>2, <4>4 DEF GetSessionMode, Downgrade, Rank, Mode
      <4>6. \A t \in Session \ {s} : Rank(GetSessionMode(t)') = Rank(GetSessionMode(t))
                                   /\ Rank(GetSessionMode(t)) \in Int
        BY <3>2, <4>1 DEF GetSessionMode, Rank, Mode
      <4> QED
        BY <4>5, <4>6
    <3>4. CASE SmoothReport(s)
      <4>1. \A t \in Session : GetSessionMode(t)' = GetSessionMode(t)
        BY <1>1, <3>4 DEF SmoothReport, GetSessionMode, ClockInv, TypeOK
      <4> QED
        BY <3>2, <4>1 DEF Rank, Mode
    <3> QED
      BY <3>1, <3>3, <3>4
  <2>3. CASE CheckAndAdjust
    <3>1. \A s \in Session : mode'[s] \in {"absent", "ultra", mode[s], Upgrade(mode[s])}
      BY <2>3 DEF CheckAndAdjust
    <3> QED
      BY <1>1, <3>1 DEF GetSessionMode, Upgrade, Rank, ClockInv, TypeOK, Mode
  <2>4. CASE UNCHANGED vars
    BY <2>4
  <2> QED
    BY <1>1, <2>1, <2>2, <2>3, <2>4 DEF Next, CreateSession, EndSession, RemoveStaleSessions,
         TouchSession, Tick, latencyVars
<1> QED
  BY <1>1, ClockInvHolds, PTL DEF Spec, DowngradeNeedsSustainedStall

\* A session gets a better mode by one step, the last stalled report being at
\* least StableTime old, or else because the check dropped the state its latest
\* report had moved down (checkAndAdjust); nothing else improves it.
THEOREM UpgradeIsEarned == Spec => UpgradeNeedsStability
<1> DEFINE Earned == \A s \in Session :
                        Rank(GetSessionMode(s)') < Rank(GetSessionMode(s)) =>
                          \/ /\ badAge[s] >= StableTime
                             /\ Rank(GetSessionMode(s)') = Rank(GetSessionMode(s)) - 1
                          \/ mode'[s] = "absent" /\ s \in downed
<1>1. ASSUME ClockInv, [Next]_vars
      PROVE  [Earned]_vars
  <2>1. CASE mode' = mode
    BY <1>1, <2>1 DEF GetSessionMode, Rank, ClockInv, TypeOK, Mode
  <2>2. ASSUME NEW q \in Report, ProcessQualityReport(q)
        PROVE  Earned
    <3>1. PICK s \in Session : IF rep[q].bad THEN StalledReport(s) ELSE SmoothReport(s)
      BY <1>1, <2>2 DEF ProcessQualityReport, ClockInv, TypeOK
    <3>2. /\ mode'[s] \in {GetSessionMode(s), Downgrade(GetSessionMode(s))}
          /\ \A t \in Session \ {s} : mode'[t] = mode[t]
      BY <1>1, <3>1 DEF StalledReport, SmoothReport, ClockInv, TypeOK
    <3> QED
      BY <1>1, <3>2 DEF GetSessionMode, Downgrade, Rank, ClockInv, TypeOK, Mode
  <2>3. CASE CheckAndAdjust
    <3> SUFFICES ASSUME NEW s \in Session,
                        Rank(GetSessionMode(s)') < Rank(GetSessionMode(s))
                 PROVE  \/ /\ badAge[s] >= StableTime
                           /\ Rank(GetSessionMode(s)') = Rank(GetSessionMode(s)) - 1
                        \/ mode'[s] = "absent" /\ s \in downed
      OBVIOUS
    <3>1. mode[s] \in {"standard", "resilient"}
      BY <1>1, <2>3 DEF CheckAndAdjust, GetSessionMode, Upgrade, Rank, ClockInv, TypeOK, Mode
    <3>2. CASE CanUpgrade(s)
      <4>1. stable[s] \in Int /\ badAge[s] \in Int /\ stable[s] # None /\ stable[s] >= StableTime
        BY <1>1, <3>2, ConstAssumption DEF CanUpgrade, ClockInv, TypeOK, Timer, None, Cap
      <4>2. badAge[s] >= StableTime
        BY <1>1, <4>1, ConstAssumption DEF ClockInv, ClocksAreHonest
      <4>3. ~Dropped(s)
        BY <3>2, ConstAssumption DEF Dropped, StableAfterUpgrade, None
      <4>4. mode'[s] = Upgrade(mode[s])
        BY <2>3, <3>2, <4>3 DEF CheckAndAdjust
      <4> QED
        BY <3>1, <4>2, <4>4 DEF Upgrade, GetSessionMode, Rank
    <3>3. CASE ~CanUpgrade(s)
      <4>1. Dropped(s) /\ mode'[s] = "absent"
        BY <2>3, <3>1, <3>3 DEF CheckAndAdjust, GetSessionMode, Rank
      <4>2. ~(stable[s] > Hour)
        <5>1. stable[s] \in Int
          BY <1>1, ConstAssumption DEF ClockInv, TypeOK, Timer, None, Cap
        <5> QED
          BY <3>1, <3>3, <5>1, ConstAssumption DEF CanUpgrade, Upgrade
      <4>3. stable[s] = None /\ stall[s] = None
        BY <3>3, <4>1, <4>2 DEF Dropped, StableAfterUpgrade
      <4> QED
        BY <1>1, <3>1, <4>1, <4>3 DEF ClockInv, IdleIsDowned
    <3> QED
      BY <3>2, <3>3
  <2>4. CASE UNCHANGED vars
    BY <2>4
  <2> QED
    BY <1>1, <2>1, <2>2, <2>3, <2>4 DEF Next, CreateSession, EndSession, RemoveStaleSessions,
         TouchSession, Tick, latencyVars
<1> QED
  BY <1>1, ClockInvHolds, PTL DEF Spec, UpgradeNeedsStability

\* For all limits with StableTime < Hour, the pass that drops hour-old state
\* upgrades a degraded session first and so keeps it (checkAndAdjust).
THEOREM HourOldStateIsUltra == Spec => HourOldIsUltra
<1>1. ASSUME ClockInv, CheckAndAdjust, NEW s \in Session, stable[s] > Hour, mode'[s] = "absent"
      PROVE  mode[s] \in {"ultra", "absent"}
  <2> SUFFICES ASSUME mode[s] \in {"standard", "resilient"}
               PROVE  FALSE
    BY <1>1 DEF ClockInv, TypeOK, Mode
  <2>1. stable[s] \in Int /\ stable[s] >= StableTime
    BY <1>1, ConstAssumption DEF ClockInv, TypeOK, Timer, None, Cap
  <2>2. CanUpgrade(s) /\ Upgrade(mode[s]) # "absent"
    BY <2>1 DEF CanUpgrade, Upgrade
  <2>3. ~Dropped(s)
    BY <2>2, ConstAssumption DEF Dropped, StableAfterUpgrade, None
  <2> QED
    BY <1>1, <2>2, <2>3 DEF CheckAndAdjust
<1>2. ClockInv =>
        [CheckAndAdjust =>
            \A s \in Session : stable[s] > Hour /\ mode'[s] = "absent" => mode[s] \in {"ultra", "absent"}]_vars
  BY <1>1
<1> QED
  BY <1>2, ClockInvHolds, PTL DEF HourOldIsUltra

-----------------------------------------------------------------------------
(* Ejections.                                                              *)

\* Failures in a row are counted no higher than they came.
FailsAreReal ==
    /\ fails \in [Node -> 0..Threshold]
    /\ streak \in [Node -> 0..Threshold]
    /\ left \in [Node -> Int]
    /\ ejects \in [Node -> Nat]
    /\ \A n \in Node : fails[n] <= streak[n]

\* A failure keeps the two counts in step, and one that ejects is the last of
\* Threshold of them.
LEMMA FailureCounts ==
  ASSUME FailsAreReal, NEW n \in Node, ReportNodeFail(n)
  PROVE  /\ FailsAreReal'
         /\ \A m \in Node : left'[m] > left[m] => streak'[m] = Threshold
<1>1. Threshold \in Nat \ {0} /\ BaseTime \in Nat \ {0} /\ MaxTime \in Nat /\ MaxEjects \in Nat
  BY OutlierAssumption DEF MaxEjects
<1> DEFINE e == Smaller(ejects[n] + 1, MaxEjects)
<1>2. e \in Nat
  BY <1>1 DEF FailsAreReal, Smaller
<1>3. Ejected(n, e) \in Int
  <2>1. BaseTime * e \in Int
    BY <1>1, <1>2
  <2> QED
    BY <1>1, <2>1 DEF Ejected, Smaller
<1>4. /\ fails' = [fails EXCEPT ![n] = Smaller(@ + 1, Threshold)]
      /\ streak' = [streak EXCEPT ![n] = Smaller(@ + 1, Threshold)]
      /\ ejects' = [ejects EXCEPT ![n] = IF Reached(n) THEN e ELSE @]
      /\ left' = [left EXCEPT ![n] = IF Reached(n) THEN Ejected(n, e) ELSE @]
  BY DEF ReportNodeFail
<1> HIDE DEF e
<1>5. ejects' \in [Node -> Nat] /\ left' \in [Node -> Int]
  BY <1>2, <1>3, <1>4 DEF FailsAreReal
<1>6. fails' \in [Node -> 0..Threshold] /\ streak' \in [Node -> 0..Threshold]
  BY <1>1, <1>4 DEF FailsAreReal, Smaller
<1>7. \A m \in Node : fails'[m] <= streak'[m]
  BY <1>1, <1>4 DEF FailsAreReal, Smaller
<1>8. ASSUME NEW m \in Node, left'[m] > left[m] PROVE streak'[m] = Threshold
  <2>1. m = n /\ Reached(n)
    BY <1>4, <1>8 DEF FailsAreReal
  <2> QED
    BY <1>1, <1>4, <2>1 DEF FailsAreReal, Reached, Smaller
<1> QED
  BY <1>5, <1>6, <1>7, <1>8 DEF FailsAreReal

\* Nothing else starts or extends an ejection.
LEMMA EjectionStep ==
  ASSUME FailsAreReal, [PenaltyNext]_penaltyVars
  PROVE  /\ FailsAreReal'
         /\ \A m \in Node : left'[m] > 0 /\ left'[m] > left[m] => streak'[m] = Threshold
<1>0. Threshold \in Nat \ {0}
  BY OutlierAssumption
<1>1. ASSUME NEW n \in Node, Fail(n)
      PROVE  /\ FailsAreReal'
             /\ \A m \in Node : left'[m] > 0 /\ left'[m] > left[m] => streak'[m] = Threshold
  BY <1>1, FailureCounts DEF Fail
<1>2. ASSUME NEW n \in Node, ReportNodeSuccess(n)
      PROVE  /\ FailsAreReal'
             /\ \A m \in Node : ~(left'[m] > 0 /\ left'[m] > left[m])
  BY <1>0, <1>2 DEF ReportNodeSuccess, FailsAreReal, NotEjected
<1>3. ASSUME NEW S, RecoverOutliers(S)
      PROVE  /\ FailsAreReal'
             /\ \A m \in Node : ~(left'[m] > 0 /\ left'[m] > left[m])
  BY <1>0, <1>3 DEF RecoverOutliers, FailsAreReal, NotEjected
<1>4. CASE PassTime
  BY <1>4 DEF PassTime, OutlierTick, FailsAreReal
<1>5. ASSUME UNCHANGED <<fails, left, ejects, streak>>
      PROVE  /\ FailsAreReal'
             /\ \A m \in Node : ~(left'[m] > 0 /\ left'[m] > left[m])
  BY <1>5 DEF FailsAreReal
<1> QED
  BY <1>1, <1>2, <1>3, <1>4, <1>5
     DEF PenaltyNext, Complain, OutlierStep, RecoverWeight, RegisterNode, RemoveNode, StoreWeight,
         CheckWeight, ClampWeight, outlierVars, penaltyVars

\* Whatever reports, clean-up passes and removals interleave, only the last of
\* Threshold failures with no success between them ejects a node.
THEOREM EjectionsAreEarned == PenaltySpec => EjectionIsEarned
<1>1. PenaltyInit => FailsAreReal
  BY OutlierAssumption DEF PenaltyInit, OutlierInit, FailsAreReal, NotEjected
<1>2. FailsAreReal /\ [PenaltyNext]_penaltyVars => FailsAreReal'
  BY EjectionStep
<1>3. FailsAreReal /\ [PenaltyNext]_penaltyVars =>
        [\A n \in Node : left'[n] > 0 /\ left'[n] > left[n] => streak'[n] = Threshold]_outlierVars
  BY EjectionStep
<1> QED
  BY <1>1, <1>2, <1>3, PTL DEF PenaltySpec, EjectionIsEarned

-----------------------------------------------------------------------------
(* Weights.                                                                *)

\* A thread that is sure to correct the weight of n, or to find it corrected: it
\* is about to, or it stored too much and has yet to look.
Corrects(t, n) ==
    /\ update[t].node = n
    /\ update[t].step = "clamp" \/ (update[t].step = "check" /\ update[t].value > Full)

Busy == {"raise", "lower", "check", "clamp"}

\* A weight above the maximum is about to be corrected, by the thread that
\* stored it or by one that is still to correct an earlier one; what is
\* about to be stored is no lower than the floor.
WeightInv ==
    /\ weight \in [Node -> {Unknown} \cup Floor..MaxStored]
    /\ update \in [Thread -> [step : Step, node : Node \cup {"none"}, value : 0..MaxStored]]
    /\ \A t \in Thread : update[t].step \in Busy => update[t].node \in Node /\ update[t].value >= Floor
    /\ \A t \in Thread : update[t].step = "lower" => update[t].value <= Full
    /\ \A n \in Node : weight[n] > Full => \E t \in Thread : Corrects(t, n)

\* A report or the clean-up that is not updating a weight loads one, or not.
LEMMA LoadKeeps ==
  ASSUME WeightInv, NEW t \in Thread, update[t] = Idle, NEW n \in Node,
         NEW v \in Floor..MaxStored, UNCHANGED weight,
         \/ update' = [update EXCEPT ![t] = Idle]
         \/ update' = [update EXCEPT ![t] = Lowered(n, v)] /\ v <= Full
         \/ update' = [update EXCEPT ![t] = Raised(n, v)]
  PROVE  WeightInv'
<1>1. Floor \in Nat /\ Full \in Nat /\ MaxStored \in Nat
  BY WeightAssumption DEF MaxStored, Larger
<1>2. CASE update' = [update EXCEPT ![t] = Idle]
  <2>1. update' = update
    BY <1>2 DEF WeightInv
  <2> QED
    BY <2>1 DEF WeightInv, Corrects
<1>3. CASE \/ update' = [update EXCEPT ![t] = Lowered(n, v)] /\ v <= Full
           \/ update' = [update EXCEPT ![t] = Raised(n, v)]
  <2>1. PICK d \in {"lower", "raise"} :
           /\ update' = [update EXCEPT ![t] = [step |-> d, node |-> n, value |-> v]]
           /\ d = "lower" => v <= Full
    BY <1>3 DEF Lowered, Raised
  <2>2. /\ update'[t] = [step |-> d, node |-> n, value |-> v]
        /\ \A u \in Thread \ {t} : update'[u] = update[u]
    BY <2>1 DEF WeightInv
  <2>3. update' \in [Thread -> [step : Step, node : Node \cup {"none"}, value : 0..MaxStored]]
    BY <1>1, <2>1 DEF WeightInv, Step
  <2>4. update[t].step = "idle"
    BY DEF Idle
  <2>5. \A u \in Thread : update'[u].step \in Busy => update'[u].node \in Node /\ update'[u].value >= Floor
    BY <1>1, <2>2 DEF WeightInv
  <2>6. ASSUME NEW m \in Node, weight'[m] > Full PROVE \E u \in Thread : Corrects(u, m)'
    <3>1. PICK u \in Thread : Corrects(u, m)
      BY <2>6 DEF WeightInv
    <3>2. u # t
      BY <2>4, <3>1 DEF Corrects
    <3> QED
      BY <2>2, <3>1, <3>2 DEF Corrects
  <2>7. \A u \in Thread : update'[u].step = "lower" => update'[u].value <= Full
    BY <2>1, <2>2 DEF WeightInv
  <2> QED
    BY <2>3, <2>5, <2>6, <2>7 DEF WeightInv
<1> QED
  BY <1>2, <1>3

\* The values that are loaded.
LEMMA LoadedValue ==
  ASSUME WeightInv, NEW n \in Node, weight[n] # Unknown
  PROVE  /\ Decay(weight[n]) \in Floor..MaxStored
         /\ Decay(weight[n]) <= Full
         /\ weight[n] < Full => /\ weight[n] + SuccessStep \in Floor..MaxStored
                                /\ weight[n] + CleanupStep \in Floor..MaxStored
<1>1. /\ Floor \in Nat /\ Full \in Nat /\ SuccessStep \in Nat /\ CleanupStep \in Nat
      /\ Floor <= Full /\ SuccessStep <= Full /\ CleanupStep <= Full
  BY WeightAssumption
<1>2. /\ MaxStored \in Nat /\ Full + SuccessStep <= MaxStored /\ Full + CleanupStep <= MaxStored
      /\ MaxStored <= 2 * Full
  BY <1>1 DEF MaxStored, Larger
<1>3. weight[n] \in Floor..MaxStored
  BY DEF WeightInv
<1>4. \A w \in Nat : w \div 2 \in Nat /\ w \div 2 <= w
  OBVIOUS
<1>5. weight[n] \div 2 \in Nat /\ weight[n] \div 2 <= weight[n]
  BY <1>1, <1>3, <1>4
<1>6. \A w \in Nat : w <= 2 * Full => w \div 2 <= Full
  BY <1>1
<1>7. weight[n] \div 2 <= Full
  BY <1>1, <1>2, <1>3, <1>6
<1> QED
  BY <1>1, <1>2, <1>3, <1>5, <1>7 DEF Decay, Larger

\* WeightInv is inductive: a step for every access to a weight or an update.
LEMMA WeightStep == WeightInv /\ [PenaltyNext]_penaltyVars => WeightInv'
<1> SUFFICES ASSUME WeightInv, [PenaltyNext]_penaltyVars
             PROVE  WeightInv'
  OBVIOUS
<1>1. /\ Floor \in Nat \ {0} /\ Full \in Nat /\ MaxStored \in Nat /\ NewWeight \in Nat
      /\ Floor <= NewWeight /\ NewWeight <= Full /\ Full <= MaxStored
  BY WeightAssumption DEF MaxStored, Larger
<1>2. "report" \in Thread /\ "cleanup" \in Thread
  BY DEF Thread
<1>3. ASSUME NEW n \in Node, ReportNodeFail(n) PROVE WeightInv'
  <2>1. update["report"] = Idle /\ UNCHANGED weight
    BY <1>3 DEF ReportNodeFail
  <2>2. CASE weight[n] = Unknown
    <3>1. update' = [update EXCEPT !["report"] = Idle] /\ Floor \in Floor..MaxStored
      BY <1>1, <1>3, <2>2 DEF ReportNodeFail
    <3> QED
      BY <1>2, <2>1, <3>1, LoadKeeps
  <2>3. CASE weight[n] # Unknown
    <3>1. update' = [update EXCEPT !["report"] = Lowered(n, Decay(weight[n]))]
      BY <1>3, <2>3 DEF ReportNodeFail
    <3>2. Decay(weight[n]) \in Floor..MaxStored /\ Decay(weight[n]) <= Full
      BY <2>3, LoadedValue
    <3> QED
      BY <1>2, <2>1, <3>1, <3>2, LoadKeeps
  <2> QED
    BY <2>2, <2>3
<1>4. ASSUME NEW n \in Node, ReportNodeSuccess(n) PROVE WeightInv'
  <2>1. update["report"] = Idle /\ UNCHANGED weight
    BY <1>4 DEF ReportNodeSuccess
  <2>2. CASE weight[n] = Unknown \/ weight[n] >= Full
    <3>1. update' = [update EXCEPT !["report"] = Idle]
      BY <1>4, <2>2 DEF ReportNodeSuccess
    <3>2. Floor \in Floor..MaxStored
      BY <1>1
    <3> QED
      BY <1>2, <2>1, <3>1, <3>2, LoadKeeps
  <2>3. CASE ~(weight[n] = Unknown \/ weight[n] >= Full)
    <3>1. update' = [update EXCEPT !["report"] = Raised(n, weight[n] + SuccessStep)]
      BY <1>4, <2>3 DEF ReportNodeSuccess
    <3>2. weight[n] < Full
      BY <1>1, <2>3 DEF WeightInv
    <3>3. weight[n] + SuccessStep \in Floor..MaxStored
      BY <2>3, <3>2, LoadedValue
    <3> QED
      BY <1>2, <2>1, <3>1, <3>3, LoadKeeps
  <2> QED
    BY <2>2, <2>3
<1>5. ASSUME NEW n \in Node, RecoverWeight(n) PROVE WeightInv'
  <2>1. update["cleanup"] = Idle /\ UNCHANGED weight
    BY <1>5 DEF RecoverWeight
  <2>2. CASE weight[n] = Unknown \/ weight[n] >= Full
    <3>1. update' = [update EXCEPT !["cleanup"] = Idle]
      BY <1>5, <2>2 DEF RecoverWeight
    <3>2. Floor \in Floor..MaxStored
      BY <1>1
    <3> QED
      BY <1>2, <2>1, <3>1, <3>2, LoadKeeps
  <2>3. CASE ~(weight[n] = Unknown \/ weight[n] >= Full)
    <3>1. update' = [update EXCEPT !["cleanup"] = Raised(n, weight[n] + CleanupStep)]
      BY <1>5, <2>3 DEF RecoverWeight
    <3>2. weight[n] < Full
      BY <1>1, <2>3 DEF WeightInv
    <3>3. weight[n] + CleanupStep \in Floor..MaxStored
      BY <2>3, <3>2, LoadedValue
    <3> QED
      BY <1>2, <2>1, <3>1, <3>3, LoadKeeps
  <2> QED
    BY <2>2, <2>3
<1>6. ASSUME NEW t \in Thread, StoreWeight(t) PROVE WeightInv'
  <2>1. PICK n \in Node, v \in Floor..MaxStored : n = update[t].node /\ v = update[t].value
    BY <1>1, <1>6 DEF StoreWeight, WeightInv, Busy
  <2>2. update[t].step \in {"raise", "lower"} /\ weight' = [weight EXCEPT ![n] = v]
    BY <1>6, <2>1 DEF StoreWeight
  <2>3. weight'[n] = v /\ \A m \in Node \ {n} : weight'[m] = weight[m]
    BY <2>2 DEF WeightInv
  <2>4. weight' \in [Node -> {Unknown} \cup Floor..MaxStored]
    BY <2>2 DEF WeightInv
  <2>5. PICK w \in {[update[t] EXCEPT !.step = "check"], Idle} : update' = [update EXCEPT ![t] = w]
    BY <1>6 DEF StoreWeight
  <2>12. w.step # "lower"
    BY <2>5 DEF Idle, WeightInv
  <2>6. update[t].step = "raise" => w.step = "check" /\ w.node = n /\ w.value = v
    <3>1. ASSUME update[t].step = "raise"
          PROVE  update' = [update EXCEPT ![t] = [update[t] EXCEPT !.step = "check"]]
      BY <1>6, <3>1 DEF StoreWeight
    <3>2. update[t].step = "raise" => w = [update[t] EXCEPT !.step = "check"]
      BY <2>5, <3>1 DEF WeightInv
    <3>3. LET x == [update[t] EXCEPT !.step = "check"]
          IN  x.step = "check" /\ x.node = n /\ x.value = v
      BY <2>1 DEF WeightInv
    <3> QED
      BY <3>2, <3>3
  <2>7. /\ w \in [step : Step, node : Node \cup {"none"}, value : 0..MaxStored]
        /\ w.step \in Busy => w.node = n /\ w.value = v
    <3>1. CASE w = Idle
      BY <1>1, <3>1 DEF Idle, Step, Busy
    <3>2. CASE w = [update[t] EXCEPT !.step = "check"]
      BY <2>1, <3>2 DEF WeightInv, Step
    <3> QED
      BY <3>1, <3>2
  <2>8. update'[t] = w /\ \A u \in Thread \ {t} : update'[u] = update[u]
    BY <2>5 DEF WeightInv
  <2>9. update' \in [Thread -> [step : Step, node : Node \cup {"none"}, value : 0..MaxStored]]
    BY <2>5, <2>7 DEF WeightInv
  <2>10. \A u \in Thread : update'[u].step \in Busy => update'[u].node \in Node /\ update'[u].value >= Floor
    BY <1>1, <2>7, <2>8 DEF WeightInv
  <2>11. ASSUME NEW m \in Node, weight'[m] > Full PROVE \E u \in Thread : Corrects(u, m)'
    <3>1. CASE m # n
      <4>1. PICK u \in Thread : Corrects(u, m)
        BY <2>3, <2>11, <3>1 DEF WeightInv
      <4>2. u # t
        BY <2>1, <3>1, <4>1 DEF Corrects
      <4> QED
        BY <2>8, <4>1, <4>2 DEF Corrects
    <3>2. CASE m = n /\ update[t].step = "raise"
      BY <2>3, <2>6, <2>8, <2>11, <3>2 DEF Corrects
    <3>3. CASE m = n /\ update[t].step = "lower"
      BY <1>1, <2>1, <2>3, <2>11, <3>3 DEF WeightInv
    <3> QED
      BY <2>2, <3>1, <3>2, <3>3
  <2>13. \A u \in Thread : update'[u].step = "lower" => update'[u].value <= Full
    BY <2>8, <2>12 DEF WeightInv
  <2> QED
    BY <2>4, <2>9, <2>10, <2>11, <2>13 DEF WeightInv
<1>11. ASSUME NEW t \in Thread, CheckWeight(t) PROVE WeightInv'
  <2>1. PICK n \in Node : n = update[t].node
    BY <1>11 DEF CheckWeight, WeightInv, Busy
  <2>2. update[t].step = "check" /\ UNCHANGED weight
    BY <1>11 DEF CheckWeight
  <2>3. PICK seen \in {weight[n], update[t].value} :
           update' = [update EXCEPT ![t] = IF seen > Full THEN [update[t] EXCEPT !.step = "clamp", !.value = Full] ELSE Idle]
    BY <1>11, <2>1 DEF CheckWeight
  <2>4. /\ seen > Full => /\ update'[t] = [update[t] EXCEPT !.step = "clamp", !.value = Full]
                          /\ update'[t].step = "clamp" /\ update'[t].node = n
                          /\ update'[t].value = Full
        /\ ~(seen > Full) => update'[t] = Idle
        /\ \A u \in Thread \ {t} : update'[u] = update[u]
    BY <2>1, <2>3 DEF WeightInv
  <2>5. update'[t] \in [step : Step, node : Node \cup {"none"}, value : 0..MaxStored]
    <3>1. CASE seen > Full
      <4>1. update[t] \in [step : Step, node : Node \cup {"none"}, value : 0..MaxStored]
        BY DEF WeightInv
      <4>2. "clamp" \in Step /\ Full \in 0..MaxStored
        BY <1>1 DEF Step
      <4>3. [update[t] EXCEPT !.step = "clamp", !.value = Full]
              \in [step : Step, node : Node \cup {"none"}, value : 0..MaxStored]
        BY <4>1, <4>2
      <4> QED
        BY <2>4, <3>1, <4>3
    <3>2. CASE ~(seen > Full)
      BY <1>1, <2>4, <3>2 DEF Idle, Step
    <3> QED
      BY <3>1, <3>2
  <2>6. update' \in [Thread -> [step : Step, node : Node \cup {"none"}, value : 0..MaxStored]]
    BY <2>3, <2>4, <2>5 DEF WeightInv
  <2>7. \A u \in Thread : update'[u].step \in Busy => update'[u].node \in Node /\ update'[u].value >= Floor
    BY <1>1, <2>4 DEF WeightInv, Busy, Idle
  <2>8. ASSUME NEW m \in Node, weight'[m] > Full PROVE \E u \in Thread : Corrects(u, m)'
    <3>1. PICK u \in Thread : Corrects(u, m)
      BY <2>2, <2>8 DEF WeightInv
    <3>2. CASE u # t
      BY <2>4, <3>1, <3>2 DEF Corrects
    <3>3. CASE u = t
      <4>1. m = n /\ update[t].value > Full
        BY <2>1, <2>2, <3>1, <3>3 DEF Corrects
      <4>2. seen > Full
        BY <2>2, <2>3, <2>8, <4>1
      <4> QED
        BY <2>4, <4>1, <4>2 DEF Corrects
    <3> QED
      BY <3>2, <3>3
  <2>9. \A u \in Thread : update'[u].step = "lower" => update'[u].value <= Full
    BY <2>4 DEF WeightInv, Idle
  <2> QED
    BY <2>2, <2>6, <2>7, <2>8, <2>9 DEF WeightInv
<1>7. ASSUME NEW t \in Thread, ClampWeight(t) PROVE WeightInv'
  <2>1. PICK n \in Node : n = update[t].node
    BY <1>7 DEF ClampWeight, WeightInv, Busy
  <2>2. weight' = [weight EXCEPT ![n] = Full]
    BY <1>7, <2>1 DEF ClampWeight
  <2>3. weight'[n] = Full /\ \A m \in Node \ {n} : weight'[m] = weight[m]
    BY <2>2 DEF WeightInv
  <2>4. weight' \in [Node -> {Unknown} \cup Floor..MaxStored]
    BY <1>1, <2>2 DEF WeightInv
  <2>5. update'[t] = Idle /\ \A u \in Thread \ {t} : update'[u] = update[u]
    BY <1>7 DEF ClampWeight, WeightInv
  <2>6. Idle \in [step : Step, node : Node \cup {"none"}, value : 0..MaxStored]
    BY <1>1 DEF Idle, Step
  <2>7. update' \in [Thread -> [step : Step, node : Node \cup {"none"}, value : 0..MaxStored]]
    BY <1>7, <2>6 DEF ClampWeight, WeightInv
  <2>8. \A u \in Thread : update'[u].step \in Busy => update'[u].node \in Node /\ update'[u].value >= Floor
    BY <2>5 DEF WeightInv, Idle, Busy
  <2>9. ASSUME NEW m \in Node, weight'[m] > Full PROVE \E u \in Thread : Corrects(u, m)'
    <3>1. m # n
      BY <1>1, <2>3, <2>9
    <3>2. PICK u \in Thread : Corrects(u, m)
      BY <2>3, <2>9, <3>1 DEF WeightInv
    <3>3. u # t
      BY <2>1, <3>1, <3>2 DEF Corrects
    <3> QED
      BY <2>5, <3>2, <3>3 DEF Corrects
  <2>10. \A u \in Thread : update'[u].step = "lower" => update'[u].value <= Full
    BY <2>5 DEF WeightInv, Idle
  <2> QED
    BY <2>4, <2>7, <2>8, <2>9, <2>10 DEF WeightInv
<1>8. ASSUME NEW n \in Node, RegisterNode(n) PROVE WeightInv'
  <2>1. /\ weight' = [weight EXCEPT ![n] = NewWeight] /\ UNCHANGED update
        /\ NewWeight \in Floor..MaxStored /\ ~(NewWeight > Full)
    BY <1>1, <1>8 DEF RegisterNode
  <2> QED
    BY <2>1 DEF WeightInv, Corrects
<1>9. ASSUME NEW n \in Node, RemoveNode(n) PROVE WeightInv'
  <2>1. /\ weight' = [weight EXCEPT ![n] = Unknown] /\ ~(Unknown > Full)
        /\ update' = [t \in Thread |-> IF update[t].node = n THEN Idle ELSE update[t]]
    BY <1>1, <1>9 DEF RemoveNode, Unknown
  <2>2. /\ Idle \in [step : Step, node : Node \cup {"none"}, value : 0..MaxStored]
        /\ Idle.step \notin Busy
    BY <1>1 DEF Idle, Step, Busy
  <2>3. weight' \in [Node -> {Unknown} \cup Floor..MaxStored]
    BY <2>1 DEF WeightInv
  <2>4. update' \in [Thread -> [step : Step, node : Node \cup {"none"}, value : 0..MaxStored]]
    BY <2>1, <2>2 DEF WeightInv
  <2>5. \A t \in Thread : update'[t] = update[t] \/ update'[t].step \notin Busy
    BY <2>1, <2>2
  <2>6. \A t \in Thread : update[t].node # n => update'[t] = update[t]
    BY <2>1
  <2>7. \A m \in Node : weight'[m] > Full => m # n /\ weight[m] > Full
    BY <2>1 DEF WeightInv
  <2>8. ASSUME NEW m \in Node, weight'[m] > Full PROVE \E u \in Thread : Corrects(u, m)'
    <3>1. PICK u \in Thread : Corrects(u, m)
      BY <2>7, <2>8 DEF WeightInv
    <3> QED
      BY <2>6, <2>7, <2>8, <3>1 DEF Corrects
  <2>9. \A u \in Thread : update'[u].step = "lower" => update'[u].value <= Full
    BY <2>5 DEF WeightInv, Busy
  <2> QED
    BY <2>3, <2>4, <2>5, <2>8, <2>9 DEF WeightInv
<1>10. ASSUME UNCHANGED <<weight, update>> PROVE WeightInv'
  BY <1>10 DEF WeightInv, Corrects
<1> QED
  BY <1>3, <1>4, <1>5, <1>6, <1>7, <1>8, <1>9, <1>10, <1>11
     DEF PenaltyNext, Complain, Fail, OutlierStep, RecoverOutliers, PassTime, OutlierTick, outlierVars, penaltyVars

LEMMA WeightInit == PenaltyInit => WeightInv
<1> SUFFICES ASSUME PenaltyInit PROVE WeightInv
  OBVIOUS
<1>1. Full \in Nat /\ MaxStored \in Nat
  BY WeightAssumption DEF MaxStored, Larger
<1> QED
  BY <1>1 DEF PenaltyInit, OutlierInit, WeightInv, Idle, Unknown, Step, Busy

\* For all weights and steps, unlocked loads and stores of a report and of the
\* clean-up leave a weight between the floor and the maximum once they are over.
THEOREM WeightsSettle == PenaltySpec => []WeightSettles
<1>1. WeightInv => WeightSettles
  BY WeightAssumption DEF WeightInv, WeightSettles, Corrects, Unknown, MaxStored, Larger
<1> QED
  BY <1>1, WeightInit, WeightStep, PTL DEF PenaltySpec

-----------------------------------------------------------------------------
(* Complaints.                                                             *)

\* Ages of complaints, the newest first.
Sorted(s) == \A i, j \in 1..Len(s) : i <= j => s[i] <= s[j]

\* The complaints of the current window are the first of the history.  If there
\* are others before them, the window began with a complaint of its own, and
\* only the Limit - 1 of the window before may be less than a Window old.
WindowsAreKept(k, w, s) ==
    /\ k \in 0..Limit - 1
    /\ w \in 0..C!Cap
    /\ s \in Seq(0..C!Cap) /\ Len(s) <= C!MaxRecent
    /\ Sorted(s)
    /\ k <= Len(s)
    /\ \A i \in 1..k : s[i] <= w
    /\ Len(s) > k => k >= 1 /\ s[k] = w
    /\ Len(s) >= k + Limit => s[k + Limit] > Window

ComplaintInv ==
    /\ count \in [Node -> Int]
    /\ winAge \in [Node -> Int]
    /\ cooling \in [Node -> 0..Cooldown]
    /\ DOMAIN recent = Node
    /\ \A n \in Node : WindowsAreKept(count[n], winAge[n], recent[n])

\* t is s with the age 0 put in front, of which the newest MaxRecent are kept.
Pushed(t, s) ==
    /\ t \in Seq(0..C!Cap)
    /\ Len(t) = IF Len(s) < C!MaxRecent THEN Len(s) + 1 ELSE C!MaxRecent
    /\ t[1] = 0
    /\ \A i \in 2..Len(t) : i - 1 \in 1..Len(s) /\ t[i] = s[i - 1]

LEMMA ComplaintConstants ==
  /\ Limit \in Nat /\ Limit >= 2 /\ Window \in Nat /\ Cooldown \in Nat \ {0}
  /\ C!Cap \in Nat /\ C!Cap = Window + 1
  /\ C!MaxRecent \in Nat \ {0} /\ C!MaxRecent = (Limit - 1) + (Limit - 1)
BY PenaltyAssumption DEF C!Cap, C!MaxRecent

LEMMA PushIs ==
  ASSUME NEW s \in Seq(0..C!Cap)
  PROVE  Pushed(SubSeq(<<0>> \o s, 1, IF Len(s) < C!MaxRecent THEN Len(s) + 1 ELSE C!MaxRecent), s)
<1> DEFINE all == <<0>> \o s
           k == IF Len(s) < C!MaxRecent THEN Len(s) + 1 ELSE C!MaxRecent
<1>1. 0 \in 0..C!Cap /\ C!MaxRecent \in Nat \ {0}
  BY ComplaintConstants
<1>2. /\ all \in Seq(0..C!Cap) /\ Len(all) = Len(s) + 1
      /\ all[1] = 0 /\ \A i \in 2..Len(s) + 1 : all[i] = s[i - 1]
  BY <1>1
<1>3. k \in 1..Len(all)
  BY <1>1, <1>2
<1> HIDE DEF all
<1>4. /\ SubSeq(all, 1, k) \in Seq(0..C!Cap) /\ Len(SubSeq(all, 1, k)) = k
      /\ \A i \in 1..k : SubSeq(all, 1, k)[i] = all[i]
  <2>1. \A i \in 1..k : all[i] \in 0..C!Cap
    <3>1. \A i \in 1..k : i \in 1..Len(all)
      BY <1>2, <1>3
    <3> QED
      BY <1>2, <3>1, ElementOfSeq
  <2> HIDE DEF k
  <2>2. k \in Int /\ 1 \in Int /\ 1 <= k
    BY <1>3
  <2> QED
    BY <2>1, <2>2, SubSeqProperties
<1>5. Pushed(SubSeq(all, 1, k), s)
  BY <1>2, <1>3, <1>4 DEF Pushed
<1> QED
  BY <1>5 DEF all

LEMMA PushSorted ==
  ASSUME NEW s \in Seq(0..C!Cap), NEW t, Sorted(s), Pushed(t, s)
  PROVE  Sorted(t)
<1>1. /\ t \in Seq(0..C!Cap) /\ t[1] = 0
      /\ \A i \in 2..Len(t) : i - 1 \in 1..Len(s) /\ t[i] = s[i - 1]
  BY DEF Pushed
<1>2. ASSUME NEW i \in 1..Len(t), NEW j \in 1..Len(t), i <= j
      PROVE  t[i] <= t[j]
  <2>1. t[j] \in 0..C!Cap
    BY <1>1, ElementOfSeq
  <2>2. CASE i = 1
    BY <1>1, <2>1, <2>2
  <2>3. CASE i # 1
    BY <1>1, <1>2, <2>3 DEF Sorted
  <2> QED
    BY <2>2, <2>3
<1> QED
  BY <1>2 DEF Sorted

\* A complaint that begins a window: the one before has run out, so all but its
\* complaints are older than a Window, and so are the first of them.
LEMMA WindowBegins ==
  ASSUME NEW k, NEW w, NEW s, NEW t, WindowsAreKept(k, w, s), Pushed(t, s), w > Window
  PROVE  WindowsAreKept(1, 0, t)
<1> USE ComplaintConstants
<1>1. /\ k \in Nat /\ k <= Limit - 1 /\ w \in Nat /\ s \in Seq(0..C!Cap) /\ Sorted(s)
      /\ Len(s) \in Nat /\ (Len(s) > k => k >= 1 /\ s[k] = w)
  BY LenProperties DEF WindowsAreKept
<1>2. /\ t \in Seq(0..C!Cap) /\ Len(t) \in Nat /\ t[1] = 0
      /\ Len(t) = IF Len(s) < C!MaxRecent THEN Len(s) + 1 ELSE C!MaxRecent
      /\ \A i \in 2..Len(t) : i - 1 \in 1..Len(s) /\ t[i] = s[i - 1]
  BY LenProperties DEF Pushed
<1>3. Sorted(t)
  BY <1>1, PushSorted
<1>4. ASSUME Len(t) >= 1 + Limit PROVE t[1 + Limit] > Window
  <2>1. t[1 + Limit] = s[Limit] /\ Limit \in 1..Len(s)
    BY <1>2, <1>4
  <2>2. k \in 1..Len(s) /\ s[k] = w /\ k <= Limit
    BY <1>1, <2>1
  <2>3. s[k] <= s[Limit] /\ s[Limit] \in 0..C!Cap
    BY <1>1, <2>1, <2>2, ElementOfSeq DEF Sorted
  <2> QED
    BY <1>1, <2>1, <2>2, <2>3
<1>5. Len(t) >= 1 /\ Len(t) <= C!MaxRecent
  BY <1>1, <1>2
<1> QED
  BY <1>2, <1>3, <1>4, <1>5 DEF WindowsAreKept

\* One that is answered by a cool-down leaves no history.
LEMMA WindowIsEmptied ==
  ASSUME NEW w \in 0..C!Cap
  PROVE  WindowsAreKept(0, w, << >>)
<1>1. << >> \in Seq(0..C!Cap) /\ Len(<< >>) = 0
  OBVIOUS
<1>2. Limit \in Nat /\ Limit >= 2 /\ C!MaxRecent \in Nat
  BY ComplaintConstants
<1>3. 0 \in 0..Limit - 1 /\ 0 <= C!MaxRecent /\ ~(0 >= 0 + Limit) /\ 1..0 = {}
  BY <1>2
<1>4. Sorted(<< >>)
  BY <1>1, <1>3 DEF Sorted
<1> QED
  BY <1>1, <1>3, <1>4 DEF WindowsAreKept

\* One that the current window counts.
LEMMA WindowGoesOn ==
  ASSUME NEW k \in Nat, NEW w, NEW s, NEW t, WindowsAreKept(k, w, s), Pushed(t, s), k + 1 < Limit
  PROVE  WindowsAreKept(k + 1, w, t)
<1> USE ComplaintConstants
<1>1. /\ k \in Nat /\ w \in 0..C!Cap /\ s \in Seq(0..C!Cap) /\ Sorted(s)
      /\ Len(s) \in Nat /\ k <= Len(s) /\ Len(s) <= C!MaxRecent
      /\ \A i \in 1..k : s[i] <= w
      /\ Len(s) > k => k >= 1 /\ s[k] = w
      /\ Len(s) >= k + Limit => s[k + Limit] > Window
  BY LenProperties DEF WindowsAreKept
<1>2. /\ t \in Seq(0..C!Cap) /\ Len(t) \in Nat /\ t[1] = 0
      /\ Len(t) = IF Len(s) < C!MaxRecent THEN Len(s) + 1 ELSE C!MaxRecent
      /\ \A i \in 2..Len(t) : i - 1 \in 1..Len(s) /\ t[i] = s[i - 1]
  BY LenProperties DEF Pushed
<1>3. Sorted(t)
  BY <1>1, PushSorted
<1>4. k + 1 <= Len(t) /\ Len(t) <= C!MaxRecent /\ Len(t) <= Len(s) + 1
  <2>1. \A a, l, m \in Nat : a + 1 < l /\ m = (l - 1) + (l - 1) => a + 1 <= m
    OBVIOUS
  <2>2. k + 1 <= C!MaxRecent
    BY <2>1
  <2> HIDE ComplaintConstants
  <2>3. C!MaxRecent \in Nat
    BY ComplaintConstants
  <2> QED
    BY <1>1, <1>2, <2>2, <2>3
<1>5. ASSUME NEW i \in 1..k + 1 PROVE t[i] <= w
  <2>1. CASE i = 1
    BY <1>1, <1>2, <2>1
  <2>2. CASE i # 1
    <3>1. i \in 2..Len(t) /\ i - 1 \in 1..k
      BY <1>2, <1>4, <2>2
    <3>2. t[i] = s[i - 1]
      BY <1>2, <3>1
    <3> QED
      BY <1>1, <3>1, <3>2
  <2> QED
    BY <2>1, <2>2
<1>6. Len(t) > k + 1 => k + 1 >= 1 /\ t[k + 1] = w
  <2>1. ASSUME Len(t) > k + 1 PROVE k >= 1 /\ s[k] = w /\ k + 1 \in 2..Len(t)
    BY <1>1, <1>2, <1>4, <2>1
  <2>2. k + 1 \in 2..Len(t) => t[k + 1] = s[(k + 1) - 1]
    BY <1>2
  <2>3. (k + 1) - 1 = k
    OBVIOUS
  <2> QED
    BY <2>1, <2>2, <2>3
<1>7. Len(t) >= k + 1 + Limit => t[k + 1 + Limit] > Window
  <2>1. ASSUME Len(t) >= k + 1 + Limit
        PROVE  Len(s) >= k + Limit /\ k + 1 + Limit \in 2..Len(t)
    BY <1>1, <1>2, <1>4, <2>1
  <2>2. k + 1 + Limit \in 2..Len(t) => t[k + 1 + Limit] = s[(k + 1 + Limit) - 1]
    BY <1>2
  <2>3. (k + 1 + Limit) - 1 = k + Limit
    OBVIOUS
  <2> QED
    BY <1>1, <2>1, <2>2, <2>3
<1> QED
  BY <1>1, <1>2, <1>3, <1>4, <1>5, <1>6, <1>7 DEF WindowsAreKept

\* Time passes.
LEMMA WindowAges ==
  ASSUME NEW k, NEW w, NEW s, WindowsAreKept(k, w, s)
  PROVE  WindowsAreKept(k, C!Older(w), [i \in DOMAIN s |-> C!Older(s[i])])
<1> USE ComplaintConstants
<1> DEFINE t == [i \in DOMAIN s |-> C!Older(s[i])]
<1>1. /\ k \in Nat /\ k <= Limit - 1 /\ w \in 0..C!Cap /\ s \in Seq(0..C!Cap) /\ Sorted(s)
      /\ Len(s) \in Nat /\ k <= Len(s) /\ Len(s) <= C!MaxRecent
      /\ DOMAIN s = 1..Len(s)
      /\ \A i \in 1..k : s[i] <= w
      /\ Len(s) > k => k >= 1 /\ s[k] = w
      /\ Len(s) >= k + Limit => s[k + Limit] > Window
  BY LenProperties DEF WindowsAreKept
<1>2. \A i \in 1..Len(s) : s[i] \in 0..C!Cap
  BY <1>1, ElementOfSeq
<1>3. \A a \in 0..C!Cap : C!Older(a) \in 0..C!Cap
  BY DEF C!Older
<1>4. \A a, b \in 0..C!Cap : a <= b => C!Older(a) <= C!Older(b)
  BY DEF C!Older
<1>5. \A a \in 0..C!Cap : a > Window => C!Older(a) > Window
  BY DEF C!Older
<1>6. t = [i \in 1..Len(s) |-> C!Older(s[i])]
  BY <1>1
<1> HIDE DEF t
<1>7. t \in Seq(0..C!Cap) /\ Len(t) = Len(s) /\ \A i \in 1..Len(s) : t[i] = C!Older(s[i])
  BY <1>1, <1>2, <1>3, <1>6
<1>8. Sorted(t)
  <2> SUFFICES ASSUME NEW i \in 1..Len(s), NEW j \in 1..Len(s), i <= j
               PROVE  t[i] <= t[j]
    BY <1>7 DEF Sorted
  <2>1. s[i] <= s[j] /\ s[i] \in 0..C!Cap /\ s[j] \in 0..C!Cap
    BY <1>1, <1>2 DEF Sorted
  <2> QED
    BY <1>4, <1>7, <2>1
<1>9. \A i \in 1..k : i \in 1..Len(s)
  BY <1>1
<1>10. \A i \in 1..k : t[i] <= C!Older(w)
  BY <1>1, <1>2, <1>4, <1>7, <1>9
<1>11. Len(s) > k => k >= 1 /\ t[k] = C!Older(w)
  BY <1>1, <1>7
<1>12. Len(s) >= k + Limit => t[k + Limit] > Window
  <2>1. Len(s) >= k + Limit => k + Limit \in 1..Len(s)
    BY <1>1
  <2> QED
    BY <1>1, <1>2, <1>5, <1>7, <2>1
<1>13. C!Older(w) \in 0..C!Cap
  BY <1>1, <1>3
<1>14. WindowsAreKept(k, C!Older(w), t)
  BY <1>1, <1>7, <1>8, <1>10, <1>11, <1>12, <1>13 DEF WindowsAreKept
<1> QED
  BY <1>14 DEF t

\* A complaint keeps the windows, and says what it did to the node.
LEMMA ComplaintCounts ==
  ASSUME ComplaintInv, NEW n \in Node, C!RecordComplaint(n)
  PROVE  /\ ComplaintInv'
         /\ \A m \in Node : cooling'[m] > cooling[m] => m = n /\ C!Counted(n) >= Limit
         /\ C!Counted(n) >= Limit => C!isCooling(n)'
<1> USE ComplaintConstants
<1> DEFINE k == count[n]
           w == winAge[n]
           s == recent[n]
           c == C!Counted(n)
           cools == c >= Limit
           t == SubSeq(<<0>> \o s, 1, IF Len(s) < C!MaxRecent THEN Len(s) + 1 ELSE C!MaxRecent)
           kn == IF cools THEN 0 ELSE c
           wn == IF w > Window THEN 0 ELSE w
           sn == IF cools THEN << >> ELSE t
<1>1. WindowsAreKept(k, w, s) /\ k \in Nat /\ k < Limit /\ w \in 0..C!Cap /\ s \in Seq(0..C!Cap)
  BY DEF ComplaintInv, WindowsAreKept
<1>2. c = IF w > Window THEN 1 ELSE k + 1
  BY DEF C!Counted
<1>3. /\ winAge' = [winAge EXCEPT ![n] = wn]
      /\ count' = [count EXCEPT ![n] = kn]
      /\ cooling' = [cooling EXCEPT ![n] = IF cools THEN Cooldown ELSE @]
      /\ recent' = [recent EXCEPT ![n] = sn]
  BY DEF C!RecordComplaint, C!RecordComplaintAs, C!Remember
<1> HIDE DEF c, t
<1>4. Pushed(t, s)
  BY <1>1, PushIs DEF t
<1>5. c \in Nat
  BY <1>1, <1>2
<1>6. WindowsAreKept(kn, wn, sn)
  <2>1. CASE cools
    <3>1. kn = 0 /\ sn = << >> /\ wn \in 0..C!Cap
      BY <1>1, <2>1
    <3> QED
      BY <1>1, <3>1, WindowIsEmptied
  <2>2. CASE ~cools /\ w > Window
    <3>1. kn = 1 /\ wn = 0 /\ sn = t
      BY <1>2, <2>2
    <3> QED
      BY <1>1, <1>4, <2>2, <3>1, WindowBegins
  <2>3. CASE ~cools /\ ~(w > Window)
    <3>1. kn = k + 1 /\ wn = w /\ sn = t /\ k + 1 < Limit
      BY <1>1, <1>2, <2>3
    <3> QED
      BY <1>1, <1>4, <3>1, WindowGoesOn
  <2> QED
    BY <2>1, <2>2, <2>3
<1>7. kn \in Int /\ wn \in Int
  BY <1>6 DEF WindowsAreKept
<1> HIDE DEF kn, wn, sn
<1>8. count' \in [Node -> Int] /\ winAge' \in [Node -> Int] /\ DOMAIN recent' = Node
  BY <1>3, <1>7 DEF ComplaintInv
<1>9. cooling' \in [Node -> 0..Cooldown]
  BY <1>3 DEF ComplaintInv
<1>10. \A m \in Node : WindowsAreKept(count'[m], winAge'[m], recent'[m])
  <2>1. count'[n] = kn /\ winAge'[n] = wn /\ recent'[n] = sn
    BY <1>3 DEF ComplaintInv
  <2>2. \A m \in Node \ {n} : count'[m] = count[m] /\ winAge'[m] = winAge[m] /\ recent'[m] = recent[m]
    BY <1>3 DEF ComplaintInv
  <2>3. \A m \in Node \ {n} : WindowsAreKept(count'[m], winAge'[m], recent'[m])
    BY <2>2 DEF ComplaintInv
  <2> QED
    BY <1>6, <2>1, <2>3
<1>11. ComplaintInv'
  BY <1>8, <1>9, <1>10 DEF ComplaintInv, WindowsAreKept, Sorted, C!Cap, C!MaxRecent
<1>12. \A m \in Node : cooling'[m] > cooling[m] => m = n /\ cools
  BY <1>3 DEF ComplaintInv
<1>13. cools => C!isCooling(n)'
  BY <1>3 DEF ComplaintInv, C!isCooling
<1> QED
  BY <1>11, <1>12, <1>13 DEF c

\* A complaint that is counted up to the limit is the last of Limit within a Window.
LEMMA LimitIsReached ==
  ASSUME NEW n \in Node, ComplaintInv, C!Counted(n) >= Limit
  PROVE  Len(recent[n]) >= Limit - 1 /\ recent[n][Limit - 1] <= Window
<1> USE ComplaintConstants
<1> DEFINE k == count[n]
           w == winAge[n]
           s == recent[n]
<1>1. /\ k \in Nat /\ k <= Limit - 1 /\ w \in Nat /\ s \in Seq(0..C!Cap) /\ Len(s) \in Nat
      /\ k <= Len(s) /\ \A i \in 1..k : s[i] <= w
  BY LenProperties DEF ComplaintInv, WindowsAreKept
<1>2. C!Counted(n) = IF w > Window THEN 1 ELSE k + 1
  BY DEF C!Counted
<1> HIDE DEF k, w, s
<1>3. ~(w > Window) /\ k = Limit - 1
  BY <1>1, <1>2
<1>4. k \in 1..k /\ k \in 1..Len(s)
  BY <1>1, <1>3
<1>5. s[k] <= w /\ s[k] \in 0..C!Cap
  BY <1>1, <1>4, ElementOfSeq
<1>6. Len(s) >= Limit - 1 /\ s[Limit - 1] <= Window
  BY <1>1, <1>3, <1>5
<1> QED
  BY <1>6 DEF s

\* If MaxRecent complaints are within a Window, the next one reaches the limit:
\* neither two windows nor the end of one can lie among them.
LEMMA LimitIsNear ==
  ASSUME NEW n \in Node, ComplaintInv,
         Len(recent[n]) = C!MaxRecent, recent[n][C!MaxRecent] <= Window
  PROVE  C!Counted(n) >= Limit
<1> USE ComplaintConstants
<1> DEFINE k == count[n]
           w == winAge[n]
           s == recent[n]
<1>1. /\ k \in Nat /\ k <= Limit - 1 /\ w \in Nat /\ s \in Seq(0..C!Cap) /\ Sorted(s)
      /\ Len(s) > k => k >= 1 /\ s[k] = w
      /\ Len(s) >= k + Limit => s[k + Limit] > Window
  BY DEF ComplaintInv, WindowsAreKept
<1>2. C!Counted(n) = IF w > Window THEN 1 ELSE k + 1
  BY DEF C!Counted
<1>3. Len(s) = C!MaxRecent /\ s[C!MaxRecent] <= Window
  OBVIOUS
<1> HIDE DEF k, w, s
<1>4. \A i \in 1..C!MaxRecent : s[i] \in 0..C!Cap /\ s[i] <= Window
  <2> TAKE i \in 1..C!MaxRecent
  <2>1. i \in 1..Len(s) /\ C!MaxRecent \in 1..Len(s) /\ i <= C!MaxRecent
    BY <1>3
  <2>2. s[i] <= s[C!MaxRecent] /\ s[i] \in 0..C!Cap /\ s[C!MaxRecent] \in 0..C!Cap
    BY <1>1, <2>1, ElementOfSeq DEF Sorted
  <2> QED
    BY <1>3, <2>2
<1>5. ~(k + Limit <= C!MaxRecent)
  <2>1. k + Limit <= C!MaxRecent => k + Limit \in 1..C!MaxRecent /\ Len(s) >= k + Limit
    BY <1>1, <1>3
  <2> QED
    BY <1>1, <1>4, <2>1
<1>6. k = Limit - 1
  BY <1>1, <1>5
<1>7. k \in 1..C!MaxRecent /\ Len(s) > k
  BY <1>1, <1>3, <1>6
<1>8. ~(w > Window)
  BY <1>1, <1>4, <1>7
<1> QED
  BY <1>2, <1>6, <1>8

\* ComplaintInv is inductive, and a node cools for reaching the limit only.
LEMMA ComplaintStep ==
  ASSUME ComplaintInv, [PenaltyNext]_penaltyVars
  PROVE  /\ ComplaintInv'
         /\ \A m \in Node : cooling'[m] > cooling[m] => C!Counted(m) >= Limit
<1>1. ASSUME NEW n \in Node, Complain(n)
      PROVE  /\ ComplaintInv'
             /\ \A m \in Node : cooling'[m] > cooling[m] => C!Counted(m) >= Limit
  BY <1>1, ComplaintCounts DEF Complain
<1>2. ASSUME PassTime
      PROVE  /\ ComplaintInv'
             /\ \A m \in Node : ~(cooling'[m] > cooling[m])
  <2>1. /\ winAge' = [n \in Node |-> C!Older(winAge[n])]
        /\ cooling' = [n \in Node |-> IF cooling[n] = 0 THEN 0 ELSE cooling[n] - 1]
        /\ recent' = [n \in Node |-> [i \in DOMAIN recent[n] |-> C!Older(recent[n][i])]]
        /\ count' = count
    BY <1>2 DEF PassTime, C!Tick
  <2>2. \A n \in Node : WindowsAreKept(count'[n], winAge'[n], recent'[n])
    <3> TAKE n \in Node
    <3>1. WindowsAreKept(count[n], winAge[n], recent[n])
      BY DEF ComplaintInv
    <3> QED
      BY <2>1, <3>1, WindowAges
  <2>3. \A n \in Node : winAge'[n] \in Int
    BY <2>2, ComplaintConstants DEF WindowsAreKept
  <2>4. winAge' \in [Node -> Int] /\ count' \in [Node -> Int] /\ DOMAIN recent' = Node
    BY <2>1, <2>3 DEF ComplaintInv
  <2>5. cooling' \in [Node -> 0..Cooldown] /\ \A m \in Node : ~(cooling'[m] > cooling[m])
    <3>1. \A m \in Node : cooling[m] \in 0..Cooldown /\ Cooldown \in Nat
      BY ComplaintConstants DEF ComplaintInv
    <3>2. \A m \in Node : /\ (IF cooling[m] = 0 THEN 0 ELSE cooling[m] - 1) \in 0..Cooldown
                          /\ ~((IF cooling[m] = 0 THEN 0 ELSE cooling[m] - 1) > cooling[m])
      BY <3>1
    <3> QED
      BY <2>1, <3>2
  <2> QED
    BY <2>2, <2>4, <2>5 DEF ComplaintInv, WindowsAreKept, Sorted, C!Cap, C!MaxRecent
<1>3. ASSUME UNCHANGED complaintVars
      PROVE  /\ ComplaintInv'
             /\ \A m \in Node : ~(cooling'[m] > cooling[m])
  <2>1. /\ count' = count /\ winAge' = winAge /\ cooling' = cooling /\ recent' = recent
    BY <1>3 DEF complaintVars
  <2> QED
    BY <2>1, ComplaintConstants
       DEF ComplaintInv, WindowsAreKept, Sorted, C!Cap, C!MaxRecent
<1> QED
  BY <1>1, <1>2, <1>3 DEF PenaltyNext, Fail, OutlierStep, penaltyVars

LEMMA ComplaintInit == PenaltyInit => ComplaintInv
<1> SUFFICES ASSUME PenaltyInit PROVE ComplaintInv
  OBVIOUS
<1>1. /\ count = [n \in Node |-> 0] /\ winAge = [n \in Node |-> C!Cap]
      /\ cooling = [n \in Node |-> 0] /\ recent = [n \in Node |-> << >>]
  BY DEF PenaltyInit, C!Init
<1>2. WindowsAreKept(0, C!Cap, << >>)
  BY ComplaintConstants, WindowIsEmptied
<1> QED
  BY <1>1, <1>2, ComplaintConstants DEF ComplaintInv

\* For all limits, windows and cool-downs, a node cools only for Limit complaints
\* within a Window that no earlier cool-down was given for.
THEOREM CoolingsAreEarned == PenaltySpec => CoolingIsEarned
<1>1. ComplaintInv /\ [PenaltyNext]_penaltyVars => ComplaintInv'
  BY ComplaintStep
<1>2. ComplaintInv /\ [PenaltyNext]_penaltyVars =>
        [\A n \in Node : cooling'[n] > cooling[n] =>
            Len(recent[n]) >= Limit - 1 /\ recent[n][Limit - 1] <= Window]_penaltyVars
  BY ComplaintStep, LimitIsReached
<1> QED
  BY <1>1, <1>2, ComplaintInit, PTL DEF PenaltySpec, CoolingIsEarned

\* For all limits, windows and cool-downs, of 2 * Limit - 1 complaints within a
\* Window one is answered by a cool-down, wherever windows begin and end.
THEOREM EnoughAlwaysCools == PenaltySpec => EnoughComplaintsCool
<1>1. ComplaintInv /\ [PenaltyNext]_penaltyVars => ComplaintInv'
  BY ComplaintStep
<1>2. ComplaintInv /\ [PenaltyNext]_penaltyVars =>
        [\A n \in Node :
            /\ Complain(n)
            /\ Len(recent[n]) = C!MaxRecent
            /\ recent[n][C!MaxRecent] <= Window
            => C!isCooling(n)']_penaltyVars
  <2>1. ASSUME ComplaintInv, NEW n \in Node, Complain(n),
               Len(recent[n]) = C!MaxRecent, recent[n][C!MaxRecent] <= Window
        PROVE  C!isCooling(n)'
    <3>1. C!Counted(n) >= Limit
      BY <2>1, LimitIsNear
    <3> QED
      BY <2>1, <3>1, ComplaintCounts DEF Complain
  <2> QED
    BY <2>1
<1> QED
  BY <1>1, <1>2, ComplaintInit, PTL DEF PenaltySpec, EnoughComplaintsCool

-----------------------------------------------------------------------------
(* Types.                                                                  *)

\* What WeightInv and ComplaintInv do not say of the types.
LedgerOK ==
    /\ fails \in [Node -> 0..Threshold]
    /\ left \in [Node -> {NotEjected} \cup 0..MaxTime]
    /\ ejects \in [Node -> 0..MaxEjects]
    /\ todo \subseteq Node
    /\ streak \in [Node -> 0..Threshold]
    /\ owed \in [Node -> 0..MaxReports]

\* However often a node has been ejected, the next ejection is a time up to the
\* longest one.
LEMMA EjectionIsBounded ==
  ASSUME NEW n, NEW e \in Nat
  PROVE  Ejected(n, e) \in 0..MaxTime
<1>1. BaseTime \in Nat /\ MaxTime \in Nat
  BY OutlierAssumption
<1>2. BaseTime * e \in Nat
  BY <1>1
<1> QED
  BY <1>1, <1>2 DEF Ejected, Smaller

LEMMA LedgerStep == LedgerOK /\ [PenaltyNext]_penaltyVars => LedgerOK'
<1> SUFFICES ASSUME LedgerOK, [PenaltyNext]_penaltyVars
             PROVE  LedgerOK'
  OBVIOUS
<1>1. /\ Threshold \in Nat \ {0} /\ MaxTime \in Nat /\ MaxEjects \in Nat /\ MaxReports \in Nat
  BY OutlierAssumption, PenaltyAssumption DEF MaxEjects
<1>2. ASSUME NEW n \in Node, Fail(n) PROVE LedgerOK'
  <2> DEFINE e == Smaller(ejects[n] + 1, MaxEjects)
  <2>1. e \in 0..MaxEjects /\ e \in Nat
    BY <1>1 DEF LedgerOK, Smaller
  <2>2. /\ fails' = [fails EXCEPT ![n] = Smaller(@ + 1, Threshold)]
        /\ streak' = [streak EXCEPT ![n] = Smaller(@ + 1, Threshold)]
        /\ ejects' = [ejects EXCEPT ![n] = IF Reached(n) THEN e ELSE @]
        /\ left' = [left EXCEPT ![n] = IF Reached(n) THEN Ejected(n, e) ELSE @]
        /\ owed[n] > 0 /\ owed' = [owed EXCEPT ![n] = @ - 1] /\ todo' = todo
    BY <1>2 DEF Fail, ReportNodeFail
  <2> HIDE DEF e
  <2>3. Ejected(n, e) \in 0..MaxTime
    BY <2>1, EjectionIsBounded
  <2>4. \A k \in 0..Threshold : Smaller(k + 1, Threshold) \in 0..Threshold
    BY <1>1 DEF Smaller
  <2>5. ejects' \in [Node -> 0..MaxEjects] /\ left' \in [Node -> {NotEjected} \cup 0..MaxTime]
    BY <2>1, <2>2, <2>3 DEF LedgerOK
  <2>6. fails' \in [Node -> 0..Threshold] /\ streak' \in [Node -> 0..Threshold]
    BY <2>2, <2>4 DEF LedgerOK
  <2>7. owed' \in [Node -> 0..MaxReports]
    BY <1>1, <2>2 DEF LedgerOK
  <2> QED
    BY <2>2, <2>5, <2>6, <2>7 DEF LedgerOK
<1>3. ASSUME NEW n \in Node, Complain(n) PROVE LedgerOK'
  BY <1>1, <1>3 DEF Complain, outlierVars, LedgerOK
<1>4. ASSUME NEW n \in Node, ReportNodeSuccess(n), UNCHANGED owed PROVE LedgerOK'
  BY <1>1, <1>4 DEF ReportNodeSuccess, LedgerOK
<1>5. ASSUME NEW S \in SUBSET Known, RecoverOutliers(S), UNCHANGED owed PROVE LedgerOK'
  BY <1>1, <1>5 DEF RecoverOutliers, Known, LedgerOK
<1>6. ASSUME NEW n \in Node, RecoverWeight(n) \/ RemoveNode(n), UNCHANGED owed PROVE LedgerOK'
  BY <1>6 DEF RecoverWeight, RemoveNode, LedgerOK
<1>7. CASE PassTime
  BY <1>1, <1>7 DEF PassTime, OutlierTick, LedgerOK, NotEjected
<1>8. ASSUME UNCHANGED <<fails, left, ejects, todo, streak, owed>> PROVE LedgerOK'
  BY <1>8 DEF LedgerOK
<1> QED
  BY <1>2, <1>3, <1>4, <1>5, <1>6, <1>7, <1>8
     DEF PenaltyNext, OutlierStep, RegisterNode, StoreWeight, CheckWeight, ClampWeight, outlierVars, penaltyVars

\* The penalties keep their types for all limits: no count passes the limit it is
\* compared with, no ejection and no cool-down is longer than the longest, and no
\* weight lies below the floor or more than a step above the maximum.
THEOREM PenaltiesTypeCorrect == PenaltySpec => []PenaltyTypeOK
<1>1. PenaltyInit => LedgerOK
  BY OutlierAssumption, PenaltyAssumption
     DEF PenaltyInit, OutlierInit, LedgerOK, NotEjected, MaxEjects
<1>2. ASSUME LedgerOK, WeightInv, ComplaintInv PROVE PenaltyTypeOK
  <2>1. OutlierTypeOK
    BY <1>2 DEF LedgerOK, WeightInv, OutlierTypeOK
  <2>2. C!TypeOK
    <3>1. \A n \in Node : /\ count[n] \in 0..Limit - 1
                         /\ winAge[n] \in 0..C!Cap
                         /\ recent[n] \in Seq(0..C!Cap) /\ Len(recent[n]) <= C!MaxRecent
      BY <1>2 DEF ComplaintInv, WindowsAreKept
    <3> QED
      BY <1>2, <3>1 DEF ComplaintInv, C!TypeOK
  <2> QED
    BY <1>2, <2>1, <2>2 DEF LedgerOK, PenaltyTypeOK
<1>3. ComplaintInv /\ [PenaltyNext]_penaltyVars => ComplaintInv'
  BY ComplaintStep
<1> QED
  BY <1>1, <1>2, <1>3, WeightInit, WeightStep, LedgerStep, ComplaintInit, PTL DEF PenaltySpec
=============================================================================
