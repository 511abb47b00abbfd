------------------------------ MODULE Outliers ------------------------------
(***************************************************************************)
(* Outlier detection and the effective weight of nodes: ReportNodeFail,    *)
(* ReportNodeSuccess and RecoverOutliers (internal/controller/scheduler.go) *)
(* and the weight recovery at the end of cleanupLoop (server.go).          *)
(*                                                                         *)
(* Reports hold outlierMu, so there is one at a time; cleanupLoop raises   *)
(* the weights without any lock, and neither takes the store's lock for    *)
(* the node it holds a pointer to.  Raising EffectiveWeight is then up to  *)
(* four separate accesses: a load, a store, a second load, and a store of  *)
(* the maximum if that load was above it.  As this is a data race, the     *)
(* second load may find what is there by then or, as the build may keep    *)
(* the value in a register, what the thread stored.  NodePenalties puts    *)
(* these operations together with those of Complaints.                     *)
(***************************************************************************)
EXTENDS Integers

CONSTANTS
    Node,         \* node ids that reports name
    Threshold,    \* 5 consecutive failures eject a node
    BaseTime,     \* 30 s, times the number of ejections,
    MaxTime,      \* but no more than 300 s
    Full,         \* weight 1.0, in the unit of the model
    Floor,        \* weight 0.1
    NewWeight,    \* weight 0.5 of a node that registers
    SuccessStep,  \* 0.1 for a success report
    CleanupStep   \* 0.05 for a pass of cleanupLoop

ASSUME OutlierAssumption ==
    /\ Threshold \in Nat \ {0}
    /\ BaseTime \in Nat \ {0}
    /\ MaxTime \in Nat
    /\ BaseTime <= MaxTime

ASSUME WeightAssumption ==
    /\ {Full, Floor, NewWeight, SuccessStep, CleanupStep} \subseteq Nat \ {0}
    /\ Floor <= NewWeight
    /\ NewWeight <= Full
    /\ SuccessStep <= Full
    /\ CleanupStep <= Full

VARIABLES
    fails,   \* outlierState.consecutiveFails, no further than Threshold
    left,    \* until outlierState.ejectedUntil: NotEjected if unset, 0 if passed
    ejects,  \* outlierState.ejectCount, no further than MaxEjects
    weight,  \* NodeInfo.EffectiveWeight, or Unknown: not in the store
    update,  \* the weight update a report, or the cleanup, is in
    todo,    \* nodes the cleanup has listed and not reached
    streak   \* history: failures since the last success, up to Threshold

outlierVars == <<fails, left, ejects, weight, update, todo, streak>>

NotEjected == -1
Unknown == 0
MaxEjects == MaxTime + 1   \* more ejections than make the longest time
Thread == {"report", "cleanup"}
Step == {"idle", "raise", "lower", "check", "clamp"}
Idle == [step |-> "idle", node |-> "none", value |-> 0]

Larger(a, b) == IF a > b THEN a ELSE b
Smaller(a, b) == IF a < b THEN a ELSE b

\* A store may go above Full before it is corrected, by either step.
MaxStored == Full + Larger(SuccessStep, CleanupStep)

OutlierTypeOK ==
    /\ fails \in [Node -> 0..Threshold]
    /\ left \in [Node -> {NotEjected} \cup 0..MaxTime]
    /\ ejects \in [Node -> 0..MaxEjects]
    /\ weight \in [Node -> {Unknown} \cup Floor..MaxStored]
    /\ update \in [Thread -> [step : Step,
                              node : Node \cup {"none"},
                              value : 0..MaxStored]]
    /\ todo \subseteq Node
    /\ streak \in [Node -> 0..Threshold]

OutlierInit ==
    /\ fails = [n \in Node |-> 0]
    /\ left = [n \in Node |-> NotEjected]
    /\ ejects = [n \in Node |-> 0]
    /\ weight = [n \in Node |-> Unknown]
    /\ update = [t \in Thread |-> Idle]
    /\ todo = {}
    /\ streak = [n \in Node |-> 0]

-----------------------------------------------------------------------------
(* The weight of a node.                                                   *)

Decay(w) == Larger(w \div 2, Floor)

\* The update of a thread that has loaded the weight of n, and is to store w.
Raised(n, w) == [step |-> "raise", node |-> n, value |-> w]
Lowered(n, w) == [step |-> "lower", node |-> n, value |-> w]

\* Fault: the value is stored as it is, however large.
StoreWeightUnclamped(t) ==
    /\ update[t].step \in {"raise", "lower"}
    /\ weight' = [weight EXCEPT ![update[t].node] = update[t].value]
    /\ update' = [update EXCEPT ![t] = Idle]
    /\ UNCHANGED <<fails, left, ejects, todo, streak>>

\* A raised weight is looked at once more, a lowered one is not.
StoreWeight(t) ==
    /\ update[t].step \in {"raise", "lower"}
    /\ weight' = [weight EXCEPT ![update[t].node] = update[t].value]
    /\ update' = [update EXCEPT ![t] = IF @.step = "raise" THEN [@ EXCEPT !.step = "check"] ELSE Idle]
    /\ UNCHANGED <<fails, left, ejects, todo, streak>>

\* The second load: what is in the record now, or what this thread stored.
CheckWeight(t) ==
    /\ update[t].step = "check"
    /\ \E seen \in {weight[update[t].node], update[t].value} :
          update' = [update EXCEPT ![t] = IF seen > Full THEN [@ EXCEPT !.step = "clamp", !.value = Full] ELSE Idle]
    /\ UNCHANGED <<fails, left, ejects, weight, todo, streak>>

ClampWeight(t) ==
    /\ update[t].step = "clamp"
    /\ weight' = [weight EXCEPT ![update[t].node] = Full]
    /\ update' = [update EXCEPT ![t] = Idle]
    /\ UNCHANGED <<fails, left, ejects, todo, streak>>

-----------------------------------------------------------------------------
(* Reports, made by handleQualityReport.                                   *)

Ejected(n, e) == Smaller(BaseTime * e, MaxTime)

\* The failure being reported is the Threshold-th in a row, or a later one.
Reached(n) == fails[n] + 1 >= Threshold

\* Every failure from the Threshold-th on ejects the node again, for longer.
ReportNodeFail(n) ==
    LET e == Smaller(ejects[n] + 1, MaxEjects)
    IN  /\ update["report"] = Idle
        /\ fails' = [fails EXCEPT ![n] = Smaller(@ + 1, Threshold)]
        /\ streak' = [streak EXCEPT ![n] = Smaller(@ + 1, Threshold)]
        /\ ejects' = [ejects EXCEPT ![n] = IF Reached(n) THEN e ELSE @]
        /\ left' = [left EXCEPT ![n] = IF Reached(n) THEN Ejected(n, e) ELSE @]
        /\ update' = [update EXCEPT !["report"] =
                        IF weight[n] = Unknown THEN Idle ELSE Lowered(n, Decay(weight[n]))]
        /\ UNCHANGED <<weight, todo>>

\* Fault: a success does not end the run of failures.
ReportNodeSuccessKeepsFails(n) ==
    /\ update["report"] = Idle
    /\ streak' = [streak EXCEPT ![n] = 0]
    /\ ejects' = [ejects EXCEPT ![n] = IF left[n] = 0 THEN 0 ELSE @]
    /\ left' = [left EXCEPT ![n] = IF @ = 0 THEN NotEjected ELSE @]
    /\ UNCHANGED <<fails, weight, update, todo>>

\* A success clears an ejection that has run out, and only then its count.
ReportNodeSuccess(n) ==
    /\ update["report"] = Idle
    /\ fails' = [fails EXCEPT ![n] = 0]
    /\ streak' = [streak EXCEPT ![n] = 0]
    /\ ejects' = [ejects EXCEPT ![n] = IF left[n] = 0 THEN 0 ELSE @]
    /\ left' = [left EXCEPT ![n] = IF @ = 0 THEN NotEjected ELSE @]
    /\ update' = [update EXCEPT !["report"] =
                    IF weight[n] = Unknown \/ weight[n] >= Full THEN Idle
                    ELSE Raised(n, weight[n] + SuccessStep)]
    /\ UNCHANGED <<weight, todo>>

-----------------------------------------------------------------------------
(* A pass of cleanupLoop.                                                  *)

\* Fault: ejections that ran out are not cleared.
RecoverOutliersForgets(S) ==
    /\ update["cleanup"] = Idle
    /\ todo = {}
    /\ todo' = S
    /\ UNCHANGED <<fails, left, ejects, weight, update, streak>>

\* RecoverOutliers, and the list of healthy nodes (any of the known ones).
RecoverOutliers(S) ==
    /\ update["cleanup"] = Idle
    /\ todo = {}
    /\ fails' = [n \in Node |-> IF left[n] = 0 THEN 0 ELSE fails[n]]
    /\ left' = [n \in Node |-> IF left[n] = 0 THEN NotEjected ELSE left[n]]
    /\ todo' = S
    /\ UNCHANGED <<ejects, weight, update, streak>>

\* The loop's next node: its weight is raised if it is below the maximum.
RecoverWeight(n) ==
    /\ update["cleanup"] = Idle
    /\ n \in todo
    /\ todo' = todo \ {n}
    /\ update' = [update EXCEPT !["cleanup"] =
                    IF weight[n] = Unknown \/ weight[n] >= Full THEN Idle
                    ELSE Raised(n, weight[n] + CleanupStep)]
    /\ UNCHANGED <<fails, left, ejects, weight, streak>>

-----------------------------------------------------------------------------
(* The registry and the clock.                                             *)

\* RegisterNode of an id that is not known.
RegisterNode(n) ==
    /\ weight[n] = Unknown
    /\ weight' = [weight EXCEPT ![n] = NewWeight]
    /\ UNCHANGED <<fails, left, ejects, update, todo, streak>>

\* The id is removed from the map.  Updates under way write to the old record,
\* which nobody reads again; its outlier state stays.
RemoveNode(n) ==
    /\ weight[n] # Unknown
    /\ weight' = [weight EXCEPT ![n] = Unknown]
    /\ update' = [t \in Thread |-> IF update[t].node = n THEN Idle ELSE update[t]]
    /\ todo' = todo \ {n}
    /\ UNCHANGED <<fails, left, ejects, streak>>

OutlierTick ==
    /\ left' = [n \in Node |-> IF left[n] > 0 THEN left[n] - 1 ELSE left[n]]
    /\ UNCHANGED <<fails, ejects, weight, update, todo, streak>>

Known == {n \in Node : weight[n] # Unknown}
-----------------------------------------------------------------------------
(* Properties.                                                             *)

\* An ejection starts, or is extended, only by the last of Threshold failures
\* with no success between them: neither an ejection that ran out nor a weight
\* recovery lowers that number.
EjectionIsEarned ==
    [][\A n \in Node : left'[n] > 0 /\ left'[n] > left[n] => streak'[n] = Threshold]_outlierVars

\* Whenever no update of a node is under way its weight is between the floor and
\* the maximum, whatever order the unlocked loads and stores of a report and of
\* the cleanup ran in.
WeightSettles ==
    \A n \in Node :
        weight[n] # Unknown /\ (\A t \in Thread : update[t].node # n) =>
            weight[n] \in Floor..Full
=============================================================================
