--------------------------- MODULE NodePenalties ----------------------------
(***************************************************************************)
(* What viewers' quality reports do to a node: handleQualityReport         *)
(* (internal/controller/server.go) records a complaint (Complaints) and    *)
(* then, under another lock, a failure (Outliers), or it records a         *)
(* success; cleanupLoop ends ejections and raises weights.  One clock ages *)
(* the complaint windows, the cool-downs and the ejections.                *)
(*                                                                         *)
(* Handlers run concurrently: between the complaint and the failure of one *)
(* report come other reports, a pass of cleanupLoop, or the removal of the *)
(* node.                                                                   *)
(***************************************************************************)
EXTENDS Outliers, Sequences

CONSTANTS
    Limit, Window, Cooldown,   \* of Complaints
    MaxReports                 \* bound: reports of a node being handled

ASSUME PenaltyAssumption ==
    /\ Limit \in Nat \ {0, 1}
    /\ Window \in Nat
    /\ Cooldown \in Nat \ {0}
    /\ MaxReports \in Nat \ {0}

VARIABLES
    count, winAge, cooling, recent,   \* of Complaints
    owed    \* reports that recorded a complaint and not yet a failure

C == INSTANCE Complaints

complaintVars == <<count, winAge, cooling, recent>>
penaltyVars == <<outlierVars, complaintVars, owed>>

PenaltyTypeOK ==
    /\ OutlierTypeOK
    /\ C!TypeOK
    /\ owed \in [Node -> 0..MaxReports]

PenaltyInit ==
    /\ OutlierInit
    /\ C!Init
    /\ owed = [n \in Node |-> 0]

\* A report of stalling, or of an error: first the complaint...
Complain(n) ==
    /\ owed[n] < MaxReports
    /\ C!RecordComplaint(n)
    /\ owed' = [owed EXCEPT ![n] = @ + 1]
    /\ UNCHANGED outlierVars

\* ...then the failure.
Fail(n) ==
    /\ owed[n] > 0
    /\ ReportNodeFail(n)
    /\ owed' = [owed EXCEPT ![n] = @ - 1]
    /\ UNCHANGED complaintVars

\* Operations that concern the outlier state and the weights only.
OutlierStep ==
    /\ \/ \E n \in Node : ReportNodeSuccess(n) \/ RecoverWeight(n) \/ RegisterNode(n) \/ RemoveNode(n)
       \/ \E t \in Thread : StoreWeight(t) \/ CheckWeight(t) \/ ClampWeight(t)
       \/ \E S \in SUBSET Known : RecoverOutliers(S)
    /\ UNCHANGED <<complaintVars, owed>>

PassTime ==
    /\ OutlierTick
    /\ C!Tick
    /\ UNCHANGED owed

PenaltyNext ==
    \/ \E n \in Node : Complain(n) \/ Fail(n)
    \/ OutlierStep
    \/ PassTime

\* The clock, the cleanup ticker and the handlers that have begun keep going.
PenaltyFairness ==
    /\ WF_penaltyVars(PassTime)
    /\ \A n \in Node : WF_penaltyVars(Fail(n))
    /\ \A t \in Thread :
          WF_penaltyVars((StoreWeight(t) \/ CheckWeight(t) \/ ClampWeight(t)) /\ UNCHANGED <<complaintVars, owed>>)
    /\ \A n \in Node : WF_penaltyVars(RecoverWeight(n) /\ UNCHANGED <<complaintVars, owed>>)
    /\ WF_penaltyVars((\E S \in SUBSET Known : RecoverOutliers(S)) /\ UNCHANGED <<complaintVars, owed>>)

PenaltySpec == PenaltyInit /\ [][PenaltyNext]_penaltyVars /\ PenaltyFairness
-----------------------------------------------------------------------------
(* Properties.                                                             *)

\* A node starts to cool, or its cooling is extended, only by a complaint that
\* makes Limit of them within the last Window, none of them spent on an earlier
\* cool-down, however windows have begun and ended before.
CoolingIsEarned ==
    [][\A n \in Node : cooling'[n] > cooling[n] =>
          Len(recent[n]) >= Limit - 1 /\ recent[n][Limit - 1] <= Window]_penaltyVars

\* What is left of "3 complaints in 5 min -> 10 min cooldown" (store.go:283),
\* as windows are fixed at their first complaint and complaints on both sides
\* of a window's end are not added up: of 2 * Limit - 1 complaints within the
\* last Window one has given, or the last one gives, a cool-down.
EnoughComplaintsCool ==
    [][\A n \in Node :
          /\ Complain(n)
          /\ Len(recent[n]) = C!MaxRecent
          /\ recent[n][C!MaxRecent] <= Window
          => C!isCooling(n)']_penaltyVars

\* A node that viewers stop complaining about comes back: it is again and again
\* neither cooling nor ejected, whatever reports and clean-up passes were under
\* way, and however often it had been ejected (RecoverOutliers, isCooling).
PenaltiesEnd ==
    \A n \in Node :
        \/ []<>(left[n] = NotEjected /\ ~C!isCooling(n))
        \/ []<><<Complain(n)>>_penaltyVars
=============================================================================
