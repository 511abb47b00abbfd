----------------------------- MODULE Complaints -----------------------------
(***************************************************************************)
(* Viewer complaints and the cool-down they earn a node: the complaints    *)
(* map of MemoryStore (internal/controller/store.go, RecordComplaint and   *)
(* isCooling), fed by handleQualityReport (server.go).  Entries are made   *)
(* on the first complaint and never deleted, so a node that has none is    *)
(* one whose window began at the zero time, longer ago than any limit.     *)
(* NodePenalties puts these operations together with those of Outliers.    *)
(***************************************************************************)
EXTENDS Integers, Sequences

CONSTANTS
    Node,      \* node ids that reports name
    Limit,     \* 3 complaints
    Window,    \* in 5 minutes
    Cooldown   \* make 10 minutes of cooling

VARIABLES
    count,    \* complaintWindow.count
    winAge,   \* age of complaintWindow.firstAt
    cooling,  \* what is left of complaintWindow.cooldown; 0: it is over
    recent    \* history: ages of the last MaxRecent complaints that no cool-down
              \* was given for, newest first

vars == <<count, winAge, cooling, recent>>

Cap == Window + 1   \* an age no comparison tells from a larger one
MaxRecent == 2 * (Limit - 1)   \* as many as two windows can leave uncooled

TypeOK ==
    /\ count \in [Node -> 0..Limit - 1]
    /\ winAge \in [Node -> 0..Cap]
    /\ cooling \in [Node -> 0..Cooldown]
    /\ \A n \in Node : recent[n] \in Seq(0..Cap) /\ Len(recent[n]) <= MaxRecent

Init ==
    /\ count = [n \in Node |-> 0]
    /\ winAge = [n \in Node |-> Cap]
    /\ cooling = [n \in Node |-> 0]
    /\ recent = [n \in Node |-> << >>]

isCooling(n) == cooling[n] > 0

\* Fault: a window that has not run out does.
CountedEarly(n) == IF winAge[n] >= Window THEN 1 ELSE count[n] + 1

\* The complaint's number in its window, which starts over when it is too old.
Counted(n) == IF winAge[n] > Window THEN 1 ELSE count[n] + 1

\* The history of complaints after one that is, or is not, answered by cooling.
Remember(n, cools) ==
    recent' = [recent EXCEPT ![n] =
                 IF cools THEN << >>
                 ELSE SubSeq(<<0>> \o @, 1, IF Len(@) < MaxRecent THEN Len(@) + 1 ELSE MaxRecent)]

RecordComplaintAs(n, cools, left) ==
    /\ winAge' = [winAge EXCEPT ![n] = IF @ > Window THEN 0 ELSE @]
    /\ count' = [count EXCEPT ![n] = left]
    /\ cooling' = [cooling EXCEPT ![n] = IF cools THEN Cooldown ELSE @]
    /\ Remember(n, cools)

\* Fault: the limit is off by one.
RecordComplaintEarly(n) ==
    RecordComplaintAs(n, Counted(n) + 1 >= Limit, IF Counted(n) + 1 >= Limit THEN 0 ELSE Counted(n))

RecordComplaint(n) ==
    RecordComplaintAs(n, Counted(n) >= Limit, IF Counted(n) >= Limit THEN 0 ELSE Counted(n))

Older(a) == IF a = Cap THEN a ELSE a + 1

Tick ==
    /\ winAge' = [n \in Node |-> Older(winAge[n])]
    /\ cooling' = [n \in Node |-> IF cooling[n] = 0 THEN 0 ELSE cooling[n] - 1]
    /\ recent' = [n \in Node |-> [i \in DOMAIN recent[n] |-> Older(recent[n][i])]]
    /\ UNCHANGED count
=============================================================================
