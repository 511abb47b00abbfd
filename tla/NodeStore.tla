----------------------------- MODULE NodeStore -----------------------------
(***************************************************************************)
(* The node registry of the Controller: the nodes map of MemoryStore       *)
(* (internal/controller/store.go), the agent and admin handlers of         *)
(* server.go that write it, the stale-node part of cleanupLoop, and the    *)
(* health test IsNodeHealthy (internal/common/utils.go).                   *)
(*                                                                         *)
(* Every store method holds MemoryStore.mu, so it is one step; a handler   *)
(* that calls two of them (handleApproveNode) is two.  Time is kept as the *)
(* age of each LastHB, advanced by Tick and capped at MaxAge, which no     *)
(* comparison of the code can tell from any larger age.                    *)
(***************************************************************************)
EXTENDS Integers

CONSTANTS
    Node,            \* node ids
    HealthyAge,      \* 15 s: an older heartbeat makes a node unhealthy
    Timeouts,        \* values admins may give stale_node_timeout
    DefaultTimeout,  \* 120 s, used when the configured value is 0
    MaxAge           \* cap of the ages: larger than every threshold

ASSUME AgeAssumption ==
    /\ HealthyAge \in Nat
    /\ MaxAge \in Nat
    /\ HealthyAge < MaxAge

ASSUME TimeoutAssumption ==
    /\ Timeouts \subseteq Int
    /\ DefaultTimeout \in Timeouts
    /\ \A t \in Timeouts : t < MaxAge

VARIABLES
    status,        \* NodeInfo.Status, or "absent": id not in the nodes map
    hbAge,         \* age of NodeInfo.LastHB
    bw,            \* BWUsed/BWLimit against the 70% threshold
    lossy,         \* LossRate > 0.05
    approving,     \* handleApproveNode calls between their two store calls
    staleTimeout,  \* cfg.StaleNodeTimeout
    vouched        \* history: ids an admin acted on, or a heartbeat reported
                   \* for, since they were last registered

vars == <<status, hbAge, bw, lossy, approving, staleTimeout, vouched>>

NodeStatus == {"online", "busy", "offline", "cooling", "pending"}
AdminStatus == NodeStatus \ {"pending"}
RequestStatus == NodeStatus \cup {"unknown"}   \* what an admin may send
BWLevel == {"under", "at", "over"}

Registered(n) == status[n] # "absent"

TypeOK ==
    /\ status \in [Node -> NodeStatus \cup {"absent"}]
    /\ hbAge \in [Node -> 0..MaxAge]
    /\ bw \in [Node -> BWLevel]
    /\ lossy \in [Node -> BOOLEAN]
    /\ approving \subseteq Node
    /\ staleTimeout \in Timeouts
    /\ vouched \subseteq Node

Init ==
    /\ status = [n \in Node |-> "absent"]
    /\ hbAge = [n \in Node |-> MaxAge]
    /\ bw = [n \in Node |-> "under"]
    /\ lossy = [n \in Node |-> FALSE]
    /\ approving = {}
    /\ staleTimeout = DefaultTimeout
    /\ vouched = {}

-----------------------------------------------------------------------------
(* The tests other components apply to a node.                             *)

IsNodeHealthy(n) ==
    /\ status[n] \notin {"absent", "offline", "cooling", "pending"}
    /\ hbAge[n] <= HealthyAge
    /\ bw[n] # "over"
    /\ ~lossy[n]

\* cleanupLoop reads the configured value on every pass; 0 means the default.
EffectiveTimeout == IF staleTimeout = 0 THEN DefaultTimeout ELSE staleTimeout

\* Fault: the stale test is blind to nodes not in service.
IsStaleInServiceOnly(n) ==
    status[n] \in {"online", "busy"} /\ hbAge[n] > EffectiveTimeout

IsStale(n) == Registered(n) /\ hbAge[n] > EffectiveTimeout

-----------------------------------------------------------------------------
(* Deleting ids from the map: the records go, and so does their history.   *)

Delete(S) ==
    /\ status' = [n \in Node |-> IF n \in S THEN "absent" ELSE status[n]]
    /\ hbAge' = [n \in Node |-> IF n \in S THEN MaxAge ELSE hbAge[n]]
    /\ bw' = [n \in Node |-> IF n \in S THEN "under" ELSE bw[n]]
    /\ lossy' = [n \in Node |-> IF n \in S THEN FALSE ELSE lossy[n]]
    /\ vouched' = vouched \ S
    /\ UNCHANGED <<approving, staleTimeout>>

\* Fault: a new node is put in service at once.
RegisterNewOnline(n) ==
    /\ ~Registered(n)
    /\ status' = [status EXCEPT ![n] = "online"]
    /\ hbAge' = [hbAge EXCEPT ![n] = 0]
    /\ UNCHANGED <<bw, lossy, approving, staleTimeout, vouched>>

\* Agent registration.  A new id is pending, with no traffic measured yet.
RegisterNew(n) ==
    /\ ~Registered(n)
    /\ status' = [status EXCEPT ![n] = "pending"]
    /\ hbAge' = [hbAge EXCEPT ![n] = 0]
    /\ UNCHANGED <<bw, lossy, approving, staleTimeout, vouched>>

\* Fault: a reconnect puts the node in service.
RegisterAgainOnline(n, level) ==
    /\ Registered(n)
    /\ status' = [status EXCEPT ![n] = "online"]
    /\ hbAge' = [hbAge EXCEPT ![n] = 0]
    /\ bw' = [bw EXCEPT ![n] = level]
    /\ UNCHANGED <<lossy, approving, staleTimeout, vouched>>

\* Re-registration keeps the status, except that offline becomes online; the
\* request carries a new BWLimit, so the measured load may change level.
RegisterAgain(n, level) ==
    /\ Registered(n)
    /\ status' = [status EXCEPT ![n] = IF @ = "offline" THEN "online" ELSE @]
    /\ hbAge' = [hbAge EXCEPT ![n] = 0]
    /\ bw' = [bw EXCEPT ![n] = level]
    /\ UNCHANGED <<lossy, approving, staleTimeout, vouched>>

\* A heartbeat of an id that is not in the map is answered 404 and changes
\* nothing; any other one replaces the metrics and the status.
UpdateHeartbeat(n, level, loss) ==
    /\ Registered(n)
    /\ status' = [status EXCEPT ![n] = "online"]
    /\ hbAge' = [hbAge EXCEPT ![n] = 0]
    /\ bw' = [bw EXCEPT ![n] = level]
    /\ lossy' = [lossy EXCEPT ![n] = loss]
    /\ vouched' = vouched \cup {n}
    /\ UNCHANGED <<approving, staleTimeout>>

\* Admin handlers.  SetNodeStatus is shared by handleSetNodeStatus and by the
\* second half of handleApproveNode; on an id that is gone it does nothing.
SetNodeStatus(n, st) ==
    /\ status' = [status EXCEPT ![n] = IF @ = "absent" THEN @ ELSE st]
    /\ vouched' = IF Registered(n) THEN vouched \cup {n} ELSE vouched

HandleSetNodeStatus(n, st) ==
    /\ st \in AdminStatus
    /\ Registered(n)
    /\ SetNodeStatus(n, st)
    /\ UNCHANGED <<hbAge, bw, lossy, approving, staleTimeout>>

\* handleApproveNode tests the status under one lock and writes it under
\* another: anything may happen in between.
ApproveCheck(n) ==
    /\ status[n] = "pending"
    /\ n \notin approving
    /\ approving' = approving \cup {n}
    /\ UNCHANGED <<status, hbAge, bw, lossy, staleTimeout, vouched>>

ApproveSet(n) ==
    /\ n \in approving
    /\ approving' = approving \ {n}
    /\ SetNodeStatus(n, "online")
    /\ UNCHANGED <<hbAge, bw, lossy, staleTimeout>>

RemoveNode(n) == Registered(n) /\ Delete({n})

HandleConfigUpdate(t) ==
    /\ staleTimeout # t
    /\ staleTimeout' = t
    /\ UNCHANGED <<status, hbAge, bw, lossy, approving, vouched>>

\* One pass of cleanupLoop over the nodes.
RemoveStaleNodes ==
    /\ \E n \in Node : IsStale(n)
    /\ Delete({n \in Node : IsStale(n)})

Older(a) == IF a < MaxAge THEN a + 1 ELSE a

Tick ==
    /\ hbAge' = [n \in Node |-> Older(hbAge[n])]
    /\ UNCHANGED <<status, bw, lossy, approving, staleTimeout, vouched>>

AgentStep ==
    \E n \in Node :
        \/ RegisterNew(n)
        \/ \E l \in BWLevel : RegisterAgain(n, l)
        \/ \E l \in BWLevel, loss \in BOOLEAN : UpdateHeartbeat(n, l, loss)

AdminStep ==
    \E n \in Node :
        \/ \E st \in RequestStatus : HandleSetNodeStatus(n, st)
        \/ ApproveCheck(n)
        \/ ApproveSet(n)
        \/ RemoveNode(n)

Next ==
    \/ AgentStep
    \/ AdminStep
    \/ \E t \in Timeouts : HandleConfigUpdate(t)
    \/ RemoveStaleNodes
    \/ Tick

\* The clock advances, and the ticker of cleanupLoop keeps firing.
Fairness == WF_vars(Tick) /\ WF_vars(RemoveStaleNodes)

Spec == Init /\ [][Next]_vars
FairSpec == Spec /\ Fairness
-----------------------------------------------------------------------------
(* Properties.                                                             *)

\* A node is never offered for service on the strength of its registrations
\* alone, however often it registers: an admin acted on it or a heartbeat was
\* accepted from it after the registration that created its record
\* (RegisterNode creates pending records and keeps them pending).
ServableIsVouched == \A n \in Node : IsNodeHealthy(n) => n \in vouched

\* The strengthening of ServableIsVouched that every step preserves: a record
\* nobody vouched for is still pending.
UnvouchedIsPending ==
    \A n \in Node : Registered(n) /\ n \notin vouched => status[n] = "pending"

\* A node becomes pending only when its record is created: no reconnect, admin
\* action or clean-up sends a node in service back to the approval queue.
PendingOnlyWhenCreated ==
    [][\A n \in Node :
          status'[n] = "pending" /\ status[n] # "pending" => status[n] = "absent"]_vars

\* A node that is never heard from again is eventually deleted, whatever
\* timeout is configured (cleanupLoop).
SilentNodeForgotten ==
    \A n \in Node : <>[](hbAge[n] > 0) => <>[](~Registered(n))

\* Refinement: what the readers of the registry see behaves as NodeView says.
viewOfNode ==
    [n \in Node |-> IF ~Registered(n) THEN "absent"
                    ELSE IF IsNodeHealthy(n) THEN "servable" ELSE "known"]

Abstract == INSTANCE NodeView WITH view <- viewOfNode

ImplementsNodeView == Abstract!ViewSpec
=============================================================================
