-------------------------------- MODULE Mesh --------------------------------
(***************************************************************************)
(* The cascade of agents: which agent pulls streams from which other one.  *)
(* The Controller keeps the cascade flags a node registered with and       *)
(* offers upstreams by tier (internal/controller/mesh.go and RegisterNode  *)
(* in store.go); agents choose among what they were offered                *)
(* (agent-rust/src/relay/cascade_selector.rs, of which CascadeSelector is  *)
(* the detailed model) and register and report as heartbeat_loop does      *)
(* (agent-rust/src/main.rs).                                               *)
(*                                                                         *)
(* A node with cascade_enabled and no cascade_upstream is a relay, Tier 1; *)
(* every other one is an edge, Tier 2.  Health, load and score decide      *)
(* which of the eligible relays are offered: any of them may be.           *)
(***************************************************************************)
EXTENDS Integers, FiniteSets

CONSTANTS
    Node,         \* agents
    Origin,       \* stands for no upstream agent: pull from the origin
    RoleChoices,  \* roles each agent may be configured with
    MaxOffers     \* 3 candidates at most

RoleType == {"relay", "edge"}

ASSUME MeshAssumption ==
    /\ Origin \notin Node
    /\ RoleChoices \in [Node -> SUBSET RoleType]
    /\ \A n \in Node : RoleChoices[n] # {}
    /\ MaxOffers \in Nat

VARIABLES
    role,    \* the configuration of the running agent process
    record,  \* the role the Controller has recorded, or "absent"
    flight,  \* the heartbeat response on its way: {} or {offers}
    known,   \* last_mesh_response: {} or {offers}
    held,    \* the copy of it that emergency_switch took: {} or {offers}
    path     \* current_path: an agent, or Origin

meshVars == <<role, record, flight, known, held, path>>

Answer == {{}} \cup {{C} : C \in SUBSET Node}

MeshTypeOK ==
    /\ role \in [Node -> RoleType]
    /\ record \in [Node -> RoleType \cup {"absent"}]
    /\ flight \in [Node -> Answer]
    /\ known \in [Node -> Answer]
    /\ held \in [Node -> Answer]
    /\ path \in [Node -> Node \cup {Origin}]

MeshInit ==
    /\ role \in [Node -> RoleType]
    /\ \A n \in Node : role[n] \in RoleChoices[n]
    /\ record = [n \in Node |-> "absent"]
    /\ flight = [n \in Node |-> {}]
    /\ known = [n \in Node |-> {}]
    /\ held = [n \in Node |-> {}]
    /\ path = [n \in Node |-> Origin]

-----------------------------------------------------------------------------
(* The Controller.                                                         *)

\* An agent registers when it starts, in a task beside the heartbeat's, and when
\* a heartbeat is answered 404.  The flags of an id that is known stay.
RegisterNode(n) ==
    /\ record' = [record EXCEPT ![n] = IF @ = "absent" THEN role[n] ELSE @]
    /\ UNCHANGED <<role, flight, known, held, path>>

\* A stale node, one the administrator removes, or, with all others, one that
\* a restarted Controller no longer knows.
RemoveNodes(S) ==
    /\ record' = [n \in Node |-> IF n \in S THEN "absent" ELSE record[n]]
    /\ UNCHANGED <<role, flight, known, held, path>>

computeTier(n) == IF record[n] = "relay" THEN 1 ELSE 2

\* Fault: relays of the requester's own tier are offered too.
EligibleSameTier(n) ==
    {m \in Node \ {n} : record[m] = "relay" /\ computeTier(m) <= computeTier(n)}

\* Nodes of a lower tier that allow the cascade.
Eligible(n) ==
    {m \in Node \ {n} : record[m] = "relay" /\ computeTier(m) < computeTier(n)}

\* What may be offered: buildCandidate refuses nodes that are too busy, and the
\* best MaxOffers of the others by score are kept.
Candidates(n) == {C \in SUBSET Eligible(n) : Cardinality(C) <= MaxOffers}

\* handleHeartbeat with buildMeshMapResponse, for a node that is known.
Heartbeat(n) ==
    /\ record[n] # "absent"
    /\ flight[n] = {}
    /\ \E C \in Candidates(n) : flight' = [flight EXCEPT ![n] = {C}]
    /\ UNCHANGED <<role, record, known, held, path>>

-----------------------------------------------------------------------------
(* An agent.                                                               *)

\* The response is lost: the request timed out or the connection broke.
LoseResponse(n) ==
    /\ flight[n] # {}
    /\ flight' = [flight EXCEPT ![n] = {}]
    /\ UNCHANGED <<role, record, known, held, path>>

\* update_mesh_map changes the path, if at all: to the origin when nothing is
\* offered, and otherwise to one of the offers,
ApplyOffers(n) ==
    /\ \E C \in flight[n] : \E p \in IF C = {} THEN {Origin} ELSE C :
          path' = [path EXCEPT ![n] = p]
    /\ UNCHANGED <<role, record, flight, known, held>>

\* and then stores the response.
StoreOffers(n) ==
    /\ flight[n] # {}
    /\ known' = [known EXCEPT ![n] = flight[n]]
    /\ flight' = [flight EXCEPT ![n] = {}]
    /\ UNCHANGED <<role, record, held, path>>

\* emergency_switch, run by the ping task at any time once there is a stored
\* response: it copies the response,
CopyOffers(n) ==
    /\ held[n] = {} /\ known[n] # {}
    /\ held' = [held EXCEPT ![n] = known[n]]
    /\ UNCHANGED <<role, record, flight, known, path>>

\* and changes the path to one of the offers in the copy, which may have been
\* replaced by then.
EmergencySwitch(n) ==
    /\ \E C \in held[n] : \E p \in IF C = {} THEN {Origin} ELSE C :
          path' = [path EXCEPT ![n] = p]
    /\ held' = [held EXCEPT ![n] = {}]
    /\ UNCHANGED <<role, record, flight, known>>

\* The process ends and a new one starts, perhaps with another configuration.
RestartAgent(n) ==
    /\ \E r \in RoleChoices[n] : role' = [role EXCEPT ![n] = r]
    /\ flight' = [flight EXCEPT ![n] = {}]
    /\ known' = [known EXCEPT ![n] = {}]
    /\ held' = [held EXCEPT ![n] = {}]
    /\ path' = [path EXCEPT ![n] = Origin]
    /\ UNCHANGED record

MeshNext ==
    \/ \E n \in Node :
          \/ RegisterNode(n) \/ RemoveNodes({n}) \/ Heartbeat(n) \/ LoseResponse(n)
          \/ ApplyOffers(n) \/ StoreOffers(n)
          \/ CopyOffers(n) \/ EmergencySwitch(n) \/ RestartAgent(n)
    \/ RemoveNodes(Node)

MeshSpec == MeshInit /\ [][MeshNext]_meshVars
-----------------------------------------------------------------------------
(* Properties.                                                             *)

\* What makes the cascade safe while roles are kept: the Controller's record of
\* a node is right or absent, every offer under way or remembered is of relays
\* to an edge, and so is every path taken.
OffersAreSafe ==
    /\ MeshTypeOK
    /\ \A n \in Node : role[n] \in RoleChoices[n]
    /\ \A n \in Node : record[n] \in {"absent", role[n]}
    /\ \A n \in Node : \A C \in flight[n] \cup known[n] \cup held[n] :
          C # {} => role[n] = "edge" /\ \A m \in C : role[m] = "relay"
    /\ \A n \in Node : path[n] # Origin => role[n] = "edge" /\ role[path[n]] = "relay"

\* As long as agents keep their roles, an agent that others pull from pulls
\* from the origin itself: the cascade has two levels and no loop, whatever
\* responses are late or lost, whatever nodes are removed and register again,
\* and whatever the agents choose.
Layered == \A n \in Node : path[n] # Origin => path[path[n]] = Origin

\* "Tier1 不能从 Tier1 拉 ✗ (同层互拉会形成环路)" (mesh.go:182): agents never pull
\* from each other in a circle.  Registering again does not update the recorded
\* flags, so the role an agent is treated by and the one it has may differ until
\* the Controller forgets it; then agents that changed roles can be offered to
\* each other.
NoLoop == \A S \in SUBSET Node : S # {} => \E n \in S : path[n] \notin S
=============================================================================
