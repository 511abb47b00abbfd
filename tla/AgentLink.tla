------------------------------ MODULE AgentLink ------------------------------
(***************************************************************************)
(* The Rust agents and the Controller's node registry: the registration    *)
(* task and the heartbeat loop of an agent's process (main.rs) on one      *)
(* side, handleRegister and handleHeartbeat (server.go) with NodeStore on  *)
(* the other, and between them requests and replies that may be lost or    *)
(* time out.  Processes stop and start again with another configuration,   *)
(* and so does the Controller, whose registry is in memory.                *)
(*                                                                         *)
(* A Tick is one heartbeat interval.  While the network is in order a      *)
(* request is answered within it; while it is not, anything may be lost.   *)
(* A request whose client has given up may still be handled, but not after *)
(* the process has ended: the service manager waits before it starts the   *)
(* next one.                                                               *)
(***************************************************************************)
EXTENDS NodeStore

CONSTANTS
    Config,   \* configurations: whether the token is right, the cascade flags, and
              \* the rest (address, domain, protocol, limits)
    Nothing   \* no description

ASSUME ConfigAssumption ==
    /\ \A c \in Config : c.token \in BOOLEAN /\ c.cascade \in BOOLEAN
    /\ \A c \in Config : Nothing # [at |-> c.at, cascade |-> c.cascade]

VARIABLES
    up,      \* nodes whose process runs
    conf,    \* the configuration of each process
    start,   \* the registration task: its request, the reply, or the outcome
    hb,      \* the heartbeat loop: where its request or the reply is
    beaten,  \* nodes whose loop has had its turn in this interval
    late,    \* requests the client has given up, still to be handled or lost
    net,     \* "good" or "bad"
    record   \* what the registry describes a node by

agentVars == <<up, conf, start, hb, beaten, late, net>>
linkVars == <<vars, agentVars, record>>

Start == {"none", "waiting", "accepted", "refused", "ok", "failed"}
Heart == {"idle", "beating", "answered", "unknown", "registering"}

LinkInit ==
    /\ Init
    /\ up = {}
    /\ conf \in [Node -> Config]
    /\ start = [n \in Node |-> "none"]
    /\ hb = [n \in Node |-> "idle"]
    /\ beaten = {}
    /\ late = [n \in Node |-> {}]
    /\ net = "good"
    /\ record = [n \in Node |-> Nothing]

\* A step of the registry alone: what is deleted is no longer described.
Registry(A) ==
    /\ A
    /\ record' = [n \in Node |-> IF status'[n] = "absent" THEN Nothing ELSE record[n]]
-----------------------------------------------------------------------------
(* What the Controller does with a request of node n.                      *)

\* Fault: a node that is known keeps its whole description.
RegisterNodeKeeps(n) ==
    \/ /\ RegisterNew(n)
       /\ record' = [record EXCEPT ![n] = [at |-> conf[n].at, cascade |-> conf[n].cascade]]
    \/ RegisterAgain(n, "under") /\ UNCHANGED record

\* handleRegister with a good token.  Both branches of RegisterNode take the
\* address, the domain and the like from the request; the cascade flags are taken
\* for a new record only.  An agent never reports traffic, so its load is under the
\* threshold.
RegisterNode(n) ==
    \/ /\ RegisterNew(n)
       /\ record' = [record EXCEPT ![n] = [at |-> conf[n].at, cascade |-> conf[n].cascade]]
    \/ /\ RegisterAgain(n, "under")
       /\ record' = [record EXCEPT ![n].at = conf[n].at]

HandleRegister(n) ==
    IF conf[n].token THEN RegisterNode(n) ELSE UNCHANGED <<vars, record>>

\* handleHeartbeat: 403, 404 or 200.
HandleHeartbeat(n) ==
    IF conf[n].token /\ Registered(n)
    THEN UpdateHeartbeat(n, "under", FALSE) /\ UNCHANGED record
    ELSE UNCHANGED <<vars, record>>
-----------------------------------------------------------------------------
(* The process.                                                            *)

\* main: the registration is sent, and the loop's first turn is due at once.
StartAgent(n, c) ==
    /\ n \notin up
    /\ up' = up \cup {n}
    /\ conf' = [conf EXCEPT ![n] = c]
    /\ start' = [start EXCEPT ![n] = "waiting"]
    /\ beaten' = beaten \ {n}
    /\ UNCHANGED <<vars, hb, late, net, record>>

StopAgent(n) ==
    /\ n \in up
    /\ up' = up \ {n}
    /\ start' = [start EXCEPT ![n] = "none"]
    /\ hb' = [hb EXCEPT ![n] = "idle"]
    /\ late' = [late EXCEPT ![n] = {}]
    /\ UNCHANGED <<vars, conf, beaten, net, record>>

StartHandled(n) ==
    /\ start[n] = "waiting"
    /\ HandleRegister(n)
    /\ start' = [start EXCEPT ![n] = IF conf[n].token THEN "accepted" ELSE "refused"]
    /\ UNCHANGED <<up, conf, hb, beaten, late, net>>

\* The outcome is logged; the task ends.
StartReplied(n) ==
    /\ start[n] \in {"accepted", "refused"}
    /\ start' = [start EXCEPT ![n] = IF @ = "accepted" THEN "ok" ELSE "failed"]
    /\ UNCHANGED <<vars, up, conf, hb, beaten, late, net, record>>

\* A turn of heartbeat_loop.
Beat(n) ==
    /\ n \in up \ beaten /\ hb[n] = "idle"
    /\ hb' = [hb EXCEPT ![n] = "beating"]
    /\ beaten' = beaten \cup {n}
    /\ UNCHANGED <<vars, up, conf, start, late, net, record>>

BeatHandled(n) ==
    /\ hb[n] = "beating"
    /\ HandleHeartbeat(n)
    /\ hb' = [hb EXCEPT ![n] = IF conf[n].token /\ ~Registered(n) THEN "unknown" ELSE "answered"]
    /\ UNCHANGED <<up, conf, start, beaten, late, net>>

\* Fault: the answer is only logged.
BeatRepliedNoRetry(n) ==
    /\ hb[n] \in {"answered", "unknown"}
    /\ hb' = [hb EXCEPT ![n] = "idle"]
    /\ UNCHANGED <<vars, up, conf, start, beaten, late, net, record>>

\* A 404 makes the loop register before its next turn; any other answer, also
\* the one to that registration, ends the turn.
BeatReplied(n) ==
    /\ hb[n] \in {"answered", "unknown"}
    /\ hb' = [hb EXCEPT ![n] = IF @ = "unknown" THEN "registering" ELSE "idle"]
    /\ UNCHANGED <<vars, up, conf, start, beaten, late, net, record>>

RegisteredByLoop(n) ==
    /\ hb[n] = "registering"
    /\ HandleRegister(n)
    /\ hb' = [hb EXCEPT ![n] = "answered"]
    /\ UNCHANGED <<up, conf, start, beaten, late, net>>
-----------------------------------------------------------------------------
(* What goes wrong between the two.                                        *)

NetChanges ==
    /\ net' = IF net = "good" THEN "bad" ELSE "good"
    /\ UNCHANGED <<vars, up, conf, start, hb, beaten, late, record>>

\* The client's timeout, 10 s or 5 s, or an error of the connection.  The
\* registration task does not try again.
StartFails(n) ==
    /\ net = "bad" /\ start[n] \in {"waiting", "accepted", "refused"}
    /\ start' = [start EXCEPT ![n] = "failed"]
    /\ late' = [late EXCEPT ![n] = IF start[n] = "waiting" THEN @ \cup {"register"} ELSE @]
    /\ UNCHANGED <<vars, up, conf, hb, beaten, net, record>>

BeatFails(n) ==
    /\ net = "bad" /\ hb[n] # "idle"
    /\ hb' = [hb EXCEPT ![n] = "idle"]
    /\ late' = [late EXCEPT ![n] = CASE hb[n] = "beating" -> @ \cup {"heartbeat"}
                                     [] hb[n] = "registering" -> @ \cup {"register"}
                                     [] OTHER -> @]
    /\ UNCHANGED <<vars, up, conf, start, beaten, net, record>>

\* A request given up is handled after all, and its reply goes nowhere.
LateHandled(n) ==
    \E r \in late[n] :
        /\ IF r = "register" THEN HandleRegister(n) ELSE HandleHeartbeat(n)
        /\ late' = [late EXCEPT ![n] = @ \ {r}]
        /\ UNCHANGED <<up, conf, start, hb, beaten, net>>

LateLost(n) ==
    \E r \in late[n] :
        /\ late' = [late EXCEPT ![n] = @ \ {r}]
        /\ UNCHANGED <<vars, up, conf, start, hb, beaten, net, record>>

\* The Controller starts again with an empty registry and the configuration of
\* its file; every request under way fails.
RestartController ==
    /\ status' = [n \in Node |-> "absent"]
    /\ hbAge' = [n \in Node |-> MaxAge]
    /\ bw' = [n \in Node |-> "under"]
    /\ lossy' = [n \in Node |-> FALSE]
    /\ approving' = {}
    /\ staleTimeout' = DefaultTimeout
    /\ vouched' = {}
    /\ record' = [n \in Node |-> Nothing]
    /\ start' = [n \in Node |-> IF start[n] \in {"waiting", "accepted", "refused"}
                                THEN "failed" ELSE start[n]]
    /\ hb' = [n \in Node |-> "idle"]
    /\ late' = [n \in Node |-> {}]
    /\ UNCHANGED <<up, conf, beaten, net>>

\* While the network is in order an interval ends when every process has had
\* its turn and all it asked is answered.
LinkTick ==
    /\ net = "good" => \A n \in up : /\ n \in beaten /\ hb[n] = "idle"
                                     /\ start[n] \in {"ok", "failed"}
                                     /\ late[n] = {}
    /\ Registry(Tick)
    /\ beaten' = {}
    /\ UNCHANGED <<up, conf, start, hb, late, net>>
-----------------------------------------------------------------------------

\* Steps in which requests and replies make progress.
Progress(n) ==
    \/ StartHandled(n) \/ StartReplied(n)
    \/ Beat(n) \/ BeatHandled(n) \/ BeatReplied(n) \/ RegisteredByLoop(n)
    \/ LateHandled(n) \/ LateLost(n)

Trouble(n) == StartFails(n) \/ BeatFails(n)

Operate == Registry(AdminStep) /\ UNCHANGED agentVars

Configure == (\E t \in Timeouts : Registry(HandleConfigUpdate(t))) /\ UNCHANGED agentVars

CleanUp == Registry(RemoveStaleNodes) /\ UNCHANGED agentVars

LinkNext ==
    \/ \E n \in Node, c \in Config : StartAgent(n, c)
    \/ \E n \in Node : StopAgent(n) \/ Progress(n) \/ Trouble(n)
    \/ NetChanges
    \/ RestartController
    \/ Operate
    \/ Configure
    \/ CleanUp
    \/ LinkTick

\* The clocks and the clean-up go on, and so do the tasks of a process and the
\* handling of its requests.
LinkFairness ==
    /\ SF_linkVars(LinkTick) /\ WF_linkVars(CleanUp)
    /\ \A n \in Node : WF_linkVars(Progress(n))

LinkSpec == LinkInit /\ [][LinkNext]_linkVars /\ LinkFairness
-----------------------------------------------------------------------------
(* Properties.                                                             *)

\* An agent that runs with the right token over a network in order, with a
\* timeout that leaves it time to report.
Well(n) ==
    /\ n \in up /\ conf[n].token /\ net = "good"
    /\ EffectiveTimeout >= 1

\* From some time on no administrator acts and the Controller does not restart,
\* except for what the clean-up might have done as well.
LeftAlone == <>[][Operate \/ RestartController => CleanUp]_linkVars

\* Whatever happened before (requests lost, the record removed or deleted as
\* stale, the Controller restarted, a status set by an administrator), an agent
\* that is well and left alone comes to be in service and stays so
\* (heartbeat_loop, UpdateHeartbeat).  That this takes no administrator, also for
\* a node that is new, contradicts NewNodesAwaitApproval.
AgentStaysInService ==
    \A n \in Node : <>[]Well(n) /\ LeftAlone => <>[]IsNodeHealthy(n)

\* "新节点: 默认进入 pending 状态，需要管理员审批" (store.go:65): a node that is
\* pending leaves that state by an administrator's decision, or is deleted.
NewNodesAwaitApproval ==
    [][\A n \in Node : status[n] = "pending" /\ status'[n] \notin {"pending", "absent"}
          => Operate]_linkVars

\* The registry has the address and the rest of the process that runs.  (Not the
\* cascade flags, which RegisterNode keeps for a known id; see Mesh.)
Described(n) == Registered(n) /\ record[n].at = conf[n].at

\* An agent that is well and left alone is described as it runs, unless its own
\* registration failed: then the record of an earlier process may stand for good,
\* since the loop registers only a node that is unknown.
ProcessIsDescribed ==
    \A n \in Node : <>[]Well(n) /\ LeftAlone
        => <>[]Described(n) \/ <>[](Registered(n) /\ start[n] = "failed")
=============================================================================
