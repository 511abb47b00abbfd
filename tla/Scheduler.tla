----------------------------- MODULE Scheduler -----------------------------
(***************************************************************************)
(* Viewer dispatch: Scheduler.Dispatch, dispatchWithSticky, filterOutliers *)
(* and p2cSelect (internal/controller/scheduler.go) with the client        *)
(* bindings of StickyStore (internal/controller/sticky.go).                *)
(*                                                                         *)
(* A request runs without a lock of its own.  Each of its calls takes one  *)
(* and is a step: GetHealthyNodes, filterOutliers, Get, GetNode with the   *)
(* health test, isEjected, then either the backups of dispatchWithSticky   *)
(* or Rotate and Set.  Other requests (of the same client address too),    *)
(* the registry and the sticky clean-up run in between.  The registry is   *)
(* NodeView, which NodeStore implements.  Which nodes are cooling          *)
(* (Complaints) and which are ejected (Outliers) can change before every   *)
(* look at them and is decided elsewhere, so each look finds any set.      *)
(* Scores are abstract: the weighted random picks are choices, and any     *)
(* node may have the score zero, which is never picked, when it is scored. *)
(***************************************************************************)
EXTENDS Integers, Sequences, FiniteSets

CONSTANTS
    Node, Client, Request,
    NoNode,        \* the empty node id
    TTL,           \* stickyTTL = rotateInterval = 30 min
    PickCount,     \* nodes in an answer (3)
    BackupCount,   \* backups behind a sticky node (2)
    EjectPercent   \* outlierMaxEjectPercent (30)

ASSUME ConstAssumption ==
    /\ TTL \in Nat
    /\ PickCount \in Nat \ {0}
    /\ BackupCount \in Nat
    /\ EjectPercent \in 0..99
    /\ NoNode \notin Node
    /\ IsFiniteSet(Node)

VARIABLES
    view,      \* NodeView: absent, known or servable
    bound,     \* StickyStore.entries: the node, or NoNode
    bindAge,   \* age of stickyEntry.bindAt
    seenAge,   \* age of stickyEntry.lastSeen
    pick,      \* history: the node the latest selection gave each client,
    pickAge,   \* and the age of that selection
    req,       \* requests in progress
    picks,     \* history: nodes that, at a moment since a request began, were the
               \* latest selection of its client, made no longer than TTL ago
    well,      \* history: nodes that were healthy at a moment since it began
    answer     \* the answer the last step gave, if it gave one

Registry == INSTANCE NodeView

stickyVars == <<bound, bindAge, seenAge, pick, pickAge>>
sinceVars == <<picks, well>>
vars == <<view, bound, bindAge, seenAge, pick, pickAge, req, picks, well, answer>>

Age == 0..TTL + 1
Idle == [pc |-> "idle"]
Snapped(c, S) == [pc |-> "snapped", client |-> c, snap |-> S]
Filtered(c, S, A) == [pc |-> "filtered", client |-> c, snap |-> S, avail |-> A]
Bound(c, A, n) == [pc |-> "bound", client |-> c, avail |-> A, node |-> n]
Checked(c, A, n) == [pc |-> "checked", client |-> c, avail |-> A, node |-> n]
Sticky(c, n) == [pc |-> "sticky", client |-> c, node |-> n]
Backups(c, n, S) == [pc |-> "backups", client |-> c, node |-> n, snap |-> S]
Rotating(c, A) == [pc |-> "rotating", client |-> c, avail |-> A]
Picking(c, A) == [pc |-> "picking", client |-> c, avail |-> A]
NoAnswer == [via |-> "none"]

RequestState ==
    {Idle} \cup {Snapped(c, S) : c \in Client, S \in SUBSET Node}
           \cup {Filtered(c, S, A) : c \in Client, S \in SUBSET Node, A \in SUBSET Node}
           \cup {Bound(c, A, n) : c \in Client, A \in SUBSET Node, n \in Node}
           \cup {Checked(c, A, n) : c \in Client, A \in SUBSET Node, n \in Node}
           \cup {Sticky(c, n) : c \in Client, n \in Node}
           \cup {Backups(c, n, S) : c \in Client, n \in Node, S \in SUBSET Node}
           \cup {Rotating(c, A) : c \in Client, A \in SUBSET Node}
           \cup {Picking(c, A) : c \in Client, A \in SUBSET Node}

TypeOK ==
    /\ Registry!ViewTypeOK
    /\ bound \in [Client -> Node \cup {NoNode}]
    /\ bindAge \in [Client -> Age]
    /\ seenAge \in [Client -> Age]
    /\ pick \in [Client -> Node \cup {NoNode}]
    /\ pickAge \in [Client -> Age]
    /\ req \in [Request -> RequestState]
    /\ picks \in [Request -> SUBSET Node]
    /\ well \in [Request -> SUBSET Node]

Init ==
    /\ Registry!ViewInit
    /\ bound = [c \in Client |-> NoNode]
    /\ bindAge = [c \in Client |-> 0]
    /\ seenAge = [c \in Client |-> 0]
    /\ pick = [c \in Client |-> NoNode]
    /\ pickAge = [c \in Client |-> TTL + 1]
    /\ req = [r \in Request |-> Idle]
    /\ picks = [r \in Request |-> {}]
    /\ well = [r \in Request |-> {}]
    /\ answer = NoAnswer

-----------------------------------------------------------------------------
(* What a request computes.                                                *)

IsNodeHealthy(n) == view[n] = "servable"

Healthy == {n \in Node : IsNodeHealthy(n)}

\* What it returns depends on the nodes that isCooling finds cooling.
GetHealthyNodes == {Healthy \ K : K \in SUBSET Node}

\* Fault: no limit on the share of ejected nodes.
MaxEjectUncapped(k) == k

\* How many of k nodes the outlier filter may leave out.
MaxEject(k) == (k * EjectPercent) \div 100

SmallerOf(a, b) == IF a < b THEN a ELSE b

\* The filter walks the nodes in the order of a map, so which ejected nodes
\* are left out once the limit bites is arbitrary: of the ejected ones E, a part
\* D as large as the limit allows.
FilterOutliers(S) ==
    UNION {{S \ D : D \in {D \in SUBSET E :
                               Cardinality(D) = SmallerOf(MaxEject(Cardinality(S)),
                                                          Cardinality(E))}}
             : E \in SUBSET S}

\* Lists of m different nodes of S.  Which one comes out is decided by the scores
\* (NodeHealthScore, the region bonus, the effective weight), which are abstract.
Picks(S, m) == {q \in [1..m -> S] : \A i, j \in 1..m : i # j => q[i] # q[j]}

\* p2cSelect: at most k candidates are returned whole, in score order; out of
\* more, k are picked one after the other as long as there is one left whose
\* score is not zero (at exactly 5% loss a healthy node's score is).
P2cSelect(S, k) ==
    IF Cardinality(S) <= k THEN Picks(S, Cardinality(S))
    ELSE UNION {Picks(S, m) : m \in 0..k}

\* Fault: a binding is used whatever its age.
MustRotateNever(c) == FALSE

MustRotate(c) == bindAge[c] > TTL

-----------------------------------------------------------------------------
(* The steps of a request.                                                 *)

\* History: nodes that are the latest selection of a client, and recent.
Recent(c) == IF pickAge[c] <= TTL THEN {pick[c]} \ {NoNode} ELSE {}

\* A step of the request r that changes nothing but the request.
Goto(r, q) ==
    /\ req' = [req EXCEPT ![r] = q]
    /\ answer' = NoAnswer
    /\ UNCHANGED <<view, stickyVars, sinceVars>>

\* handleDispatch refuses when no node is healthy (isCapacityFull) and Dispatch
\* does when its own snapshot is empty; both leave the state as it is.
TakeSnapshot(r, c) ==
    /\ req[r].pc = "idle"
    /\ \E S \in GetHealthyNodes \ {{}} : req' = [req EXCEPT ![r] = Snapped(c, S)]
    /\ picks' = [picks EXCEPT ![r] = Recent(c)]
    /\ well' = [well EXCEPT ![r] = Healthy]
    /\ answer' = NoAnswer
    /\ UNCHANGED <<view, stickyVars>>

\* The outlier filter; an empty result falls back to the whole snapshot.
Filter(r) ==
    /\ req[r].pc = "snapped"
    /\ \E A \in FilterOutliers(req[r].snap) :
         Goto(r, Filtered(req[r].client, req[r].snap, IF A = {} THEN req[r].snap ELSE A))

\* StickyStore.Get finds no binding...
GetNothing(r) ==
    /\ req[r].pc = "filtered"
    /\ bound[req[r].client] = NoNode
    /\ Goto(r, Picking(req[r].client, req[r].avail))

\* ...one that must be rotated...
GetOld(r) ==
    /\ req[r].pc = "filtered"
    /\ bound[req[r].client] # NoNode
    /\ MustRotate(req[r].client)
    /\ Goto(r, Rotating(req[r].client, req[r].avail))

\* ...or one to use, which others may rotate or replace from now on.
GetSticky(r) ==
    /\ req[r].pc = "filtered"
    /\ bound[req[r].client] # NoNode
    /\ ~MustRotate(req[r].client)
    /\ Goto(r, Bound(req[r].client, req[r].avail, bound[req[r].client]))

\* GetNode and IsNodeHealthy.  The test reads the record after the lock is
\* released; a record that is no longer in the map is not written any more, so
\* the outcome is that of one moment in between.
CheckNode(r) ==
    /\ req[r].pc = "bound"
    /\ IF IsNodeHealthy(req[r].node)
       THEN Goto(r, Checked(req[r].client, req[r].avail, req[r].node))
       ELSE Goto(r, Rotating(req[r].client, req[r].avail))

\* isEjected, which may come out either way.
CheckEjected(r) ==
    /\ req[r].pc = "checked"
    /\ \/ Goto(r, Sticky(req[r].client, req[r].node))
       \/ Goto(r, Rotating(req[r].client, req[r].avail))

\* dispatchWithSticky takes a snapshot of its own...
SnapshotBackups(r) ==
    /\ req[r].pc = "sticky"
    /\ \E S \in GetHealthyNodes : Goto(r, Backups(req[r].client, req[r].node, S))

\* The request is over.
End(r) ==
    /\ req' = [req EXCEPT ![r] = Idle]
    /\ picks' = [picks EXCEPT ![r] = {}]
    /\ well' = [well EXCEPT ![r] = {}]

\* Fault: a sticky hit refreshes the binding, which then never expires.
DispatchWithStickyRenewing(r) ==
    /\ req[r].pc = "backups"
    /\ answer' = [via |-> "sticky", to |-> r, nodes |-> <<req[r].node>>]
    /\ bindAge' = [bindAge EXCEPT ![req[r].client] = 0]
    /\ seenAge' = [seenAge EXCEPT ![req[r].client] = 0]
    /\ End(r)
    /\ UNCHANGED <<view, bound, pick, pickAge>>

\* ...filters it and answers with the sticky node first, backups behind it.
DispatchWithSticky(r) ==
    /\ req[r].pc = "backups"
    /\ \E A \in FilterOutliers(req[r].snap) :
         \E q \in P2cSelect(A \ {req[r].node}, BackupCount) :
           answer' = [via |-> "sticky", to |-> r, nodes |-> <<req[r].node>> \o q]
    /\ End(r)
    /\ UNCHANGED <<view, stickyVars>>

\* StickyStore.Rotate: the binding that is there now, if any, is deleted.
Rotate(r) ==
    /\ req[r].pc = "rotating"
    /\ bound' = [bound EXCEPT ![req[r].client] = NoNode]
    /\ bindAge' = [bindAge EXCEPT ![req[r].client] = 0]
    /\ seenAge' = [seenAge EXCEPT ![req[r].client] = 0]
    /\ req' = [req EXCEPT ![r] = Picking(@.client, @.avail)]
    /\ answer' = NoAnswer
    /\ UNCHANGED <<view, pick, pickAge, sinceVars>>

\* StickyStore.Set: an unexpired binding to the same node only has its lastSeen
\* refreshed; anything else is replaced.
SetSticky(c, n) ==
    IF bound[c] = n /\ bindAge[c] < TTL
    THEN /\ seenAge' = [seenAge EXCEPT ![c] = 0]
         /\ UNCHANGED <<bound, bindAge>>
    ELSE /\ bound' = [bound EXCEPT ![c] = n]
         /\ bindAge' = [bindAge EXCEPT ![c] = 0]
         /\ seenAge' = [seenAge EXCEPT ![c] = 0]

\* History: a selection of n for c is seen by the requests of c but r, which ends.
SelectedFor(c, n, r) ==
    picks' = [o \in Request |->
                IF o = r THEN {}
                ELSE IF req[o].pc # "idle" /\ req[o].client = c THEN picks[o] \cup {n}
                ELSE picks[o]]

\* Score, pick, bind the client to the first pick, answer.
SelectAndBind(r) ==
    /\ req[r].pc = "picking"
    /\ \E q \in P2cSelect(req[r].avail, PickCount) :
         /\ q # <<>>
         /\ SetSticky(req[r].client, q[1])
         /\ pick' = [pick EXCEPT ![req[r].client] = q[1]]
         /\ SelectedFor(req[r].client, q[1], r)
         /\ answer' = [via |-> "select", to |-> r, nodes |-> q]
    /\ pickAge' = [pickAge EXCEPT ![req[r].client] = 0]
    /\ req' = [req EXCEPT ![r] = Idle]
    /\ well' = [well EXCEPT ![r] = {}]
    /\ UNCHANGED view

\* ErrNoAvailableNodes: every candidate has score 0 and there are too many of
\* them to be returned whole.
SelectNone(r) ==
    /\ req[r].pc = "picking"
    /\ <<>> \in P2cSelect(req[r].avail, PickCount)
    /\ answer' = [via |-> "error", to |-> r, nodes |-> <<>>]
    /\ End(r)
    /\ UNCHANGED <<view, stickyVars>>

-----------------------------------------------------------------------------
(* The rest of the Controller.                                             *)

RegistryStep ==
    /\ Registry!ViewNext
    /\ well' = [r \in Request |-> IF req[r].pc = "idle" THEN {} ELSE well[r] \cup Healthy']
    /\ answer' = NoAnswer
    /\ UNCHANGED <<stickyVars, req, picks>>

Expired(c) == bound[c] # NoNode /\ seenAge[c] > TTL

\* StickyStore.Cleanup, called every 10 s by metricsLoop.
Cleanup ==
    /\ \E c \in Client : Expired(c)
    /\ bound' = [c \in Client |-> IF Expired(c) THEN NoNode ELSE bound[c]]
    /\ bindAge' = [c \in Client |-> IF Expired(c) THEN 0 ELSE bindAge[c]]
    /\ seenAge' = [c \in Client |-> IF Expired(c) THEN 0 ELSE seenAge[c]]
    /\ answer' = NoAnswer
    /\ UNCHANGED <<view, pick, pickAge, req, sinceVars>>

Older(a) == IF a <= TTL THEN a + 1 ELSE a

Tick ==
    /\ bindAge' = [c \in Client |-> IF bound[c] = NoNode THEN 0 ELSE Older(bindAge[c])]
    /\ seenAge' = [c \in Client |-> IF bound[c] = NoNode THEN 0 ELSE Older(seenAge[c])]
    /\ pickAge' = [c \in Client |-> Older(pickAge[c])]
    /\ answer' = NoAnswer
    /\ UNCHANGED <<view, bound, pick, req, sinceVars>>

RequestStep(r) ==
    \/ \E c \in Client : TakeSnapshot(r, c)
    \/ Filter(r)
    \/ GetNothing(r) \/ GetOld(r) \/ GetSticky(r)
    \/ CheckNode(r) \/ CheckEjected(r)
    \/ SnapshotBackups(r) \/ DispatchWithSticky(r)
    \/ Rotate(r)
    \/ SelectAndBind(r)
    \/ SelectNone(r)

Next ==
    \/ \E r \in Request : RequestStep(r)
    \/ RegistryStep
    \/ Cleanup
    \/ Tick

Spec == Init /\ [][Next]_vars
-----------------------------------------------------------------------------
(* Properties.                                                             *)

\* A sticky answer leads with a node that, at a moment of the request, was the
\* latest selection of its client and made no longer than rotateInterval ago, and
\* that was healthy at a moment of the request, whatever other requests of the same
\* address bound, rotated or refreshed and whatever was removed and registered again
\* between its steps.  (That it is still so when the answer is given is more than
\* the code's separate locks can promise.)
StickyAnswerIsCurrent ==
    [][answer'.via = "sticky" => answer'.nodes[1] \in picks[answer'.to] \cap well[answer'.to]]_vars

\* "最大驱逐比例 30%" (scheduler.go:54): the outlier filter never takes more
\* than that share of the healthy nodes out of a selection, so a request whose
\* snapshot is not empty always has a candidate.
EjectionCapped ==
    \A r \in Request : req[r].pc = "filtered" =>
        /\ req[r].avail # {}
        /\ 100 * Cardinality(req[r].snap \ req[r].avail)
              <= EjectPercent * Cardinality(req[r].snap)

\* A binding is to the node of its client's latest selection, never younger
\* than that selection and never younger than its lastSeen, even when two requests of one
\* address interleave Get, Rotate and Set: what Cleanup spares for its lastSeen is
\* still rotated in time.
BindingMatchesPick ==
    \A c \in Client : bound[c] # NoNode =>
        bound[c] = pick[c] /\ seenAge[c] <= bindAge[c] /\ pickAge[c] <= bindAge[c]
=============================================================================
