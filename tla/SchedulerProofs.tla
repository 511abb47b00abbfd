-------------------------- MODULE SchedulerProofs ---------------------------
(***************************************************************************)
(* Proofs about Scheduler, for every finite set of nodes, any clients and  *)
(* requests, and all limits that satisfy ConstAssumption.                  *)
(***************************************************************************)
EXTENDS Scheduler, FiniteSetTheorems, SequenceTheorems, TLAPS

-----------------------------------------------------------------------------
(* What a request is while it runs.                                        *)

\* The parts of a request, by where it is.
LEMMA RequestParts ==
  ASSUME NEW q \in RequestState
  PROVE  /\ q.pc \in {"idle", "snapped", "filtered", "bound", "checked", "sticky", "backups",
                      "rotating", "picking"}
         /\ q.pc # "idle" => q.client \in Client
         /\ q.pc \in {"snapped", "filtered", "backups"} => q.snap \in SUBSET Node
         /\ q.pc \in {"filtered", "bound", "checked", "rotating", "picking"} =>
               q.avail \in SUBSET Node
         /\ q.pc \in {"bound", "checked", "sticky", "backups"} => q.node \in Node
<1> DEFINE Parts(x) ==
      /\ x.pc \in {"idle", "snapped", "filtered", "bound", "checked", "sticky", "backups",
                   "rotating", "picking"}
      /\ x.pc # "idle" => x.client \in Client
      /\ x.pc \in {"snapped", "filtered", "backups"} => x.snap \in SUBSET Node
      /\ x.pc \in {"filtered", "bound", "checked", "rotating", "picking"} =>
            x.avail \in SUBSET Node
      /\ x.pc \in {"bound", "checked", "sticky", "backups"} => x.node \in Node
<1>1. Parts(Idle)
  BY DEF Idle
<1>2. ASSUME NEW c \in Client, NEW S \in SUBSET Node, NEW A \in SUBSET Node, NEW n \in Node
      PROVE  /\ Parts(Snapped(c, S)) /\ Parts(Filtered(c, S, A)) /\ Parts(Bound(c, A, n))
             /\ Parts(Checked(c, A, n)) /\ Parts(Sticky(c, n)) /\ Parts(Backups(c, n, S))
             /\ Parts(Rotating(c, A)) /\ Parts(Picking(c, A))
  <2>1. Parts(Snapped(c, S)) /\ Parts(Filtered(c, S, A))
    BY DEF Snapped, Filtered
  <2>2. Parts(Bound(c, A, n)) /\ Parts(Checked(c, A, n))
    BY DEF Bound, Checked
  <2>3. Parts(Sticky(c, n)) /\ Parts(Backups(c, n, S))
    BY DEF Sticky, Backups
  <2>4. Parts(Rotating(c, A)) /\ Parts(Picking(c, A))
    BY DEF Rotating, Picking
  <2> QED
    BY <2>1, <2>2, <2>3, <2>4
<1> HIDE DEF Parts
<1>3. {} \in SUBSET Node
  OBVIOUS
<1>4. Parts(q)
  <2>1. CASE q = Idle
    BY <1>1, <2>1
  <2>2. ASSUME NEW c \in Client, NEW S \in SUBSET Node, q = Snapped(c, S) PROVE Parts(q)
    BY <2>2 DEF Snapped, Parts
  <2>3. ASSUME NEW c \in Client, NEW S \in SUBSET Node, NEW A \in SUBSET Node, q = Filtered(c, S, A)
        PROVE  Parts(q)
    BY <2>3 DEF Filtered, Parts
  <2>4. ASSUME NEW c \in Client, NEW A \in SUBSET Node, NEW n \in Node,
               q = Bound(c, A, n) \/ q = Checked(c, A, n)
        PROVE  Parts(q)
    BY <1>2, <2>4
  <2>5. ASSUME NEW c \in Client, NEW n \in Node, NEW S \in SUBSET Node,
               q = Sticky(c, n) \/ q = Backups(c, n, S)
        PROVE  Parts(q)
    BY <1>2, <2>5
  <2>6. ASSUME NEW c \in Client, NEW A \in SUBSET Node, q = Rotating(c, A) \/ q = Picking(c, A)
        PROVE  Parts(q)
    BY <2>6 DEF Rotating, Picking, Parts
  <2> QED
    BY <1>3, <2>1, <2>2, <2>3, <2>4, <2>5, <2>6 DEF RequestState
<1> QED
  BY <1>4 DEF Parts

\* What the outlier filter gives is part of what it was given.
LEMMA FilterGivesPart ==
  ASSUME NEW S \in SUBSET Node, NEW A \in FilterOutliers(S)
  PROVE  A \in SUBSET S
BY DEF FilterOutliers

\* The picks are of the nodes picked from.
LEMMA PicksFrom ==
  ASSUME NEW S \in SUBSET Node, NEW k \in Nat, NEW q \in P2cSelect(S, k)
  PROVE  \E m \in Nat : q \in [1..m -> S]
<1>1. Cardinality(S) \in Nat
  BY FS_Subset, FS_CardinalityType, ConstAssumption
<1>2. CASE Cardinality(S) <= k
  BY <1>1, <1>2 DEF P2cSelect, Picks
<1>3. CASE ~(Cardinality(S) <= k)
  BY <1>3 DEF P2cSelect, Picks
<1> QED
  BY <1>2, <1>3

LEMMA PickIsNode ==
  ASSUME NEW S \in SUBSET Node, NEW k \in Nat, NEW q \in P2cSelect(S, k), q # << >>
  PROVE  q[1] \in S
<1>1. PICK m \in Nat : q \in [1..m -> S]
  BY PicksFrom
<1>2. m # 0
  <2>1. ASSUME m = 0 PROVE q = << >>
    BY <1>1, <2>1
  <2> QED
    BY <2>1
<1> QED
  BY <1>1, <1>2

\* Where a request may go next.
LEMMA RequestType ==
  ASSUME TypeOK, NEW r \in Request, RequestStep(r)
  PROVE  \E q \in RequestState : req' = [req EXCEPT ![r] = q]
<1> DEFINE c == req[r].client
           n == req[r].node
<1>0. req[r] \in RequestState
  BY DEF TypeOK
<1>1. Idle \in RequestState
  BY DEF RequestState
<1>2. ASSUME NEW d \in Client, TakeSnapshot(r, d)
      PROVE  \E q \in RequestState : req' = [req EXCEPT ![r] = q]
  <2>1. PICK S \in GetHealthyNodes : req' = [req EXCEPT ![r] = Snapped(d, S)]
    BY <1>2 DEF TakeSnapshot
  <2>2. Snapped(d, S) \in RequestState
    BY DEF RequestState, GetHealthyNodes, Healthy
  <2> QED
    BY <2>1, <2>2
<1>3. CASE Filter(r)
  <2>1. c \in Client /\ req[r].snap \in SUBSET Node
    BY <1>0, <1>3, RequestParts DEF Filter
  <2>2. PICK A \in FilterOutliers(req[r].snap) :
           req' = [req EXCEPT ![r] = Filtered(c, req[r].snap, IF A = {} THEN req[r].snap ELSE A)]
    BY <1>3 DEF Filter, Goto
  <2>3. A \in SUBSET Node
    BY <2>1, FilterGivesPart
  <2>4. Filtered(c, req[r].snap, IF A = {} THEN req[r].snap ELSE A) \in RequestState
    BY <2>1, <2>3 DEF RequestState
  <2> QED
    BY <2>2, <2>4
<1>4. CASE GetNothing(r) \/ GetOld(r) \/ Rotate(r)
  <2>1. c \in Client /\ req[r].avail \in SUBSET Node
    BY <1>0, <1>4, RequestParts DEF GetNothing, GetOld, Rotate
  <2>2. Rotating(c, req[r].avail) \in RequestState /\ Picking(c, req[r].avail) \in RequestState
    BY <2>1 DEF RequestState
  <2> QED
    BY <1>4, <2>2 DEF GetNothing, GetOld, Rotate, Goto, TypeOK
<1>5. CASE GetSticky(r)
  <2>1. c \in Client /\ req[r].avail \in SUBSET Node
    BY <1>0, <1>5, RequestParts DEF GetSticky
  <2>2. bound[c] \in Node
    BY <1>5, <2>1 DEF GetSticky, TypeOK
  <2>3. Bound(c, req[r].avail, bound[c]) \in RequestState
    BY <2>1, <2>2 DEF RequestState
  <2> QED
    BY <1>5, <2>3 DEF GetSticky, Goto
<1>6. CASE CheckNode(r) \/ CheckEjected(r)
  <2>1. c \in Client /\ req[r].avail \in SUBSET Node /\ n \in Node
    BY <1>0, <1>6, RequestParts DEF CheckNode, CheckEjected
  <2>2. /\ Checked(c, req[r].avail, n) \in RequestState
        /\ Rotating(c, req[r].avail) \in RequestState
        /\ Sticky(c, n) \in RequestState
    BY <2>1 DEF RequestState
  <2> QED
    BY <1>6, <2>2 DEF CheckNode, CheckEjected, Goto
<1>7. CASE SnapshotBackups(r)
  <2>1. c \in Client /\ n \in Node
    BY <1>0, <1>7, RequestParts DEF SnapshotBackups
  <2>2. PICK S \in GetHealthyNodes : req' = [req EXCEPT ![r] = Backups(c, n, S)]
    BY <1>7 DEF SnapshotBackups, Goto
  <2>3. Backups(c, n, S) \in RequestState
    BY <2>1 DEF RequestState, GetHealthyNodes, Healthy
  <2> QED
    BY <2>2, <2>3
<1> QED
  BY <1>1, <1>2, <1>3, <1>4, <1>5, <1>6, <1>7
     DEF RequestStep, DispatchWithSticky, SelectAndBind, SelectNone, End

\* Ageing keeps the type of an age and the order of two ages.
LEMMA OlderKeeps ==
  ASSUME NEW a \in Age, NEW b \in Age
  PROVE  Older(a) \in Age /\ (a <= b => Older(a) <= Older(b))
BY ConstAssumption DEF Older, Age

\* The types of the bindings after each step of a request.
LEMMA StickyType ==
  ASSUME TypeOK, NEW r \in Request, RequestStep(r)
  PROVE  /\ bound' \in [Client -> Node \cup {NoNode}]
         /\ bindAge' \in [Client -> Age]
         /\ seenAge' \in [Client -> Age]
         /\ pick' \in [Client -> Node \cup {NoNode}]
         /\ pickAge' \in [Client -> Age]
<1>1. 0 \in Age
  BY ConstAssumption DEF Age
<1>2. CASE UNCHANGED stickyVars
  BY <1>2 DEF stickyVars, TypeOK
<1>3. CASE Rotate(r)
  BY <1>1, <1>3 DEF Rotate, TypeOK
<1>4. CASE SelectAndBind(r)
  <2>1. req[r].pc = "picking" /\ req[r].client \in Client /\ req[r].avail \in SUBSET Node
    BY <1>4, RequestParts DEF SelectAndBind, TypeOK
  <2>2. PICK q \in P2cSelect(req[r].avail, PickCount) :
          /\ q # << >>
          /\ SetSticky(req[r].client, q[1])
          /\ pick' = [pick EXCEPT ![req[r].client] = q[1]]
    BY <1>4 DEF SelectAndBind
  <2>3. q[1] \in Node
    BY <2>1, <2>2, PickIsNode, ConstAssumption
  <2>4. bound' \in [Client -> Node \cup {NoNode}]
    BY <2>2, <2>3 DEF SetSticky, TypeOK
  <2>5. bindAge' \in [Client -> Age] /\ seenAge' \in [Client -> Age]
    BY <1>1, <2>2 DEF SetSticky, TypeOK
  <2>6. pick' \in [Client -> Node \cup {NoNode}]
    BY <2>2, <2>3 DEF TypeOK
  <2>7. pickAge' \in [Client -> Age]
    BY <1>1, <1>4 DEF SelectAndBind, TypeOK
  <2> QED
    BY <2>4, <2>5, <2>6, <2>7
<1> QED
  BY <1>2, <1>3, <1>4 DEF RequestStep, TakeSnapshot, Filter, GetNothing, GetOld, GetSticky,
     CheckNode, CheckEjected, SnapshotBackups, DispatchWithSticky, SelectNone, Goto

\* The types of the histories after each step of a request.
LEMMA SinceType ==
  ASSUME TypeOK, NEW r \in Request, RequestStep(r)
  PROVE  picks' \in [Request -> SUBSET Node] /\ well' \in [Request -> SUBSET Node]
<1>1. CASE UNCHANGED sinceVars
  BY <1>1 DEF sinceVars, TypeOK
<1>2. CASE End(r)
  BY <1>2 DEF End, TypeOK
<1>3. ASSUME NEW c \in Client, TakeSnapshot(r, c)
      PROVE  picks' \in [Request -> SUBSET Node] /\ well' \in [Request -> SUBSET Node]
  BY <1>3 DEF TakeSnapshot, Recent, Healthy, TypeOK
<1>4. CASE SelectAndBind(r)
  <2>1. req[r].pc = "picking" /\ req[r].client \in Client /\ req[r].avail \in SUBSET Node
    BY <1>4, RequestParts DEF SelectAndBind, TypeOK
  <2>2. PICK q \in P2cSelect(req[r].avail, PickCount) :
          q # << >> /\ SelectedFor(req[r].client, q[1], r)
    BY <1>4 DEF SelectAndBind
  <2>3. q[1] \in Node
    BY <2>1, <2>2, PickIsNode, ConstAssumption
  <2>4. picks' \in [Request -> SUBSET Node]
    BY <2>2, <2>3 DEF SelectedFor, TypeOK
  <2> QED
    BY <1>4, <2>4 DEF SelectAndBind, TypeOK
<1> QED
  BY <1>1, <1>2, <1>3, <1>4 DEF RequestStep, Filter, GetNothing, GetOld, GetSticky,
     CheckNode, CheckEjected, SnapshotBackups, DispatchWithSticky, SelectNone, Rotate, Goto

LEMMA TypeStep == TypeOK /\ [Next]_vars => TypeOK'
<1> SUFFICES ASSUME TypeOK, [Next]_vars
             PROVE  TypeOK'
  OBVIOUS
<1>1. ASSUME NEW r \in Request, RequestStep(r) PROVE TypeOK'
  <2>1. UNCHANGED view
    BY <1>1 DEF RequestStep, TakeSnapshot, Filter, GetNothing, GetOld, GetSticky,
       CheckNode, CheckEjected, SnapshotBackups, DispatchWithSticky, Rotate, SelectAndBind,
       SelectNone, Goto
  <2>2. req' \in [Request -> RequestState]
    BY <1>1, RequestType DEF TypeOK
  <2> QED
    BY <1>1, <2>1, <2>2, StickyType, SinceType DEF TypeOK, Registry!ViewTypeOK
<1>2. CASE RegistryStep
  <2>1. Registry!ViewTypeOK'
    BY <1>2 DEF RegistryStep, Registry!ViewNext, Registry!Appear, Registry!Gain, Registry!Lose,
         Registry!Forget, Registry!Move, Registry!ViewTypeOK, Registry!View, TypeOK
  <2>2. well' \in [Request -> SUBSET Node]
    BY <1>2 DEF RegistryStep, Healthy, TypeOK
  <2> QED
    BY <1>2, <2>1, <2>2 DEF RegistryStep, stickyVars, TypeOK
<1>4. CASE Cleanup
  <2>1. 0 \in Age
    BY ConstAssumption DEF Age
  <2> QED
    BY <1>4, <2>1 DEF Cleanup, sinceVars, TypeOK, Registry!ViewTypeOK
<1>5. CASE Tick
  <2>1. 0 \in Age /\ \A a \in Age : Older(a) \in Age
    BY ConstAssumption DEF Age, Older
  <2>2. bindAge' \in [Client -> Age] /\ seenAge' \in [Client -> Age] /\ pickAge' \in [Client -> Age]
    BY <1>5, <2>1 DEF Tick, TypeOK
  <2> QED
    BY <1>5, <2>2 DEF Tick, sinceVars, TypeOK, Registry!ViewTypeOK
<1>6. CASE UNCHANGED vars
  BY <1>6 DEF vars, TypeOK, Registry!ViewTypeOK
<1> QED
  BY <1>1, <1>2, <1>4, <1>5, <1>6 DEF Next

\* For any nodes, clients and requests the state keeps its types: a binding is
\* to a node, and a request works on nodes.
THEOREM TypeCorrect == Spec => []TypeOK
<1>1. Init => TypeOK
  BY ConstAssumption DEF Init, TypeOK, Age, RequestState, Registry!ViewInit, Registry!ViewTypeOK,
       Registry!View
<1> QED
  BY <1>1, TypeStep, PTL DEF Spec

-----------------------------------------------------------------------------
(* Bindings.                                                               *)

\* BindingMatchesPick is inductive by itself, given the types.
LEMMA BindingStep == TypeOK /\ BindingMatchesPick /\ [Next]_vars => BindingMatchesPick'
<1> SUFFICES ASSUME TypeOK, BindingMatchesPick, [Next]_vars
             PROVE  BindingMatchesPick'
  OBVIOUS
<1>1. ASSUME UNCHANGED stickyVars PROVE BindingMatchesPick'
  BY <1>1 DEF stickyVars, BindingMatchesPick
<1>2. ASSUME NEW r \in Request, Rotate(r) PROVE BindingMatchesPick'
  BY <1>2, ConstAssumption DEF Rotate, BindingMatchesPick, TypeOK
<1>3. ASSUME NEW r \in Request, SelectAndBind(r) PROVE BindingMatchesPick'
  <2> DEFINE c == req[r].client
  <2>1. c \in Client
    BY <1>3, RequestParts DEF SelectAndBind, TypeOK
  <2>2. PICK n : SetSticky(c, n) /\ pick' = [pick EXCEPT ![c] = n] /\ pickAge' = [pickAge EXCEPT ![c] = 0]
    BY <1>3 DEF SelectAndBind
  <2> HIDE DEF c
  <2>3. \A d \in Client \ {c} : /\ bound'[d] = bound[d] /\ bindAge'[d] = bindAge[d]
                                /\ seenAge'[d] = seenAge[d]
                                /\ pick'[d] = pick[d] /\ pickAge'[d] = pickAge[d]
    BY <2>2 DEF SetSticky, TypeOK
  <2>4. pick'[c] = n /\ pickAge'[c] = 0 /\ bound'[c] = n /\ seenAge'[c] = 0
    BY <2>1, <2>2 DEF SetSticky, TypeOK
  <2>5. bindAge'[c] \in {0, bindAge[c]} /\ bindAge[c] \in Nat
    BY <2>1, <2>2, ConstAssumption DEF SetSticky, TypeOK, Age
  <2>6. 0 <= bindAge'[c]
    BY <2>5
  <2> QED
    BY <2>3, <2>4, <2>6 DEF BindingMatchesPick
<1>4. CASE Cleanup
  BY <1>4 DEF Cleanup, BindingMatchesPick, TypeOK
<1>5. CASE Tick
  <2>1. ASSUME NEW c \in Client, bound'[c] # NoNode
        PROVE  bound'[c] = pick'[c] /\ seenAge'[c] <= bindAge'[c] /\ pickAge'[c] <= bindAge'[c]
    <3>1. bound[c] # NoNode /\ bound' = bound /\ pick' = pick
      BY <1>5, <2>1 DEF Tick
    <3>2. seenAge[c] <= bindAge[c] /\ pickAge[c] <= bindAge[c] /\ bound[c] = pick[c]
      BY <3>1 DEF BindingMatchesPick
    <3>3. seenAge[c] \in Age /\ bindAge[c] \in Age /\ pickAge[c] \in Age
      BY DEF TypeOK
    <3>4. /\ seenAge'[c] = Older(seenAge[c]) /\ bindAge'[c] = Older(bindAge[c])
          /\ pickAge'[c] = Older(pickAge[c])
      BY <1>5, <3>1 DEF Tick
    <3> QED
      BY <3>1, <3>2, <3>3, <3>4, OlderKeeps
  <2> QED
    BY <2>1 DEF BindingMatchesPick
<1> QED
  BY <1>1, <1>2, <1>3, <1>4, <1>5
     DEF Next, RequestStep, TakeSnapshot, Filter, GetNothing, GetOld, GetSticky,
         CheckNode, CheckEjected, SnapshotBackups, DispatchWithSticky, SelectNone, Goto,
         RegistryStep, vars, stickyVars

\* However requests of one address interleave StickyStore's Get, Rotate and Set, a
\* binding is to the latest selection's node and not younger than the selection.
THEOREM BindingsMatch == Spec => []BindingMatchesPick
<1>1. Init => BindingMatchesPick
  BY DEF Init, BindingMatchesPick
<1> QED
  BY <1>1, TypeCorrect, BindingStep, PTL DEF Spec

-----------------------------------------------------------------------------
(* Answers from a binding.                                                 *)

\* The histories of a request under way: the client's latest selection, while it
\* is recent, and the nodes that are healthy now are in them, and so is the node
\* the request holds, as far as the request has tested it.
SinceOK(r) ==
    req[r].pc # "idle" =>
        /\ Recent(req[r].client) \subseteq picks[r]
        /\ Healthy \subseteq well[r]
        /\ req[r].pc \in {"bound", "checked", "sticky", "backups"} => req[r].node \in picks[r]
        /\ req[r].pc \in {"checked", "sticky", "backups"} => req[r].node \in well[r]

SinceInv == \A r \in Request : SinceOK(r)

\* A binding that Get lets a request use is to a recent selection.
LEMMA BoundIsRecent ==
  ASSUME TypeOK, BindingMatchesPick, NEW c \in Client, bound[c] # NoNode, ~MustRotate(c)
  PROVE  bound[c] \in Recent(c)
<1>1. pick[c] = bound[c] /\ pickAge[c] <= bindAge[c]
  BY DEF BindingMatchesPick
<1>2. pickAge[c] \in Nat /\ bindAge[c] \in Nat /\ TTL \in Nat /\ ~(bindAge[c] > TTL)
  BY ConstAssumption DEF TypeOK, Age, MustRotate
<1>3. pickAge[c] <= TTL
  BY <1>1, <1>2
<1> QED
  BY <1>1, <1>3 DEF Recent

\* A step of a request that only moves on.
LEMMA GotoKeepsSince ==
  ASSUME TypeOK, SinceInv, NEW r \in Request, NEW q, Goto(r, q),
         req[r].pc # "idle", q.pc # "idle", q.client = req[r].client,
         q.pc \in {"bound", "checked", "sticky", "backups"} => q.node \in picks[r],
         q.pc \in {"checked", "sticky", "backups"} => q.node \in well[r]
  PROVE  SinceInv'
<1>1. /\ req' = [req EXCEPT ![r] = q]
      /\ UNCHANGED <<view, pick, pickAge, picks, well>>
  BY DEF Goto, stickyVars, sinceVars
<1>2. Healthy' = Healthy /\ \A c : Recent(c)' = Recent(c)
  BY <1>1 DEF Healthy, IsNodeHealthy, Recent
<1>3. ASSUME NEW o \in Request PROVE SinceOK(o)'
  <2>1. CASE o = r
    <3>1. req'[o] = q
      BY <1>1, <2>1 DEF TypeOK
    <3>2. SinceOK(r)
      BY DEF SinceInv
    <3> QED
      BY <1>1, <1>2, <2>1, <3>1, <3>2 DEF SinceOK
  <2>2. CASE o # r
    <3>1. req'[o] = req[o]
      BY <1>1, <2>2 DEF TypeOK
    <3>2. SinceOK(o)
      BY DEF SinceInv
    <3> QED
      BY <1>1, <1>2, <3>1, <3>2 DEF SinceOK
  <2> QED
    BY <2>1, <2>2
<1> QED
  BY <1>3 DEF SinceInv

LEMMA SinceStep ==
  TypeOK /\ BindingMatchesPick /\ SinceInv /\ [Next]_vars => SinceInv'
<1> SUFFICES ASSUME TypeOK, BindingMatchesPick, SinceInv, [Next]_vars PROVE SinceInv'
  OBVIOUS
<1>1. ASSUME NEW r \in Request, Filter(r) PROVE SinceInv'
  <2>1. PICK A : Goto(r, Filtered(req[r].client, req[r].snap, A))
    BY <1>1 DEF Filter
  <2> QED
    BY <1>1, <2>1, GotoKeepsSince DEF Filter, Filtered
<1>2. ASSUME NEW r \in Request, GetNothing(r) PROVE SinceInv'
  BY <1>2, GotoKeepsSince DEF GetNothing, Picking
<1>3. ASSUME NEW r \in Request, GetOld(r) PROVE SinceInv'
  BY <1>3, GotoKeepsSince DEF GetOld, Rotating
<1>4. ASSUME NEW r \in Request, GetSticky(r) PROVE SinceInv'
  <2>1. req[r].client \in Client
    BY <1>4, RequestParts DEF GetSticky, TypeOK
  <2>2. bound[req[r].client] \in picks[r]
    BY <1>4, <2>1, BoundIsRecent DEF GetSticky, SinceInv, SinceOK
  <2> QED
    BY <1>4, <2>2, GotoKeepsSince DEF GetSticky, Bound
<1>5. ASSUME NEW r \in Request, CheckNode(r) PROVE SinceInv'
  <2>1. req[r].node \in Node /\ req[r].node \in picks[r] /\ Healthy \subseteq well[r]
    BY <1>5, RequestParts DEF CheckNode, TypeOK, SinceInv, SinceOK
  <2>2. CASE IsNodeHealthy(req[r].node)
    <3>1. req[r].node \in well[r]
      BY <2>1, <2>2 DEF Healthy
    <3> QED
      BY <1>5, <2>1, <2>2, <3>1, GotoKeepsSince DEF CheckNode, Checked
  <2>3. CASE ~IsNodeHealthy(req[r].node)
    BY <1>5, <2>3, GotoKeepsSince DEF CheckNode, Rotating
  <2> QED
    BY <2>2, <2>3
<1>6. ASSUME NEW r \in Request, CheckEjected(r) PROVE SinceInv'
  <2>1. req[r].node \in picks[r] /\ req[r].node \in well[r]
    BY <1>6 DEF CheckEjected, SinceInv, SinceOK
  <2>2. CASE Goto(r, Sticky(req[r].client, req[r].node))
    BY <1>6, <2>1, <2>2, GotoKeepsSince DEF CheckEjected, Sticky
  <2>3. CASE Goto(r, Rotating(req[r].client, req[r].avail))
    BY <1>6, <2>3, GotoKeepsSince DEF CheckEjected, Rotating
  <2> QED
    BY <1>6, <2>2, <2>3 DEF CheckEjected
<1>7. ASSUME NEW r \in Request, SnapshotBackups(r) PROVE SinceInv'
  <2>1. req[r].node \in picks[r] /\ req[r].node \in well[r]
    BY <1>7 DEF SnapshotBackups, SinceInv, SinceOK
  <2>2. PICK S : Goto(r, Backups(req[r].client, req[r].node, S))
    BY <1>7 DEF SnapshotBackups
  <2> QED
    BY <1>7, <2>1, <2>2, GotoKeepsSince DEF SnapshotBackups, Backups
<1>8. ASSUME NEW r \in Request, Rotate(r) PROVE SinceInv'
  <2>1. UNCHANGED <<view, pick, pickAge, picks, well>>
    BY <1>8 DEF Rotate, sinceVars
  <2>2. Healthy' = Healthy /\ \A c : Recent(c)' = Recent(c)
    BY <2>1 DEF Healthy, IsNodeHealthy, Recent
  <2>3. /\ req'[r] = Picking(req[r].client, req[r].avail) /\ req[r].pc = "rotating"
        /\ \A o \in Request \ {r} : req'[o] = req[o]
    BY <1>8 DEF Rotate, TypeOK
  <2>4. req'[r].pc = "picking" /\ req'[r].client = req[r].client
    BY <2>3 DEF Picking
  <2>5. SinceOK(r)'
    <3>1. SinceOK(r)
      BY DEF SinceInv
    <3> QED
      BY <2>1, <2>2, <2>3, <2>4, <3>1 DEF SinceOK
  <2>6. \A o \in Request \ {r} : SinceOK(o)'
    BY <2>1, <2>2, <2>3 DEF SinceInv, SinceOK
  <2> QED
    BY <2>5, <2>6 DEF SinceInv
<1>9. ASSUME NEW r \in Request, NEW c \in Client, TakeSnapshot(r, c) PROVE SinceInv'
  <2>1. PICK S : req' = [req EXCEPT ![r] = Snapped(c, S)]
    BY <1>9 DEF TakeSnapshot
  <2>2. /\ picks' = [picks EXCEPT ![r] = Recent(c)] /\ well' = [well EXCEPT ![r] = Healthy]
        /\ UNCHANGED <<view, pick, pickAge>>
    BY <1>9 DEF TakeSnapshot, stickyVars
  <2>3. Healthy' = Healthy /\ \A d : Recent(d)' = Recent(d)
    BY <2>2 DEF Healthy, IsNodeHealthy, Recent
  <2>4. /\ req'[r] = Snapped(c, S) /\ picks'[r] = Recent(c) /\ well'[r] = Healthy
        /\ \A o \in Request \ {r} :
              req'[o] = req[o] /\ picks'[o] = picks[o] /\ well'[o] = well[o]
    BY <2>1, <2>2 DEF TypeOK
  <2>5. req'[r].pc = "snapped" /\ req'[r].client = c
    BY <2>4 DEF Snapped
  <2>6. SinceOK(r)'
    BY <2>3, <2>4, <2>5 DEF SinceOK
  <2>7. \A o \in Request \ {r} : SinceOK(o)'
    BY <2>3, <2>4 DEF SinceInv, SinceOK
  <2> QED
    BY <2>6, <2>7 DEF SinceInv
<1>10. ASSUME NEW r \in Request, End(r), UNCHANGED <<view, stickyVars>> PROVE SinceInv'
  <2>1. Healthy' = Healthy /\ \A d : Recent(d)' = Recent(d)
    BY <1>10 DEF Healthy, IsNodeHealthy, Recent, stickyVars
  <2>2. /\ req'[r].pc = "idle"
        /\ \A o \in Request \ {r} :
              req'[o] = req[o] /\ picks'[o] = picks[o] /\ well'[o] = well[o]
    BY <1>10 DEF End, Idle, TypeOK
  <2> QED
    BY <2>1, <2>2 DEF SinceInv, SinceOK
<1>11. ASSUME NEW r \in Request, SelectAndBind(r) PROVE SinceInv'
  <2>1. PICK c \in Client : c = req[r].client
    BY <1>11, RequestParts DEF SelectAndBind, TypeOK
  <2>2. PICK n : SelectedFor(c, n, r) /\ pick' = [pick EXCEPT ![c] = n]
    BY <1>11, <2>1 DEF SelectAndBind
  <2>3. /\ req' = [req EXCEPT ![r] = Idle] /\ well' = [well EXCEPT ![r] = {}]
        /\ pickAge' = [pickAge EXCEPT ![c] = 0] /\ UNCHANGED view
    BY <1>11, <2>1 DEF SelectAndBind
  <2>4. req'[r].pc = "idle" /\ Healthy' = Healthy
    BY <2>3 DEF Idle, TypeOK, Healthy, IsNodeHealthy
  <2>5. ASSUME NEW o \in Request \ {r} PROVE SinceOK(o)'
    <3>1. req'[o] = req[o] /\ well'[o] = well[o]
      BY <2>3 DEF TypeOK
    <3>2. picks'[o] = IF req[o].pc # "idle" /\ req[o].client = c THEN picks[o] \cup {n}
                      ELSE picks[o]
      BY <2>2 DEF SelectedFor
    <3>3. SinceOK(o)
      BY DEF SinceInv
    <3>4. CASE req[o].pc = "idle"
      BY <3>1, <3>4 DEF SinceOK
    <3>5. CASE req[o].pc # "idle" /\ req[o].client = c
      <4>1. Recent(c)' \subseteq {n}
        BY <2>1, <2>2 DEF Recent, TypeOK
      <4> QED
        BY <2>4, <3>1, <3>2, <3>3, <3>5, <4>1 DEF SinceOK
    <3>6. CASE req[o].pc # "idle" /\ req[o].client # c
      <4>1. req[o].client \in Client
        BY <3>6, RequestParts DEF TypeOK
      <4>2. Recent(req[o].client)' = Recent(req[o].client)
        BY <2>2, <2>3, <3>1, <3>6, <4>1 DEF Recent, TypeOK
      <4> QED
        BY <2>4, <3>1, <3>2, <3>3, <3>6, <4>2 DEF SinceOK
    <3> QED
      BY <3>4, <3>5, <3>6
  <2>6. SinceOK(r)'
    BY <2>4 DEF SinceOK
  <2> QED
    BY <2>5, <2>6 DEF SinceInv
<1>12. CASE RegistryStep
  <2>1. /\ well' = [r \in Request |-> IF req[r].pc = "idle" THEN {} ELSE well[r] \cup Healthy']
        /\ UNCHANGED <<pick, pickAge, req, picks>>
    BY <1>12 DEF RegistryStep, stickyVars
  <2>2. \A d : Recent(d)' = Recent(d)
    BY <2>1 DEF Recent
  <2> QED
    BY <2>1, <2>2 DEF SinceInv, SinceOK
<1>13. CASE Cleanup
  <2>1. UNCHANGED <<view, pick, pickAge, req, picks, well>>
    BY <1>13 DEF Cleanup, sinceVars
  <2>2. Healthy' = Healthy /\ \A d : Recent(d)' = Recent(d)
    BY <2>1 DEF Healthy, IsNodeHealthy, Recent
  <2> QED
    BY <2>1, <2>2 DEF SinceInv, SinceOK
<1>14. CASE Tick
  <2>1. UNCHANGED <<view, pick, req, picks, well>>
    BY <1>14 DEF Tick, sinceVars
  <2>2. \A d \in Client : Recent(d)' \subseteq Recent(d)
    <3> SUFFICES ASSUME NEW d \in Client, pickAge'[d] <= TTL PROVE pickAge[d] <= TTL
      BY <2>1 DEF Recent
    <3>1. pickAge'[d] = Older(pickAge[d]) /\ pickAge[d] \in Age
      BY <1>14 DEF Tick, TypeOK
    <3> QED
      BY <3>1, ConstAssumption DEF Older, Age
  <2>3. Healthy' = Healthy
    BY <2>1 DEF Healthy, IsNodeHealthy
  <2>4. ASSUME NEW o \in Request PROVE SinceOK(o)'
    <3>1. SinceOK(o)
      BY DEF SinceInv
    <3>2. req[o].pc # "idle" => req[o].client \in Client
      BY RequestParts DEF TypeOK
    <3> QED
      BY <2>1, <2>2, <2>3, <3>1, <3>2 DEF SinceOK
  <2> QED
    BY <2>4 DEF SinceInv
<1>15. CASE UNCHANGED vars
  BY <1>15 DEF vars, SinceInv, SinceOK, Recent, Healthy, IsNodeHealthy
<1> QED
  BY <1>1, <1>2, <1>3, <1>4, <1>5, <1>6, <1>7, <1>8, <1>9, <1>10, <1>11, <1>12, <1>13, <1>14, <1>15
     DEF Next, RequestStep, DispatchWithSticky, SelectNone

\* A step that answers from a binding is DispatchWithSticky's.
LEMMA StickyStep ==
  ASSUME TypeOK, SinceInv, [Next]_vars, vars' # vars, answer'.via = "sticky"
  PROVE  answer'.nodes[1] \in picks[answer'.to] \cap well[answer'.to]
<1>1. PICK r \in Request : DispatchWithSticky(r)
  BY DEF Next, RequestStep, TakeSnapshot, Filter, GetNothing, GetOld, GetSticky, CheckNode,
       CheckEjected, SnapshotBackups, Rotate, Goto, SelectAndBind, SelectNone, RegistryStep,
       Cleanup, Tick, NoAnswer
<1> DEFINE n == req[r].node
<1>2. n \in Node /\ req[r].snap \in SUBSET Node
  BY <1>1, RequestParts DEF DispatchWithSticky, TypeOK
<1>3. n \in picks[r] /\ n \in well[r]
  BY <1>1 DEF DispatchWithSticky, SinceInv, SinceOK
<1>4. PICK A \in FilterOutliers(req[r].snap) : \E q \in P2cSelect(A \ {n}, BackupCount) :
         answer' = [via |-> "sticky", to |-> r, nodes |-> <<n>> \o q]
  BY <1>1 DEF DispatchWithSticky
<1>5. PICK q \in P2cSelect(A \ {n}, BackupCount) :
         answer' = [via |-> "sticky", to |-> r, nodes |-> <<n>> \o q]
  BY <1>4
<1>6. A \ {n} \in SUBSET Node
  BY <1>2, <1>4, FilterGivesPart
<1>7. \E m \in Nat : q \in [1..m -> Node]
  <2>1. PICK m \in Nat : q \in [1..m -> A \ {n}]
    BY <1>5, <1>6, PicksFrom, ConstAssumption
  <2> QED
    BY <1>6, <2>1
<1>8. (<<n>> \o q)[1] = n
  BY <1>2, <1>7
<1>9. answer'.nodes[1] = n /\ answer'.to = r
  BY <1>5, <1>8
<1> QED
  BY <1>3, <1>9

\* For any number of requests and clients, an answer from a binding leads with a
\* node that was the client's latest selection, made no longer than rotateInterval
\* ago, and that was healthy, each at a moment of the request, however its separate
\* lock holds interleave with the others'.
THEOREM StickyAnswersAreCurrent == Spec => StickyAnswerIsCurrent
<1>1. Init => SinceInv
  BY DEF Init, SinceInv, SinceOK, Idle
<1>2. TypeOK /\ SinceInv /\ [Next]_vars =>
        [answer'.via = "sticky" => answer'.nodes[1] \in picks[answer'.to] \cap well[answer'.to]]_vars
  BY StickyStep
<1> QED
  BY <1>1, <1>2, SinceStep, TypeCorrect, BindingsMatch, PTL DEF Spec, StickyAnswerIsCurrent

-----------------------------------------------------------------------------
(* The share of ejected nodes.                                             *)

\* The truncated product is at most the share.
LEMMA MaxEjectBound == \A k \in Nat : MaxEject(k) \in Nat /\ 100 * MaxEject(k) <= EjectPercent * k
<1> SUFFICES ASSUME NEW k \in Nat
             PROVE  MaxEject(k) \in Nat /\ 100 * MaxEject(k) <= EjectPercent * k
  OBVIOUS
<1>1. k * EjectPercent \in Nat /\ k * EjectPercent = EjectPercent * k
  BY ConstAssumption
<1>2. \A x \in Nat : x \div 100 \in Nat /\ 100 * (x \div 100) <= x
  OBVIOUS
<1> QED
  BY <1>1, <1>2 DEF MaxEject

\* What the filter leaves out of S is within the share.
LEMMA FilterIsCapped ==
  ASSUME NEW S \in SUBSET Node, NEW A \in FilterOutliers(S)
  PROVE  100 * Cardinality(S \ A) <= EjectPercent * Cardinality(S)
<1>1. PICK E \in SUBSET S : \E D \in SUBSET E :
         /\ Cardinality(D) = SmallerOf(MaxEject(Cardinality(S)), Cardinality(E))
         /\ A = S \ D
  BY DEF FilterOutliers
<1>1a. PICK D \in SUBSET E :
         /\ Cardinality(D) = SmallerOf(MaxEject(Cardinality(S)), Cardinality(E))
         /\ A = S \ D
  BY <1>1
<1>2. S \ A = D
  BY <1>1a
<1>3. IsFiniteSet(S) /\ IsFiniteSet(E)
  BY FS_Subset, ConstAssumption
<1>4. Cardinality(S) \in Nat /\ Cardinality(E) \in Nat
  BY <1>3, FS_CardinalityType
<1>5. MaxEject(Cardinality(S)) \in Nat /\ 100 * MaxEject(Cardinality(S)) <= EjectPercent * Cardinality(S)
  BY <1>4, MaxEjectBound
<1>6. Cardinality(D) \in Nat /\ Cardinality(D) <= MaxEject(Cardinality(S))
  BY <1>1a, <1>4, <1>5 DEF SmallerOf
<1>7. EjectPercent * Cardinality(S) \in Nat
  BY <1>4, ConstAssumption
<1>8. \A d, m, x \in Nat : d <= m /\ 100 * m <= x => 100 * d <= x
  OBVIOUS
<1>9. 100 * Cardinality(D) <= EjectPercent * Cardinality(S)
  BY <1>5, <1>6, <1>7, <1>8
<1> QED
  BY <1>2, <1>9

\* A request that has looked at the nodes has seen one.
SnapshotsAreNotEmpty == \A r \in Request : req[r].pc = "snapped" => req[r].snap # {}

LEMMA CappedStep ==
  TypeOK /\ SnapshotsAreNotEmpty /\ EjectionCapped /\ [Next]_vars
    => SnapshotsAreNotEmpty' /\ EjectionCapped'
<1> SUFFICES ASSUME TypeOK, SnapshotsAreNotEmpty, EjectionCapped, [Next]_vars
             PROVE  SnapshotsAreNotEmpty' /\ EjectionCapped'
  OBVIOUS
<1>1. ASSUME UNCHANGED req PROVE SnapshotsAreNotEmpty' /\ EjectionCapped'
  BY <1>1 DEF SnapshotsAreNotEmpty, EjectionCapped
<1>2. ASSUME NEW r \in Request, NEW q, req' = [req EXCEPT ![r] = q],
             q.pc \notin {"snapped", "filtered"}
      PROVE  SnapshotsAreNotEmpty' /\ EjectionCapped'
  <2>1. req'[r] = q /\ \A o \in Request \ {r} : req'[o] = req[o]
    BY <1>2 DEF TypeOK
  <2> QED
    BY <1>2, <2>1 DEF SnapshotsAreNotEmpty, EjectionCapped
<1>3. ASSUME NEW r \in Request, NEW c \in Client, TakeSnapshot(r, c)
      PROVE  SnapshotsAreNotEmpty' /\ EjectionCapped'
  <2>1. PICK S : S # {} /\ req' = [req EXCEPT ![r] = Snapped(c, S)]
    BY <1>3 DEF TakeSnapshot
  <2>2. req'[r] = Snapped(c, S) /\ \A o \in Request \ {r} : req'[o] = req[o]
    BY <2>1 DEF TypeOK
  <2>3. req'[r].pc = "snapped" /\ req'[r].snap = S
    BY <2>2 DEF Snapped
  <2> QED
    BY <2>1, <2>2, <2>3 DEF SnapshotsAreNotEmpty, EjectionCapped
<1>4. ASSUME NEW r \in Request, Filter(r)
      PROVE  SnapshotsAreNotEmpty' /\ EjectionCapped'
  <2> DEFINE S == req[r].snap
  <2>1. S \in SUBSET Node /\ S # {}
    BY <1>4, RequestParts DEF Filter, TypeOK, SnapshotsAreNotEmpty
  <2>2. PICK A \in FilterOutliers(S) :
          req' = [req EXCEPT ![r] = Filtered(req[r].client, S, IF A = {} THEN S ELSE A)]
    BY <1>4 DEF Filter, Goto
  <2>3. /\ req'[r].pc = "filtered" /\ req'[r].snap = S
        /\ req'[r].avail = IF A = {} THEN S ELSE A
    BY <2>2 DEF Filtered, TypeOK
  <2>4. \A t \in Request \ {r} : req'[t] = req[t]
    BY <2>2 DEF TypeOK
  <2> HIDE DEF S
  <2>5. 100 * Cardinality(S \ req'[r].avail) <= EjectPercent * Cardinality(S)
    <3>1. CASE A = {}
      <4>1. S \ req'[r].avail = {} /\ Cardinality({}) = 0
        BY <2>3, <3>1, FS_EmptySet
      <4>2. Cardinality(S) \in Nat
        BY <2>1, FS_Subset, FS_CardinalityType, ConstAssumption
      <4>3. EjectPercent * Cardinality(S) \in Nat
        BY <4>2, ConstAssumption
      <4> QED
        BY <4>1, <4>3
    <3>2. CASE A # {}
      BY <2>1, <2>2, <2>3, <3>2, FilterIsCapped
    <3> QED
      BY <3>1, <3>2
  <2>6. EjectionCapped'
    BY <2>1, <2>3, <2>4, <2>5 DEF EjectionCapped
  <2>7. SnapshotsAreNotEmpty'
    BY <2>3, <2>4 DEF SnapshotsAreNotEmpty
  <2> QED
    BY <2>6, <2>7
<1>5. Idle.pc = "idle"
  BY DEF Idle
<1>6. ASSUME NEW r \in Request,
             GetNothing(r) \/ GetOld(r) \/ GetSticky(r) \/ CheckNode(r) \/ CheckEjected(r)
               \/ SnapshotBackups(r) \/ Rotate(r)
      PROVE  SnapshotsAreNotEmpty' /\ EjectionCapped'
  <2>1. \E q : req' = [req EXCEPT ![r] = q] /\ q.pc \notin {"snapped", "filtered"}
    <3>1. ASSUME NEW c, NEW A, NEW n, NEW S
          PROVE  /\ Bound(c, A, n).pc = "bound" /\ Checked(c, A, n).pc = "checked"
                 /\ Sticky(c, n).pc = "sticky" /\ Backups(c, n, S).pc = "backups"
                 /\ Rotating(c, A).pc = "rotating" /\ Picking(c, A).pc = "picking"
      BY DEF Bound, Checked, Sticky, Backups, Rotating, Picking
    <3>2. CASE GetNothing(r) \/ GetOld(r) \/ GetSticky(r)
      BY <3>1, <3>2 DEF GetNothing, GetOld, GetSticky, Goto
    <3>3. CASE CheckNode(r) \/ CheckEjected(r)
      BY <3>1, <3>3 DEF CheckNode, CheckEjected, Goto
    <3>4. CASE SnapshotBackups(r)
      <4>1. PICK S : req' = [req EXCEPT ![r] = Backups(req[r].client, req[r].node, S)]
        BY <3>4 DEF SnapshotBackups, Goto
      <4> QED
        BY <3>1, <4>1
    <3>5. CASE Rotate(r)
      <4>1. req' = [req EXCEPT ![r] = Picking(req[r].client, req[r].avail)]
        BY <3>5 DEF Rotate
      <4> QED
        BY <3>1, <4>1
    <3> QED
      BY <1>6, <3>2, <3>3, <3>4, <3>5
  <2> QED
    BY <1>2, <2>1
<1> QED
  BY <1>1, <1>2, <1>3, <1>4, <1>5, <1>6
     DEF Next, RequestStep, DispatchWithSticky, SelectAndBind, SelectNone, End, RegistryStep,
         Cleanup, Tick, vars

\* For any finite set of nodes and any percentage below 100 the outlier filter
\* leaves a candidate and takes no more than its share.
THEOREM EjectionsCapped == Spec => []EjectionCapped
<1>1. Init => SnapshotsAreNotEmpty /\ EjectionCapped
  BY DEF Init, SnapshotsAreNotEmpty, EjectionCapped, Idle
<1> QED
  BY <1>1, TypeCorrect, CappedStep, PTL DEF Spec
=============================================================================
