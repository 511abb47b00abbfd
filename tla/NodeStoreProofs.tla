-------------------------- MODULE NodeStoreProofs --------------------------
(***************************************************************************)
(* Proofs about the node registry, alone and with the agents of AgentLink, *)
(* for any set of nodes and any thresholds that satisfy the assumptions of *)
(* NodeStore.                                                              *)
(***************************************************************************)
EXTENDS AgentLink, TLAPS

\* Ageing stays inside the cap.
LEMMA OlderType == \A a \in 0..MaxAge : Older(a) \in 0..MaxAge
  BY AgeAssumption DEF Older

\* Deleting any set of records keeps the types.
LEMMA DeleteType ==
  ASSUME TypeOK, NEW STATE S, Delete(S)
  PROVE  TypeOK'
<1>1. lossy' \in [Node -> BOOLEAN]
  <2>1. ASSUME NEW n \in Node PROVE (IF n \in S THEN FALSE ELSE lossy[n]) \in BOOLEAN
    BY Zenon DEF TypeOK
  <2>2. QED
    BY <2>1, Zenon DEF Delete
<1>2. hbAge' \in [Node -> 0..MaxAge]
  BY AgeAssumption DEF TypeOK, Delete
<1>3. QED
  BY <1>1, <1>2 DEF TypeOK, Delete, BWLevel

\* The variables of the registry always have their types (MemoryStore.nodes
\* and the handlers that write it).
LEMMA TypeStep == TypeOK /\ [Next]_vars => TypeOK'
<1> SUFFICES ASSUME TypeOK, [Next]_vars
             PROVE  TypeOK'
  OBVIOUS
<1>1. ASSUME NEW n \in Node, RegisterNew(n) PROVE TypeOK'
  BY <1>1, AgeAssumption DEF TypeOK, RegisterNew, NodeStatus
<1>2. ASSUME NEW n \in Node, NEW l \in BWLevel, RegisterAgain(n, l) PROVE TypeOK'
  BY <1>2, AgeAssumption DEF TypeOK, RegisterAgain, NodeStatus
<1>3. ASSUME NEW n \in Node, NEW l \in BWLevel, NEW loss \in BOOLEAN,
             UpdateHeartbeat(n, l, loss)
      PROVE  TypeOK'
  BY <1>3, AgeAssumption DEF TypeOK, UpdateHeartbeat, NodeStatus
<1>4. ASSUME NEW n \in Node, NEW st \in RequestStatus, HandleSetNodeStatus(n, st)
      PROVE  TypeOK'
  BY <1>4 DEF TypeOK, HandleSetNodeStatus, SetNodeStatus, AdminStatus, NodeStatus
<1>5. ASSUME NEW n \in Node, ApproveCheck(n) PROVE TypeOK'
  BY <1>5 DEF TypeOK, ApproveCheck
<1>6. ASSUME NEW n \in Node, ApproveSet(n) PROVE TypeOK'
  BY <1>6 DEF TypeOK, ApproveSet, SetNodeStatus, NodeStatus
<1>7. ASSUME NEW n \in Node, RemoveNode(n) PROVE TypeOK'
  BY <1>7, DeleteType DEF RemoveNode
<1>8. ASSUME NEW t \in Timeouts, HandleConfigUpdate(t) PROVE TypeOK'
  BY <1>8 DEF TypeOK, HandleConfigUpdate
<1>9. CASE RemoveStaleNodes
  BY <1>9, DeleteType DEF RemoveStaleNodes
<1>10. CASE Tick
  BY <1>10, OlderType DEF TypeOK, Tick
<1>11. CASE UNCHANGED vars
  BY <1>11 DEF TypeOK, vars
<1>12. QED
  BY <1>1, <1>2, <1>3, <1>4, <1>5, <1>6, <1>7, <1>8, <1>9, <1>10, <1>11
     DEF Next, AgentStep, AdminStep

\* Type correctness of the registry for every number of nodes.
THEOREM TypeCorrect == Spec => []TypeOK
<1>1. Init => TypeOK
  BY AgeAssumption, TimeoutAssumption DEF Init, TypeOK, BWLevel
<1>2. QED
  BY <1>1, TypeStep, PTL DEF Spec

-----------------------------------------------------------------------------
\* A record nobody vouched for stays pending: the only steps that write a
\* status either create the record, keep it, or vouch for it.
LEMMA UnvouchedStep ==
  TypeOK /\ UnvouchedIsPending /\ [Next]_vars => UnvouchedIsPending'
<1> SUFFICES ASSUME TypeOK, UnvouchedIsPending, [Next]_vars
             PROVE  UnvouchedIsPending'
  OBVIOUS
<1> USE DEF TypeOK, UnvouchedIsPending, Registered
<1>1. ASSUME NEW n \in Node, RegisterNew(n) PROVE UnvouchedIsPending'
  BY <1>1 DEF RegisterNew
<1>2. ASSUME NEW n \in Node, NEW l \in BWLevel, RegisterAgain(n, l)
      PROVE  UnvouchedIsPending'
  BY <1>2 DEF RegisterAgain
<1>3. ASSUME NEW n \in Node, NEW l \in BWLevel, NEW loss \in BOOLEAN,
             UpdateHeartbeat(n, l, loss)
      PROVE  UnvouchedIsPending'
  BY <1>3 DEF UpdateHeartbeat
<1>4. ASSUME NEW n \in Node, NEW st \in RequestStatus, HandleSetNodeStatus(n, st)
      PROVE  UnvouchedIsPending'
  BY <1>4 DEF HandleSetNodeStatus, SetNodeStatus
<1>5. ASSUME NEW n \in Node, ApproveCheck(n) PROVE UnvouchedIsPending'
  BY <1>5 DEF ApproveCheck
<1>6. ASSUME NEW n \in Node, ApproveSet(n) PROVE UnvouchedIsPending'
  BY <1>6 DEF ApproveSet, SetNodeStatus
<1>7. ASSUME NEW STATE S, Delete(S) PROVE UnvouchedIsPending'
  BY <1>7 DEF Delete
<1>8. ASSUME NEW t \in Timeouts, HandleConfigUpdate(t) PROVE UnvouchedIsPending'
  BY <1>8 DEF HandleConfigUpdate
<1>9. CASE Tick
  BY <1>9 DEF Tick
<1>10. CASE UNCHANGED vars
  BY <1>10 DEF vars
<1>11. QED
  BY <1>1, <1>2, <1>3, <1>4, <1>5, <1>6, <1>7, <1>8, <1>9, <1>10
     DEF Next, AgentStep, AdminStep, RemoveNode, RemoveStaleNodes

\* No node is in service on the strength of registrations alone, for any
\* number of nodes and any interleaving of agents, admins and clean-up.
THEOREM ServableVouched == Spec => []ServableIsVouched
<1>1. Init => UnvouchedIsPending
  BY DEF Init, UnvouchedIsPending, Registered
<1>2. UnvouchedIsPending => ServableIsVouched
  BY DEF UnvouchedIsPending, ServableIsVouched, IsNodeHealthy, Registered
<1>3. QED
  BY <1>1, <1>2, TypeCorrect, UnvouchedStep, PTL DEF Spec

-----------------------------------------------------------------------------
\* A step of Next that changes the status of n to pending created the record.
LEMMA PendingStep ==
  TypeOK /\ [Next]_vars =>
    [\A n \in Node :
       status'[n] = "pending" /\ status[n] # "pending" => status[n] = "absent"]_vars
<1> SUFFICES ASSUME TypeOK, [Next]_vars, NEW m \in Node,
                    status'[m] = "pending", status[m] # "pending"
             PROVE  status[m] = "absent"
  OBVIOUS
<1> USE DEF TypeOK, Registered
<1>1. ASSUME NEW n \in Node, RegisterNew(n) PROVE status[m] = "absent"
  BY <1>1 DEF RegisterNew
<1>2. ASSUME NEW n \in Node, NEW l \in BWLevel, RegisterAgain(n, l)
      PROVE  status[m] = "absent"
  BY <1>2 DEF RegisterAgain
<1>3. ASSUME NEW n \in Node, NEW l \in BWLevel, NEW loss \in BOOLEAN,
             UpdateHeartbeat(n, l, loss)
      PROVE  status[m] = "absent"
  BY <1>3 DEF UpdateHeartbeat
<1>4. ASSUME NEW n \in Node, NEW st \in RequestStatus, HandleSetNodeStatus(n, st)
      PROVE  status[m] = "absent"
  BY <1>4 DEF HandleSetNodeStatus, SetNodeStatus, AdminStatus
<1>5. ASSUME NEW n \in Node, ApproveCheck(n) PROVE status[m] = "absent"
  BY <1>5 DEF ApproveCheck
<1>6. ASSUME NEW n \in Node, ApproveSet(n) PROVE status[m] = "absent"
  BY <1>6 DEF ApproveSet, SetNodeStatus
<1>7. ASSUME NEW STATE S, Delete(S) PROVE status[m] = "absent"
  BY <1>7 DEF Delete
<1>8. ASSUME NEW t \in Timeouts, HandleConfigUpdate(t) PROVE status[m] = "absent"
  BY <1>8 DEF HandleConfigUpdate
<1>9. CASE Tick
  BY <1>9 DEF Tick
<1>10. CASE UNCHANGED vars
  BY <1>10 DEF vars
<1>11. QED
  BY <1>1, <1>2, <1>3, <1>4, <1>5, <1>6, <1>7, <1>8, <1>9, <1>10
     DEF Next, AgentStep, AdminStep, RemoveNode, RemoveStaleNodes

\* No step sends a node in service back to the approval queue.
THEOREM PendingOnlyCreated == Spec => PendingOnlyWhenCreated
  BY TypeCorrect, PendingStep, PTL DEF Spec, PendingOnlyWhenCreated

-----------------------------------------------------------------------------
(* Refinement: the registry implements NodeView.                           *)

\* The view of one node, and when a step leaves it as it is.
LEMMA ViewOf ==
  /\ viewOfNode \in [Node -> {"absent", "known", "servable"}]
  /\ \A n \in Node :
       /\ (viewOfNode[n] = "absent") <=> ~Registered(n)
       /\ (viewOfNode[n] = "servable") <=> (Registered(n) /\ IsNodeHealthy(n))
  BY DEF viewOfNode

\* A step that only touches one registered record, and keeps it, is a Gain, a
\* Lose of that node alone, or leaves the view as it is.
LEMMA OneNodeStep ==
  ASSUME NEW n \in Node, viewOfNode[n] # "absent", viewOfNode'[n] # "absent",
         \A m \in Node \ {n} : viewOfNode'[m] = viewOfNode[m]
  PROVE  [Abstract!ViewNext]_viewOfNode
<1> DEFINE w == viewOfNode
<1>1. w \in [Node -> {"absent", "known", "servable"}] /\ w' \in [Node -> {"absent", "known", "servable"}]
  BY DEF viewOfNode
<1> HIDE DEF w
<1>2. ASSUME NEW to \in {"known", "servable"}, w'[n] = to
      PROVE  w' = [m \in Node |-> IF m \in {n} THEN to ELSE w[m]]
  BY <1>1, <1>2 DEF w
<1>3. CASE w[n] = "known" /\ w'[n] = "servable"
  BY <1>2, <1>3 DEF Abstract!ViewNext, Abstract!Gain, Abstract!Move, w
<1>4. CASE w[n] = "servable" /\ w'[n] = "known"
  <2>1. Abstract!Lose({n})
    BY <1>2, <1>4 DEF Abstract!Lose, Abstract!Move, w
  <2>2. {n} \in SUBSET Node
    OBVIOUS
  <2>3. QED
    BY <2>1, <2>2 DEF Abstract!ViewNext
<1>5. CASE w[n] = w'[n]
  BY <1>1, <1>5 DEF w
<1>6. QED
  BY <1>1, <1>3, <1>4, <1>5 DEF w

\* Deleting registered records is a Forget of those nodes.
LEMMA DeleteForgets ==
  ASSUME TypeOK, NEW STATE S, S \subseteq Node, \A n \in S : Registered(n), Delete(S)
  PROVE  [Abstract!ViewNext]_viewOfNode
<1>1. \A n \in S : viewOfNode[n] \in {"known", "servable"}
  BY ViewOf
<1>2. viewOfNode' = [n \in Node |-> IF n \in S THEN "absent" ELSE viewOfNode[n]]
  BY DEF viewOfNode, Delete, Registered, IsNodeHealthy, TypeOK
<1>3. Abstract!Forget(S)
  BY <1>1, <1>2 DEF Abstract!Forget, Abstract!Move
<1>4. QED
  BY <1>3 DEF Abstract!ViewNext

LEMMA ViewStep == TypeOK /\ [Next]_vars => [Abstract!ViewNext]_viewOfNode
<1> SUFFICES ASSUME TypeOK, [Next]_vars
             PROVE  [Abstract!ViewNext]_viewOfNode
  OBVIOUS
<1>1. ASSUME NEW n \in Node, RegisterNew(n) PROVE [Abstract!ViewNext]_viewOfNode
  <2>1. viewOfNode[n] = "absent"
    BY <1>1, ViewOf DEF RegisterNew
  <2>2. viewOfNode' = [m \in Node |-> IF m \in {n} THEN "known" ELSE viewOfNode[m]]
    BY <1>1 DEF RegisterNew, viewOfNode, Registered, IsNodeHealthy, TypeOK
  <2>3. QED
    BY <2>1, <2>2 DEF Abstract!ViewNext, Abstract!Appear, Abstract!Move
<1>2. ASSUME NEW n \in Node, Registered(n), Registered(n)',
             \A m \in Node \ {n} : /\ status'[m] = status[m] /\ hbAge'[m] = hbAge[m]
                                   /\ bw'[m] = bw[m] /\ lossy'[m] = lossy[m]
      PROVE  [Abstract!ViewNext]_viewOfNode
  <2>1. viewOfNode[n] # "absent" /\ viewOfNode'[n] # "absent"
    BY <1>2 DEF viewOfNode
  <2>2. \A m \in Node \ {n} : viewOfNode'[m] = viewOfNode[m]
    BY <1>2 DEF viewOfNode, Registered, IsNodeHealthy
  <2>3. QED
    BY <2>1, <2>2, OneNodeStep
<1>3. ASSUME NEW n \in Node, NEW l \in BWLevel, RegisterAgain(n, l)
      PROVE  [Abstract!ViewNext]_viewOfNode
  BY <1>2, <1>3 DEF RegisterAgain, Registered, TypeOK
<1>4. ASSUME NEW n \in Node, NEW l \in BWLevel, NEW loss \in BOOLEAN,
             UpdateHeartbeat(n, l, loss)
      PROVE  [Abstract!ViewNext]_viewOfNode
  BY <1>2, <1>4 DEF UpdateHeartbeat, Registered, TypeOK
<1>5. ASSUME NEW n \in Node, NEW st \in RequestStatus, HandleSetNodeStatus(n, st)
      PROVE  [Abstract!ViewNext]_viewOfNode
  BY <1>2, <1>5 DEF HandleSetNodeStatus, SetNodeStatus, Registered, TypeOK, AdminStatus, NodeStatus
<1>6. ASSUME NEW n \in Node, ApproveSet(n) PROVE [Abstract!ViewNext]_viewOfNode
  <2>1. CASE Registered(n)
    BY <1>2, <1>6, <2>1 DEF ApproveSet, SetNodeStatus, Registered, TypeOK
  <2>2. CASE ~Registered(n)
    BY <1>6, <2>2 DEF ApproveSet, SetNodeStatus, Registered, TypeOK, viewOfNode, IsNodeHealthy
  <2>3. QED
    BY <2>1, <2>2
<1>7. ASSUME NEW n \in Node, RemoveNode(n) PROVE [Abstract!ViewNext]_viewOfNode
  BY <1>7, DeleteForgets DEF RemoveNode
<1>8. CASE RemoveStaleNodes
  <2>1. \A n \in {m \in Node : IsStale(m)} : Registered(n)
    BY DEF IsStale
  <2>2. QED
    BY <1>8, <2>1, DeleteForgets DEF RemoveStaleNodes
<1>9. CASE Tick
  <2> DEFINE S == {n \in Node : viewOfNode[n] = "servable" /\ viewOfNode'[n] # "servable"}
  <2>1. \A n \in Node : viewOfNode'[n] =
                          IF n \in S THEN "known" ELSE viewOfNode[n]
    <3> SUFFICES ASSUME NEW n \in Node
                 PROVE  viewOfNode'[n] = IF n \in S THEN "known" ELSE viewOfNode[n]
      OBVIOUS
    <3>1. Registered(n)' <=> Registered(n)
      BY <1>9 DEF Tick, Registered
    <3>2. hbAge'[n] >= hbAge[n] /\ hbAge[n] \in Int /\ hbAge'[n] \in Int
      BY <1>9, AgeAssumption DEF Tick, Older, TypeOK
    <3>3. IsNodeHealthy(n)' => IsNodeHealthy(n)
      BY <1>9, <3>2, AgeAssumption DEF Tick, IsNodeHealthy
    <3>4. QED
      BY <3>1, <3>3 DEF viewOfNode
  <2>2. viewOfNode' = [n \in Node |-> IF n \in S THEN "known" ELSE viewOfNode[n]]
    BY <2>1 DEF viewOfNode
  <2>3. Abstract!Lose(S)
    BY <2>2 DEF Abstract!Lose, Abstract!Move
  <2>4. S \in SUBSET Node
    OBVIOUS
  <2>5. QED
    BY <2>3, <2>4 DEF Abstract!ViewNext
<1>10. CASE \/ \E n \in Node : ApproveCheck(n)
            \/ \E t \in Timeouts : HandleConfigUpdate(t)
            \/ UNCHANGED vars
  BY <1>10 DEF ApproveCheck, HandleConfigUpdate, vars, viewOfNode, Registered, IsNodeHealthy
<1>11. QED
  BY <1>1, <1>3, <1>4, <1>5, <1>6, <1>7, <1>8, <1>9, <1>10
     DEF Next, AgentStep, AdminStep

\* For any set of nodes, what the scheduler and the mesh map read of the
\* registry behaves as NodeView specifies.
THEOREM RegistryImplementsNodeView == Spec => ImplementsNodeView
<1>1. Init => Abstract!ViewInit
  BY DEF Init, Abstract!ViewInit, viewOfNode, Registered
<1>2. QED
  BY <1>1, ViewStep, TypeCorrect, PTL DEF Spec, ImplementsNodeView, Abstract!ViewSpec

-----------------------------------------------------------------------------
(* The registry under the agents of AgentLink and restarts.                *)

\* Whatever the processes, the network and the administrators do, the registry
\* takes a step of its own, or none, or starts again.
LEMMA LinkIsRegistry == [LinkNext]_linkVars => [Next]_vars \/ RestartController
<1> SUFFICES ASSUME [LinkNext]_linkVars
             PROVE  [Next]_vars \/ RestartController
  OBVIOUS
<1>1. ASSUME NEW n \in Node, RegisterNode(n) PROVE Next
  BY <1>1 DEF RegisterNode, Next, AgentStep, BWLevel
<1>2. ASSUME NEW n \in Node, HandleRegister(n) PROVE [Next]_vars
  BY <1>1, <1>2 DEF HandleRegister
<1>3. ASSUME NEW n \in Node, HandleHeartbeat(n) PROVE [Next]_vars
  <2>1. CASE UpdateHeartbeat(n, "under", FALSE)
    BY <2>1 DEF Next, AgentStep, BWLevel
  <2> QED
    BY <1>3, <2>1 DEF HandleHeartbeat
<1>4. ASSUME NEW n \in Node, Progress(n) PROVE [Next]_vars
  BY <1>2, <1>3, <1>4
     DEF Progress, StartHandled, StartReplied, Beat, BeatHandled, BeatReplied, RegisteredByLoop,
         LateHandled, LateLost
<1>5. ASSUME NEW n \in Node, StopAgent(n) \/ Trouble(n) PROVE UNCHANGED vars
  BY <1>5 DEF StopAgent, Trouble, StartFails, BeatFails
<1>6. ASSUME NEW n \in Node, NEW c \in Config, StartAgent(n, c) PROVE UNCHANGED vars
  BY <1>6 DEF StartAgent
<1>7. CASE Operate \/ Configure \/ CleanUp \/ LinkTick
  BY <1>7 DEF Operate, Configure, CleanUp, LinkTick, Registry, Next
<1>8. CASE NetChanges \/ UNCHANGED linkVars
  BY <1>8 DEF NetChanges, linkVars
<1> QED
  BY <1>4, <1>5, <1>6, <1>7, <1>8 DEF LinkNext

\* A restart leaves the registry as it was at first.
LEMMA RestartIsInit == RestartController => Init'
  BY DEF RestartController, Init

LEMMA InitHolds == Init => TypeOK /\ UnvouchedIsPending
  BY AgeAssumption, TimeoutAssumption DEF Init, TypeOK, BWLevel, UnvouchedIsPending, Registered

LEMMA InitHoldsNext == Init' => TypeOK' /\ UnvouchedIsPending'
  BY InitHolds, PTL

\* To its readers it is as if every node had been forgotten.
LEMMA RestartForgets == RestartController => [Abstract!ViewNext]_viewOfNode
<1> SUFFICES ASSUME RestartController PROVE Abstract!ViewNext
  OBVIOUS
<1> DEFINE S == {n \in Node : Registered(n)}
<1>1. viewOfNode' = [n \in Node |-> IF n \in S THEN "absent" ELSE viewOfNode[n]]
  BY DEF RestartController, viewOfNode, Registered
<1>2. \A n \in S : viewOfNode[n] \in {"known", "servable"}
  BY ViewOf
<1>3. Abstract!Forget(S) /\ S \in SUBSET Node
  BY <1>1, <1>2 DEF Abstract!Forget, Abstract!Move
<1> QED
  BY <1>3 DEF Abstract!ViewNext

LEMMA LinkInv == LinkSpec => [](TypeOK /\ UnvouchedIsPending)
<1>1. LinkInit => TypeOK /\ UnvouchedIsPending
  BY InitHolds DEF LinkInit
<1>2. TypeOK /\ UnvouchedIsPending /\ [LinkNext]_linkVars => (TypeOK /\ UnvouchedIsPending)'
  BY LinkIsRegistry, RestartIsInit, InitHoldsNext, TypeStep, UnvouchedStep
<1> QED
  BY <1>1, <1>2, PTL DEF LinkSpec

\* No node is in service on the strength of its registrations alone, however
\* requests are lost, repeated by the heartbeat loop or handled after their
\* client gave up, and whenever agents and the Controller stop and start.
THEOREM LinkServableVouched == LinkSpec => []ServableIsVouched
<1>1. UnvouchedIsPending => ServableIsVouched
  BY DEF UnvouchedIsPending, ServableIsVouched, IsNodeHealthy, Registered
<1> QED
  BY <1>1, LinkInv, PTL

\* And for any number of agents the readers of the registry see what NodeView
\* specifies, restarts of the Controller included.
THEOREM LinkImplementsNodeView == LinkSpec => ImplementsNodeView
<1>1. LinkInit => Abstract!ViewInit
  BY DEF LinkInit, Init, Abstract!ViewInit, viewOfNode, Registered
<1>2. TypeOK /\ [LinkNext]_linkVars => [Abstract!ViewNext]_viewOfNode
  BY LinkIsRegistry, RestartForgets, ViewStep
<1> QED
  BY <1>1, <1>2, LinkInv, PTL DEF LinkSpec, ImplementsNodeView, Abstract!ViewSpec
=============================================================================
