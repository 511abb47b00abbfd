------------------------------ MODULE NodeView ------------------------------
(***************************************************************************)
(* What the Controller's node registry promises to the parts that only     *)
(* read it (scheduler, mesh map, capacity check): a node is absent, known  *)
(* but not servable, or servable (it passes IsNodeHealthy).  A node never  *)
(* goes from absent to servable in one step, nodes become servable one at  *)
(* a time, and they may be lost or forgotten in groups (the clock passes a *)
(* threshold for several nodes at once, a clean-up pass deletes several).  *)
(* NodeStore implements this specification; Scheduler is built on it.      *)
(***************************************************************************)
CONSTANT Node

VARIABLE view

View == {"absent", "known", "servable"}

ViewTypeOK == view \in [Node -> View]

ViewInit == view = [n \in Node |-> "absent"]

\* Nodes of S whose view is in From move to the view to, the others stay.
Move(S, From, to) ==
    /\ \A n \in S : view[n] \in From
    /\ view' = [n \in Node |-> IF n \in S THEN to ELSE view[n]]

Appear(n) == Move({n}, {"absent"}, "known")

Gain(n) == Move({n}, {"known"}, "servable")

Lose(S) == Move(S, {"servable"}, "known")

Forget(S) == Move(S, {"known", "servable"}, "absent")

ViewNext ==
    \/ \E n \in Node : Appear(n)
    \/ \E n \in Node : Gain(n)
    \/ \E S \in SUBSET Node : Lose(S)
    \/ \E S \in SUBSET Node : Forget(S)

ViewSpec == ViewInit /\ [][ViewNext]_view
=============================================================================
