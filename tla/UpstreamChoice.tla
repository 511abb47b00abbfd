--------------------------- MODULE UpstreamChoice ---------------------------
(* What an agent promises of its upstream, and all that Mesh needs of it:  *)
(* it is the origin or an agent offered by the response being handled, or  *)
(* by a copy of the stored one that the ping task took before, perhaps     *)
(* before a newer one was stored.  Mesh has these actions for every agent; *)
(* CascadeSelector is shown to implement them.                             *)
CONSTANTS
    Upstream,  \* agents that may be offered
    Origin     \* no upstream agent

VARIABLES
    handled,  \* offers of the response being handled: {} or {offers}
    stored,   \* offers of the last response stored: {} or {offers}
    held,     \* offers of the ping task's copy: {} or {offers}
    choice    \* the upstream

ChoiceInit == handled = {} /\ stored = {} /\ held = {} /\ choice = Origin

TakeFrom(A) == \E C \in A : choice' \in IF C = {} THEN {Origin} ELSE C

TakeHandled == TakeFrom(handled) /\ UNCHANGED <<handled, stored, held>>

TakeHeld == TakeFrom(held) /\ held' = {} /\ UNCHANGED <<handled, stored>>

Deliver ==
    /\ handled = {}
    /\ \E C \in SUBSET Upstream : handled' = {C}
    /\ UNCHANGED <<stored, held, choice>>

Store ==
    /\ handled # {}
    /\ stored' = handled
    /\ handled' = {}
    /\ UNCHANGED <<held, choice>>

Copy ==
    /\ held = {} /\ stored # {}
    /\ held' = stored
    /\ UNCHANGED <<handled, stored, choice>>

ChoiceNext == Deliver \/ Store \/ Copy \/ TakeHandled \/ TakeHeld

ChoiceSpec == ChoiceInit /\ [][ChoiceNext]_<<handled, stored, held, choice>>
=============================================================================
