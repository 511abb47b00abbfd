----------------------------- MODULE MCQuality ------------------------------
(* The two halves of a quality report: what it does to the viewer's session *)
(* and what it does to the node.  They share no state, so one of them       *)
(* moves, half, and the other stays as it was in the beginning, where none  *)
(* of the steps it is fair to is possible.                                  *)
(*                                                                          *)
(* One session and one node, as neither interact among themselves, and two  *)
(* reports of each at a time.  For the node the code's limit of three       *)
(* complaints; its threshold of five failures is two here, its ten steps    *)
(* from the base to the longest ejection are two.  The weights are chosen   *)
(* so that both steps can pass the maximum and the decay can reach the      *)
(* floor.                                                                   *)
EXTENDS MCViewerSessions, NodePenalties

CONSTANT n1

OneNode == {n1}

VARIABLE half

QualityInit == half \in {"session", "node"} /\ Init /\ PenaltyInit

SessionMoves ==
    /\ half = "session"
    /\ Next
    /\ UNCHANGED <<half, penaltyVars>>

NodeMoves ==
    /\ half = "node"
    /\ PenaltyNext
    /\ UNCHANGED <<half, vars>>

QualitySpec ==
    /\ QualityInit
    /\ [][SessionMoves \/ NodeMoves]_<<half, vars, penaltyVars>>
    /\ Fairness
    /\ PenaltyFairness
=============================================================================
