----------------------------- MODULE MCCascade ------------------------------
(* The agents that pull from each other, and a stream on one of them.  A    *)
(* relay takes its source once, when it is created, and is told nothing of  *)
(* the cascade after that, so one of them moves, part, and the other stays  *)
(* as it was in the beginning.                                              *)
(*                                                                          *)
(* The agents are those of MCMesh.  The stream has a viewer of each         *)
(* protocol, of which one at a time is admitted; the channel, the GOPs and  *)
(* the cache hold a few tags, so that the stream outruns them.  Which of    *)
(* two sources is used makes no difference to anything else, so there is    *)
(* one.                                                                     *)
EXTENDS FlvRelay, MCMesh

CONSTANTS h1, w1

TwoViewers == {h1, w1}
OneWs == {w1}
PictureKinds == {"videoHeader", "key", "inter"}

VARIABLE part

CascadeInit == part \in {"relay", "agents"} /\ Init /\ MeshInit

RelayMoves ==
    /\ part = "relay"
    /\ Next
    /\ UNCHANGED <<part, meshVars>>

AgentsMove ==
    /\ part = "agents"
    /\ MeshNext
    /\ UNCHANGED <<part, vars>>

CascadeSpec ==
    /\ CascadeInit
    /\ [][RelayMoves \/ AgentsMove]_<<part, vars, meshVars>>
    /\ Fairness
=============================================================================
