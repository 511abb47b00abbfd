----------------------------- MODULE MCUpstream -----------------------------
(* An agent and its upstream: which one it chooses, and how what comes from *)
(* one is read.  The two share no state, so one of them moves, part, and    *)
(* the other stays as it was in the beginning.                              *)
(*                                                                          *)
(* Two upstreams of one level, which a failed probe lowers by as much as a  *)
(* switch must gain; the frames and tags are those of MCWire.               *)
EXTENDS CascadeSelector, MCWire

CONSTANTS u1, u2

TwoUpstreams == {u1, u2}
OneLevel == {1}
Symmetry == Permutations(TwoUpstreams)

VARIABLE part

UpstreamInit ==
    /\ Init
    /\ WireInit
    /\ part \in {"selector", "wire"}
    /\ part = "selector" => recv = "flv"   \* any one

SelectorMoves ==
    /\ part = "selector"
    /\ Next
    /\ UNCHANGED <<part, wireVars>>

WireMoves ==
    /\ part = "wire"
    /\ WireNext
    /\ UNCHANGED <<part, vars>>

UpstreamSpec == UpstreamInit /\ [][SelectorMoves \/ WireMoves]_<<part, vars, wireVars>>
=============================================================================
