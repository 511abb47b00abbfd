----------------------------- MODULE MCDispatch -----------------------------
(* What a viewer's request is answered from, its node and the stream's key. *)
(* The two share no state, so one of them moves and the other stays as it   *)
(* was in the beginning.                                                    *)
(*                                                                          *)
(* One client address and either two requests of it at a time (NAT) over    *)
(* two nodes, or one request over three, of which the outlier filter may    *)
(* leave out one.  One stream, the ticker and one manual rotation, one mode       *)
(* change at a time: enough for every overlap of a pointer read with a      *)
(* write.                                                                   *)
EXTENDS Scheduler, StreamKeys

CONSTANTS n1, n2, n3, c1, r1, r2, s1, ticker, manual, h1

ThreeNodes == {n1, n2, n3}
OneClient == {c1}
TwoRequests == {r1, r2}
OneStream == {s1}
BothRotators == {ticker, manual}
OneHandler == {h1}
Modes == {"ultra", "resilient"}

VARIABLE part

DispatchInit == part \in {"two nodes", "one request", "keys"} /\ Init /\ KeyInit

SchedulerMoves ==
    /\ part \in {"two nodes", "one request"}
    /\ Next
    /\ part = "two nodes" => view'[n3] = "absent"
    /\ part = "one request" => req'[r2] = Idle
    /\ UNCHANGED <<part, keyVars>>

KeysMove ==
    /\ part = "keys"
    /\ KeyNext
    /\ UNCHANGED <<part, vars>>

DispatchSpec ==
    /\ DispatchInit
    /\ [][SchedulerMoves \/ KeysMove]_<<part, vars, keyVars>>
    /\ KeyFairness
=============================================================================
