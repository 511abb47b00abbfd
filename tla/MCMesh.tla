------------------------------- MODULE MCMesh -------------------------------
(* Two relays and an edge, so that there is a choice of upstream; edges     *)
(* have no effect on each other.  In the second instance two agents may     *)
(* exchange their roles.                                                    *)
EXTENDS Mesh

CONSTANTS r1, r2, e1

ThreeNodes == {r1, r2, e1}
TwoNodes == {r1, e1}
FixedRoles == [n \in Node |-> IF n \in {r1, r2} THEN {"relay"} ELSE {"edge"}]
AnyRoles == [n \in Node |-> RoleType]
=============================================================================
