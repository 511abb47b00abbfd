---------------------------- MODULE MCAgentLink ----------------------------
(* One node; ages distinguish fresh, healthy, unhealthy and stale; the     *)
(* timeouts an admin may push include 0 (the default) and a negative one,  *)
(* which handleConfigUpdate accepts; two configurations with the right     *)
(* token, which differ in the cascade flags too, and one without.          *)
EXTENDS AgentLink

CONSTANTS n1, nothing

MCNode == {n1}
MCTimeouts == {-1, 0, 1, 2}
MCConfig == {[token |-> TRUE, at |-> 1, cascade |-> FALSE],
             [token |-> TRUE, at |-> 2, cascade |-> TRUE],
             [token |-> FALSE, at |-> 1, cascade |-> FALSE]}
=============================================================================
