------------------------------- MODULE MCWire -------------------------------
(* Frames whose payload just fits, and one that does not; tags of one and   *)
(* two bytes, the second with a time that uses the extended byte.          *)
EXTENDS Wire

TwoTags == {[type |-> 8, ts |-> 5, data |-> <<9>>],
            [type |-> 9, ts |-> 2^24 + 1, data |-> <<23, 8>>]}
=============================================================================
