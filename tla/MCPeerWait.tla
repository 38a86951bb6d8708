----------------------------- MODULE MCPeerWait -----------------------------
(* PeerWait for TLC: a flat budget, and watches whose last check falls     *)
(* before, at and after the ceiling.                                       *)
EXTENDS PeerWait

Flat == [budget |-> 2, watch |-> FALSE, ceiling |-> 0, interval |-> 1]
Watching(c, i) == [budget |-> 1, watch |-> TRUE, ceiling |-> c, interval |-> i]

AllPolicies == {Flat, Watching(2, 1), Watching(5, 1), Watching(6, 2)}
=============================================================================
