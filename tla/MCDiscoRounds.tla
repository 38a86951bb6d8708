--------------------------- MODULE MCDiscoRounds ---------------------------
(* DiscoRounds for TLC: one peer, two rounds of two probes. *)
EXTENDS DiscoRounds
=============================================================================
