--------------------------- MODULE MCPathSelect ---------------------------
(* PathSelect for TLC: one peer, the smallest thresholds. *)
EXTENDS PathSelect
=============================================================================
