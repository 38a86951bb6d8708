--------------------------- MODULE MCRelaySessions ---------------------------
(* RelaySessions for TLC: one relay that may restart. *)
EXTENDS RelaySessions
=============================================================================
