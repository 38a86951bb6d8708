--------------------------- MODULE MCTokenRefresh ---------------------------
(* TokenRefresh for TLC: the sets of faults the runs start from. *)
EXTENDS TokenRefresh

KeptAndAll == {Remembered, Remembered \cup Forgetting}
=============================================================================
