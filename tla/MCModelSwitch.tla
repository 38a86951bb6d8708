---------------------------- MODULE MCModelSwitch ----------------------------
(* Two models, which nothing tells apart.                                   *)
EXTENDS ModelSwitch, TLC
Symmetric == Permutations(Models)
=============================================================================
