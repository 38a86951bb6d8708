-------------------------- MODULE MCNodeKeyRotation --------------------------
(* NodeKeyRotation for TLC: small sets of keys as model values. *)
EXTENDS NodeKeyRotation, TLC

Sym == Permutations(Keys)
=============================================================================
