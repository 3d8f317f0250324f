---------------------------- MODULE MCPublication ----------------------------
(* Instances of Publication small enough for TLC. *)
EXTENDS Publication, TLC

Symmetry == Permutations(Workers)
=============================================================================
