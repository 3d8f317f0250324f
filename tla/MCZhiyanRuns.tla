---------------------------- MODULE MCZhiyanRuns ----------------------------
(* Instances of ZhiyanRuns small enough for TLC. *)
EXTENDS ZhiyanRuns, TLC

Symmetry == Permutations(Workers) \cup Permutations(Revisions)
=============================================================================
