---------------------------- MODULE MCPoolCache ----------------------------
(* Small instances of PoolCache for TLC. *)
EXTENDS PoolCache, TLC

Symmetry == Permutations(Node) \cup Permutations(Writer)
=============================================================================
