-------------------------- MODULE MCHealthRecheck --------------------------
(* Small instances of HealthRecheck for TLC. *)
EXTENDS HealthRecheck, TLC

Symmetry == Permutations(Handler)
=============================================================================
