---------------------------- MODULE MCHealthProbe ----------------------------
(* Instances of HealthProbe. *)
EXTENDS HealthProbe, TLC

Symmetry == Permutations(Callback)
=============================================================================
