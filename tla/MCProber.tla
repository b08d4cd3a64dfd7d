------------------------------ MODULE MCProber ------------------------------
(* Instances of Prober. *)
EXTENDS Prober, TLC
=============================================================================
