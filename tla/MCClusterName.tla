---------------------------- MODULE MCClusterName ---------------------------
(* Instances of ClusterName for TLC.                                       *)
EXTENDS ClusterName

=============================================================================
