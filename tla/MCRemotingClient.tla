-------------------------- MODULE MCRemotingClient --------------------------
(* RemotingClient on small sets of model values.                           *)
EXTENDS RemotingClient

=============================================================================
