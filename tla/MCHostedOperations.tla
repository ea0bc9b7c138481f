------------------------ MODULE MCHostedOperations --------------------------
(* Small instances of HostedOperations. *)
EXTENDS HostedOperations
=============================================================================
