--------------------------- MODULE MCHostedAccess ---------------------------
(* Small instances of HostedAccess. *)
EXTENDS HostedAccess, TLC

Symmetry ==
  UNION {Permutations(S) : S \in {Users, Invites, Requests, SessionIds}}
=============================================================================
