------------------------ MODULE MCHostedMaintenance -------------------------
(* Two accounts; the numbers of requests are chosen by each run. *)
EXTENDS HostedMaintenance

CONSTANTS ann, ben

MCUsers == {ann, ben}
OneOrder == <<ann>>
=============================================================================
