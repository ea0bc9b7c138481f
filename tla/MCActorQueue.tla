---------------------------- MODULE MCActorQueue ----------------------------
(* Two characters, four calls for one of them and one for the other. *)
EXTENDS ActorQueue

CONSTANTS ada, bob, a1, a2, a3, a4, b1

MCActors == {ada, bob}
MCTasks  == {a1, a2, a3, a4, b1}
MCOf     == [t \in MCTasks |-> IF t = b1 THEN bob ELSE ada]
=============================================================================
