---------------------------- MODULE MCUringPoll ----------------------------
(* One handle of which both directions are used, and two tasks.            *)
EXTENDS UringPoll

BothDirections == [h \in Handles |-> Directions]
=============================================================================
