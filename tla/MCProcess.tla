------------------------------ MODULE MCProcess ------------------------------
(* Two children and as many reapers as they can start.                      *)
EXTENDS Process
=============================================================================
