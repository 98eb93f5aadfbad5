------------------------- MODULE MCRuntimeObjects -------------------------
(* Two children and as many reapers as they can start; two objects that    *)
(* share descriptor numbers and slab keys; two jobs of the pool; a wrapper *)
(* whose buffer takes more than one poll to return; two peers that send a  *)
(* few bytes each.                                                         *)
EXTENDS RuntimeObjects
=============================================================================
