------------------------------- MODULE MCCopy -------------------------------
(* Two peers that send a few bytes each.                                    *)
EXTENDS Copy
=============================================================================
