-------------------------- MODULE MCAnyCompletion --------------------------
(* Two operations at a time, each of any kind, on one descriptor number    *)
(* that two files have in turn.  Kinds that hold and hand over the same    *)
(* memory are one member of the set of kinds.                              *)
EXTENDS AnyCompletion, TLC

\* Nothing tells slots, tasks or slab keys apart.
Symmetry ==
  Permutations(Slots) \cup Permutations(Tasks) \cup Permutations(Tokens)
=============================================================================
