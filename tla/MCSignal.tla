------------------------------ MODULE MCSignal ------------------------------
(* Two listeners, interchangeable; a pipe that one signal fills.           *)
EXTENDS Signal, TLC

Symmetry == Permutations(Listeners) \cup Permutations(States)

=============================================================================
