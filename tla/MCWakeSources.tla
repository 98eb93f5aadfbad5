--------------------------- MODULE MCWakeSources ---------------------------
(* Two sleeps on a wheel of two levels with two slots, in half             *)
(* milliseconds; a wheel of three levels with four slots: delays of 1-3,   *)
(* 4-15 and 16 or more ticks; intervals of up to five periods; two         *)
(* listeners and a pipe that one signal fills.                             *)
EXTENDS WakeSources, TLC

\* Sleeps are interchangeable when all or none of them yields; listeners and
\* their states always are.
Symmetry ==
  Permutations(Sleeps) \cup Permutations(Listeners) \cup Permutations(States)
=============================================================================
