----------------------------- MODULE MCExecutor -----------------------------
(* Small instances of Executor for TLC.                                    *)
EXTENDS Executor, TLC

\* Tasks are interchangeable, and so are the remote threads.
Symmetry == Permutations(Tasks) \cup Permutations(Remotes)

=============================================================================
