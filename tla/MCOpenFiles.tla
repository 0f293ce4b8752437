---------------------------- MODULE MCOpenFiles ----------------------------
(* Model values of the runs of OpenFiles. *)
EXTENDS OpenFiles, TLC

Symmetric == Permutations(Files) \cup Permutations(Handles) \cup Permutations(Threads)
=============================================================================
