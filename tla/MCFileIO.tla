------------------------------ MODULE MCFileIO ------------------------------
(* Model values of the runs of FileIO. *)
EXTENDS FileIO, TLC

Symmetric ==
    Permutations(Threads) \cup Permutations(Files) \cup Permutations(Blocks \ {Block0})
=============================================================================
