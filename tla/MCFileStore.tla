---------------------------- MODULE MCFileStore ----------------------------
(* Instances of FileStore for TLC. *)
EXTENDS FileStore, TLC

Symmetric == Permutations(Threads) \cup Permutations(Names)
                \cup Permutations(Blocks \ {Block0})
=============================================================================
