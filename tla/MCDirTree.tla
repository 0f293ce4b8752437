----------------------------- MODULE MCDirTree -----------------------------
(* Instances of DirTree for TLC. *)
EXTENDS DirTree, TLC

Symmetric == Permutations(Threads) \cup Permutations(Comps)
=============================================================================
