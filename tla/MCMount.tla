------------------------------ MODULE MCMount ------------------------------
(* Model values of the runs of Mount. *)
EXTENDS Mount, TLC

Symmetric == Permutations(Devices)
=============================================================================
