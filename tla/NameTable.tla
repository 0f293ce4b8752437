----------------------------- MODULE NameTable -----------------------------
(***************************************************************************)
(* What the file operations promise about the names that survive a crash:  *)
(* a table from names to sizes on which every operation acts in one step.  *)
(***************************************************************************)
EXTENDS Integers

CONSTANTS Names, Offsets, NoFile
VARIABLE table

Init == table = [n \in Names |-> NoFile]

Create(n) == table[n] = NoFile /\ table' = [table EXCEPT ![n] = 0]

Truncate(n, off) == table[n] # NoFile /\ table' = [table EXCEPT ![n] = off]

Unlink(n) == table[n] # NoFile /\ table' = [table EXCEPT ![n] = NoFile]

Rename(n, m) ==
    /\ table[n] # NoFile /\ table[m] = NoFile
    /\ table' = [table EXCEPT ![n] = NoFile, ![m] = table[n]]

Next ==
    \/ \E n \in Names : Create(n) \/ Unlink(n)
    \/ \E n \in Names, off \in Offsets : Truncate(n, off)
    \/ \E n, m \in Names : Rename(n, m)

Spec == Init /\ [][Next]_table
=============================================================================
