------------------------------ MODULE PathTree ------------------------------
(***************************************************************************)
(* What mkdir, rmdir and rename promise about the directories that survive *)
(* a crash: a prefix-closed set of paths that grows, shrinks and moves at  *)
(* its leaves, one path at a time.                                         *)
(***************************************************************************)
EXTENDS Sequences, Integers

CONSTANT Paths
VARIABLE tree

\* p is q's parent directory.
IsParent(p, q) == q # <<>> /\ p = SubSeq(q, 1, Len(q) - 1)

Init == tree = {}

Mkdir(p) ==
    /\ p \notin tree
    /\ p = <<>> \/ \E q \in tree : IsParent(q, p)
    /\ tree' = tree \cup {p}

Leaf(p) == p \in tree /\ p # <<>> /\ \A q \in tree : ~IsParent(p, q)

Rmdir(p) == Leaf(p) /\ tree' = tree \ {p}

Rename(p, q) ==
    /\ Leaf(p) /\ q \notin tree
    /\ \E r \in tree \ {p} : IsParent(r, q)
    /\ tree' = (tree \ {p}) \cup {q}

Next ==
    \/ \E p \in Paths : Mkdir(p) \/ Rmdir(p)
    \/ \E p, q \in Paths : Rename(p, q)

Spec == Init /\ [][Next]_tree
=============================================================================
