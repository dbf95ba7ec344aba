----------------------------- MODULE MCTreePath -----------------------------
(***************************************************************************)
(* Instances of TreePath for TLC.                                          *)
(***************************************************************************)
EXTENDS TreePath, TLC

Symmetry == Permutations(Threads) \cup Permutations(Nodes)

\* Bound: once a write has spoilt the paths, two departments are enough.
Bounded == spoilt => \E n \in Nodes : Known \subseteq Nodes \ {n}
=============================================================================
