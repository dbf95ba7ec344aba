----------------------------- MODULE MCIdWorker -----------------------------
(***************************************************************************)
(* Instances of IdWorker for TLC.                                          *)
(***************************************************************************)
EXTENDS IdWorker, TLC

Symmetry == Permutations(Threads) \cup Permutations(Workers)
=============================================================================
