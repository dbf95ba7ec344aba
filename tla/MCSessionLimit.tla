--------------------------- MODULE MCSessionLimit ---------------------------
(***************************************************************************)
(* Instances of SessionLimit for TLC.  Threads, sessions and deques are    *)
(* interchangeable; symmetry is used only in runs without liveness.        *)
(***************************************************************************)
EXTENDS SessionLimit, TLC

Symmetry == Permutations(Threads) \cup Permutations(Sessions) \cup Permutations(Deques)
=============================================================================
