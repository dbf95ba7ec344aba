---------------------------- MODULE MCRetryLimit ----------------------------
(***************************************************************************)
(* Instances of RetryLimit for TLC.  Threads and PasswordRetry objects are *)
(* interchangeable.                                                        *)
(***************************************************************************)
EXTENDS RetryLimit, TLC

Symmetry == Permutations(Refs) \cup Permutations(Threads)
=============================================================================
