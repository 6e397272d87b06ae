---------------------------- MODULE MCNetRecovery ----------------------------
(* Instances of NetRecovery for TLC. *)
EXTENDS NetRecovery, TLC

CONSTANTS t1, t2, t3

CallerSymmetry == Permutations(Callers)
=============================================================================
