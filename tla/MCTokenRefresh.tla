--------------------------- MODULE MCTokenRefresh ---------------------------
(* Instances of TokenRefresh for TLC. *)
EXTENDS TokenRefresh, TLC

CONSTANTS m, r, t1, t2, t3

TaskSymmetry == Permutations(Tasks)
=============================================================================
