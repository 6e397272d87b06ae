----------------------------- MODULE MCHttpTurn -----------------------------
(* Instances of HttpTurn for TLC. *)
EXTENDS HttpTurn, TLC

CONSTANTS r1, r2, a1, a2, a3, x1

RequestSymmetry == Permutations(Requests)
=============================================================================
