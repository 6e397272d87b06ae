---------------------------- MODULE MCResetCredits ----------------------------
(* Instances of ResetCredits for TLC. *)
EXTENDS ResetCredits, TLC

CONSTANTS a1, a2, t1, t2, n1, d1

\* Two credits of the first account, one of the second.
TwoAndOne == [c \in Credits |-> IF c < 3 THEN a1 ELSE a2]

TaskSymmetry == Permutations(Tasks)
===============================================================================
