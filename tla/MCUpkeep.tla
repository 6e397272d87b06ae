------------------------------ MODULE MCUpkeep ------------------------------
(* Instances of Upkeep for TLC. *)
EXTENDS Upkeep, TLC

CONSTANTS q1, r1
=============================================================================
