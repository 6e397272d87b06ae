----------------------------- MODULE MCSettings -----------------------------
(* Instances of Settings for TLC. *)
EXTENDS Settings, TLC

CONSTANTS o1, o2
=============================================================================
