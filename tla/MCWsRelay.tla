------------------------------ MODULE MCWsRelay ------------------------------
(* Instances of WsRelay for TLC. *)
EXTENDS WsRelay

CONSTANTS a1, a2, a3
=============================================================================
