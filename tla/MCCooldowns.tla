---------------------------- MODULE MCCooldowns ----------------------------
(* Instances of Cooldowns for TLC. *)
EXTENDS Cooldowns, TLC

CONSTANTS a1, a2, r1, r2

Refusal(a, d, p) == [acct |-> a, until |-> d, path |-> p]

\* Two requests meet on a1, with a longer and a shorter deadline; one of them also uses a2.
Meetings ==
    [r \in {r1, r2} |->
       IF r = r1 THEN {Refusal(a1, 2, "http"), Refusal(a2, 1, "quota")}
                 ELSE {Refusal(a1, 1, "stream")}]
=============================================================================
