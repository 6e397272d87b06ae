----------------------------- MODULE Redemption -----------------------------
(***************************************************************************)
(* What the redemption of reset credits promises, as one-shot operations:  *)
(* "Repeating the same ID replays the stored terminal result or retries    *)
(* the same pinned upstream operation; it cannot silently select a         *)
(* different account, credit" (README.md:205 of the repository).  An       *)
(* operation spends at most one credit, a credit is spent by at most one   *)
(* operation, and an outcome is final.                                     *)
(***************************************************************************)
EXTENDS Integers

CONSTANTS Ops, Credits, Codes

VARIABLES
    spent,      \* the credits each operation has spent
    outcome     \* the outcomes each operation was given

Init ==
    /\ spent = [o \in Ops |-> {}]
    /\ outcome = [o \in Ops |-> {}]

Spend ==
    /\ spent' # spent /\ UNCHANGED outcome
    /\ \E o \in Ops, c \in Credits :
        /\ spent[o] = {} /\ \A p \in Ops : c \notin spent[p]
        /\ spent' = [spent EXCEPT ![o] = {c}]

Settle ==
    /\ outcome' # outcome /\ UNCHANGED spent
    /\ \E o \in Ops, code \in Codes :
        /\ outcome[o] = {}
        /\ outcome' = [outcome EXCEPT ![o] = {code}]

Next == Spend \/ Settle

Spec == Init /\ [][Next]_<<spent, outcome>>
=============================================================================
