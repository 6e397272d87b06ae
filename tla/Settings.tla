------------------------------ MODULE Settings ------------------------------
(***************************************************************************)
(* Admission limits that are changed live (admission_api.rs,               *)
(* runtime_state.rs, config.rs): a PATCH merges its fields into a copy of  *)
(* the limits, replaces them, clamped, and then persists the fields it     *)
(* named, a row at a time; the next boot lays the rows over the            *)
(* environment's limits.                                                   *)
(*                                                                         *)
(* Of the eight limits there is one cap and the reserve clamped by it.     *)
(***************************************************************************)
EXTENDS Naturals

CONSTANTS
    Operators,  \* PATCH requests that may be under way together
    EnvCap, EnvReserve,     \* what the environment asks for
    MaxLimit,   \* bound of the values asked for
    Unset       \* no row, or a field that is not named

Fields == {"cap", "reserve"}

VARIABLES
    live,       \* RuntimeStates::admission_limits
    rows,       \* the settings rows, each a value or Unset
    pc,         \* each PATCH: idle, read, set or persist
    body,       \* the value it gives to each field, or Unset
    next,       \* its copy of the limits
    left,       \* the fields it has yet to persist
    broken      \* a PATCH has ended before its last row: its operator was told so, or is gone

vars == <<live, rows, pc, body, next, left, broken>>

Lowest(a, b) == IF a < b THEN a ELSE b

\* A cap leaves at least one slot beside the reserve; no cap leaves the reserve alone.
Clamped(limits) ==
    IF limits["cap"] > 0
    THEN [limits EXCEPT !["reserve"] = Lowest(@, limits["cap"] - 1)]
    ELSE limits

FromEnv == Clamped([f \in Fields |-> IF f = "cap" THEN EnvCap ELSE EnvReserve])

Overlaid(limits, given) == [f \in Fields |-> IF given[f] = Unset THEN limits[f] ELSE given[f]]

\* The limits of a process that starts now.
Boot == Overlaid(FromEnv, rows)

Nothing == [f \in Fields |-> Unset]

Init ==
    /\ live = FromEnv /\ rows = Nothing
    /\ pc = [o \in Operators |-> "idle"] /\ body = [o \in Operators |-> Nothing]
    /\ next = [o \in Operators |-> FromEnv] /\ left = [o \in Operators |-> {}]
    /\ broken = FALSE

\* patch_handler: the body is valid.
Patch(o) ==
    /\ pc[o] = "idle" /\ pc' = [pc EXCEPT ![o] = "read"]
    /\ \E b \in [Fields -> {Unset} \cup 0..MaxLimit] : b # Nothing /\ body' = [body EXCEPT ![o] = b]
    /\ UNCHANGED <<live, rows, next, left, broken>>

Read(o) ==
    /\ pc[o] = "read" /\ pc' = [pc EXCEPT ![o] = "set"]
    /\ next' = [next EXCEPT ![o] = Overlaid(live, body[o])]
    /\ UNCHANGED <<live, rows, body, left, broken>>

\* set_admission_limits: the whole cell, whatever others have set since the copy was made.
Set(o) ==
    /\ pc[o] = "set" /\ pc' = [pc EXCEPT ![o] = "persist"]
    /\ live' = Clamped(next[o]) /\ next' = [next EXCEPT ![o] = Clamped(@)]
    /\ left' = [left EXCEPT ![o] = {f \in Fields : body[o][f] # Unset}]
    /\ UNCHANGED <<rows, body, broken>>

\* A row for each field that was named, as it was applied.
Persist(o) ==
    /\ pc[o] = "persist"
    /\ \E f \in left[o] :
        /\ rows' = [rows EXCEPT ![f] = next[o][f]]
        /\ left' = [left EXCEPT ![o] = @ \ {f}]
    /\ pc' = [pc EXCEPT ![o] = IF left'[o] = {} THEN "idle" ELSE "persist"]
    /\ UNCHANGED <<live, body, next, broken>>

\* The database fails a row, or the client goes away; the rows written so far stay.
PersistFails(o) ==
    /\ pc[o] = "persist" /\ pc' = [pc EXCEPT ![o] = "idle"]
    /\ left' = [left EXCEPT ![o] = {}] /\ broken' = TRUE
    /\ UNCHANGED <<live, rows, body, next>>

\* The process ends at any point, and starts again.
Restart ==
    /\ live' = Boot /\ pc' = [o \in Operators |-> "idle"]
    /\ left' = [o \in Operators |-> {}] /\ broken' = FALSE
    /\ UNCHANGED <<rows, body, next>>

Next ==
    \/ \E o \in Operators : Patch(o) \/ Read(o) \/ Set(o) \/ Persist(o) \/ PersistFails(o)
    \/ Restart

Spec == Init /\ [][Next]_vars

(***************************************************************************)
(* Properties.                                                             *)
(***************************************************************************)

\* "so a restart boots with the same effective limits the operator observed" (admission_api.rs:132):
\* once every PATCH has been answered with the limits it applied, the next boot has the live ones.
RestartAsObserved ==
    (~broken /\ \A o \in Operators : pc[o] = "idle") => Boot = live
=============================================================================
