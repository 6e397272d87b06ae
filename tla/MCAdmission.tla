---------------------------- MODULE MCAdmission ----------------------------
(* Instances of Admission for TLC. *)
EXTENDS Admission, TLC

CONSTANTS a1, a2, r1, r2, r3

Limit(g, a, gp, ap, gw, aw, res, pres) ==
    [global_in_flight |-> g, account_in_flight |-> a,
     global_in_flight_pressure |-> gp, account_in_flight_pressure |-> ap,
     global_open_ws |-> gw, account_open_ws |-> aw,
     owner_recovery_reserve |-> res, owner_recovery_pressure_reserve |-> pres]

Ask(k, l, a, e) == [kind |-> k, lane |-> l, acct |-> a, estimate |-> e]

\* New work of one or two pressure units, a reselection on a1, owners on a1.
FlightProfiles ==
    {Ask("flight", "new", NoAccount, 1), Ask("flight", "new", NoAccount, 2),
     Ask("flight", "try", a1, 2),
     Ask("flight", "pinned", a1, 1), Ask("flight", "pinned", a1, 2)}

SocketProfiles ==
    {Ask("ws", "new", NoAccount, 0), Ask("ws", "pinned", a1, 0),
     Ask("flight", "pinned", a1, 1), Ask("flight", "try", a1, 1)}

\* Caps that three callers can reach: per-account slots, the process-wide slots, pressure.
FlightConfigs ==
    {Limit(0, 2, 0, 3, 0, 0, 1, 1), Limit(2, 0, 0, 0, 0, 0, 0, 0),
     Limit(0, 0, 3, 0, 0, 0, 0, 0)}
\* Limits an operator switches between: a cap lowered, raised, and traded for its reserve.
UpdateConfigs == {Limit(0, 1, 0, 2, 1, 1, 0, 0), Limit(0, 2, 0, 3, 2, 2, 1, 1)}
UpdateProfiles ==
    {Ask("flight", "new", NoAccount, 2), Ask("flight", "try", a1, 1),
     Ask("flight", "pinned", a1, 1), Ask("ws", "new", NoAccount, 0)}
SocketConfigs == {Limit(0, 1, 0, 0, 2, 2, 0, 0), Limit(0, 2, 0, 0, 0, 2, 1, 0)}

CapProfiles == FlightProfiles \cup SocketProfiles
CapConfigs == FlightConfigs \cup SocketConfigs

Callers == Permutations(Requests)
=============================================================================
