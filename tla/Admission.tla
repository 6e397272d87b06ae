----------------------------- MODULE Admission -----------------------------
(***************************************************************************)
(* The admission gates of `RuntimeStates` (polyflare-server,               *)
(* runtime_state.rs): in-flight leases, pressure units and WebSocket slots *)
(* per upstream account, the lanes that acquire them, the guards whose     *)
(* drop gives them back, the wait on `admission_changed`, and the live     *)
(* replacement of the limits.                                              *)
(*                                                                         *)
(* `inner` (the RwLock over the per-account map) and the limits cell are   *)
(* two different locks: a gate holds `inner` for its whole body but reads  *)
(* the limits cell afresh for every field, so an update can land between   *)
(* two reads.  A gate is therefore two steps, Lock and Decide, and Decide  *)
(* judges the request under a view of the limits that switches from the    *)
(* value at Lock to the value at Decide at an arbitrary read (`cut`).      *)
(*                                                                         *)
(* Abstracted: account snapshots are the set `eligible` of accounts that   *)
(* the selector would accept, changed from outside (health, cooldowns);    *)
(* the policy's choice among them is nondeterministic; time is the choice  *)
(* of the step TimeoutOrCancel.                                            *)
(***************************************************************************)
EXTENDS Integers, FiniteSets

CONSTANTS
    Accounts,       \* upstream accounts
    Requests,       \* callers; each makes one acquisition
    Profiles,       \* what a caller may ask for, a set of [kind, lane, acct, estimate]
    Configs,        \* limits that boot or an operator may install
    DefaultMaxUnits,\* DEFAULT_MAX_REQUEST_PRESSURE_UNITS
    MaxSets,        \* bound: updates of the limits in a behaviour
    NoAccount       \* "not chosen yet"

Kinds == {"flight", "ws"}
Lanes == {"new", "try", "pinned"}

AdmissionLimits ==
    [global_in_flight : Nat, account_in_flight : Nat,
     global_in_flight_pressure : Nat, account_in_flight_pressure : Nat,
     global_open_ws : Nat, account_open_ws : Nat,
     owner_recovery_reserve : Nat, owner_recovery_pressure_reserve : Nat]

ASSUME AdmissionConstants ==
    /\ IsFiniteSet(Requests) /\ IsFiniteSet(Accounts)
    /\ NoAccount \notin Accounts
    /\ Profiles \subseteq [kind : Kinds, lane : Lanes,
                           acct : Accounts \cup {NoAccount}, estimate : Nat]
    /\ \A p \in Profiles : p.lane = "new" <=> p.acct = NoAccount
    /\ \A p \in Profiles : p.kind = "ws" => p.lane # "try"     \* sockets have no such gate
    /\ Configs \subseteq AdmissionLimits
    /\ DefaultMaxUnits \in Nat \ {0} /\ MaxSets \in Nat

VARIABLES
    limits,     \* the limits cell
    inFlight,   \* per account: RuntimeState.in_flight
    pressure,   \* per account: RuntimeState.in_flight_pressure
    openWs,     \* per account: RuntimeState.open_ws
    inner,      \* the write lock: Free, or its holder and the limits it first read
    pc,         \* where each caller is
    req,        \* what each caller asks for, [kind, lane, acct, units]
    on,         \* the account whose guard a caller holds
    seen,       \* the accounts a refused caller would have taken
    woken,      \* callers whose registered Notified has fired
    eligible,   \* accounts the selector's eligibility pipeline accepts
    sets,       \* updates of the limits so far
    setsOwed    \* updates whose notify_waiters has not run yet

vars == <<limits, inFlight, pressure, openWs, inner, pc, req, on, seen, woken,
          eligible, sets, setsOwed>>
counters == <<inFlight, pressure, openWs>>

Monus(m, n) == IF m > n THEN m - n ELSE 0          \* saturating_sub
Least(m, n) == IF m < n THEN m ELSE n

\* The sum of a function into the naturals: the number of units it hands out, where f[x] gives x
\* the units 1..f[x].  Said as a cardinality so that what one change does to a sum can be proved.
Units(f) == UNION {{<<x, i>> : i \in 1..f[x]} : x \in DOMAIN f}
Total(f) == Cardinality(Units(f))

Free == [holder |-> "none"]
NoRequest == [kind |-> "none"]

(***************************************************************************)
(* Limits.                                                                 *)
(***************************************************************************)
\* A reserve stays below a positive cap; a cap of zero is "unlimited" and clamps nothing.
BelowCap(reserve, cap) == IF cap > 0 THEN Least(reserve, cap - 1) ELSE reserve

\* set_admission_limits clamps each reserve below its cap; the socket cap takes no part.
Clamped(next) ==
    [global_in_flight |-> next.global_in_flight,
     account_in_flight |-> next.account_in_flight,
     global_in_flight_pressure |-> next.global_in_flight_pressure,
     account_in_flight_pressure |-> next.account_in_flight_pressure,
     global_open_ws |-> next.global_open_ws,
     account_open_ws |-> next.account_open_ws,
     owner_recovery_reserve |-> BelowCap(next.owner_recovery_reserve, next.account_in_flight),
     owner_recovery_pressure_reserve |->
        BelowCap(next.owner_recovery_pressure_reserve, next.account_in_flight_pressure)]

\* request_pressure_units: the calibrated estimate, at least 1 and at most the ordinary budget.
RequestPressureUnits(L, estimate) ==
    LET ordinary == Monus(L.account_in_flight_pressure, L.owner_recovery_pressure_reserve)
        maxUnits == IF L.account_in_flight_pressure = 0 THEN DefaultMaxUnits
                    ELSE IF ordinary > 1 THEN ordinary ELSE 1
    IN  Least(IF estimate > 1 THEN estimate ELSE 1, maxUnits)

(***************************************************************************)
(* The gates.  A view V is the sequence of values a gate's successive      *)
(* reads of the cell return, V[i] the i-th.  The zero test of a cap and    *)
(* the comparison with it are one read here, and the candidates of a       *)
(* selector are judged under one view.                                     *)
(***************************************************************************)
Reads == 1..8
Views(old, new) == {[i \in Reads |-> IF i <= cut THEN old ELSE new] : cut \in 0..8}
Steady(L) == [i \in Reads |-> L]

\* Mutant: the last slot is given away twice.
UnderOrAt(cap, used) == cap = 0 \/ used <= cap

Under(cap, used) == cap = 0 \/ used < cap
Fits(cap, used, units) == cap = 0 \/ used + units <= cap

\* Mutant: a reselection forgets the account's own cap.
TryOpenGlobally(V, a, u) ==
    /\ Under(V[5].global_in_flight, Total(inFlight))
    /\ Fits(V[7].global_in_flight_pressure, Total(pressure), u)

\* try_acquire_in_flight_weighted, in its order of reads: the ordinary limits come first.
TryOpen(V, a, u) ==
    LET ordinary == Monus(V[1].account_in_flight, V[2].owner_recovery_reserve)
        ordinaryPressure == Monus(V[3].account_in_flight_pressure,
                                  V[4].owner_recovery_pressure_reserve)
    IN  /\ Under(V[5].global_in_flight, Total(inFlight))
        /\ V[6].account_in_flight = 0 \/ inFlight[a] < ordinary
        /\ Fits(V[7].global_in_flight_pressure, Total(pressure), u)
        /\ V[8].account_in_flight_pressure = 0 \/ pressure[a] + u <= ordinaryPressure

\* Mutant: new work may use the reserve.
SelectOpenToTheCap(V, a, u) ==
    /\ Under(V[1].global_in_flight, Total(inFlight))
    /\ Fits(V[2].global_in_flight_pressure, Total(pressure), u)
    /\ Under(V[3].account_in_flight, inFlight[a])
    /\ Fits(V[5].account_in_flight_pressure, pressure[a], u)

\* select_and_acquire: the global caps first, then the ordinary limits of every candidate.
SelectOpen(V, a, u) ==
    LET ordinary == Monus(V[3].account_in_flight, V[4].owner_recovery_reserve)
        ordinaryPressure == Monus(V[5].account_in_flight_pressure,
                                  V[6].owner_recovery_pressure_reserve)
    IN  /\ Under(V[1].global_in_flight, Total(inFlight))
        /\ Fits(V[2].global_in_flight_pressure, Total(pressure), u)
        /\ V[7].account_in_flight = 0 \/ inFlight[a] < ordinary
        /\ V[8].account_in_flight_pressure = 0 \/ pressure[a] + u <= ordinaryPressure

\* acquire_pinned_in_flight_weighted: the full caps, reserve included.
PinnedOpen(V, a, u) ==
    /\ Under(V[1].global_in_flight, Total(inFlight))
    /\ Under(V[2].account_in_flight, inFlight[a])
    /\ Fits(V[3].global_in_flight_pressure, Total(pressure), u)
    /\ Fits(V[4].account_in_flight_pressure, pressure[a], u)

\* select_and_acquire_open_ws: the request reserve, taken from the socket cap.
SelectWsOpen(V, a) ==
    /\ Under(V[1].global_open_ws, Total(openWs))
    /\ \/ V[4].account_open_ws = 0
       \/ openWs[a] < Monus(V[2].account_open_ws, V[3].owner_recovery_reserve)

\* acquire_pinned_open_ws
PinnedWsOpen(V, a) ==
    /\ Under(V[1].global_open_ws, Total(openWs))
    /\ Under(V[2].account_open_ws, openWs[a])

\* Whether the lane of q admits it on account a when its reads return V.
Open(V, q, a) ==
    CASE q.kind = "flight" /\ q.lane = "new"    -> SelectOpen(V, a, q.units)
      [] q.kind = "flight" /\ q.lane = "try"    -> TryOpen(V, a, q.units)
      [] q.kind = "flight" /\ q.lane = "pinned" -> PinnedOpen(V, a, q.units)
      [] q.kind = "ws" /\ q.lane = "new"        -> SelectWsOpen(V, a)
      [] OTHER                                  -> PinnedWsOpen(V, a)

\* The accounts q would take: its own, or whatever the selector accepts now.
Wanted(q) == IF q.lane = "new" THEN eligible ELSE {q.acct}

(***************************************************************************)
(* Initial states and actions.                                             *)
(***************************************************************************)
Init ==
    /\ limits \in {Clamped(L) : L \in Configs}
    /\ inFlight = [a \in Accounts |-> 0]
    /\ pressure = [a \in Accounts |-> 0]
    /\ openWs = [a \in Accounts |-> 0]
    /\ inner = Free
    /\ pc = [r \in Requests |-> "idle"]
    /\ req = [r \in Requests |-> NoRequest]
    /\ on = [r \in Requests |-> NoAccount]
    /\ seen = [r \in Requests |-> {}]
    /\ woken = {}
    /\ eligible \in SUBSET Accounts
    /\ sets = 0 /\ setsOwed = 0

\* A call arrives.  Its pressure units are computed now, from the limits of now.
Begin(r) ==
    /\ pc[r] = "idle"
    /\ \E p \in Profiles :
        /\ req' = [req EXCEPT ![r] =
                     [kind |-> p.kind, lane |-> p.lane, acct |-> p.acct,
                      units |-> RequestPressureUnits(limits, p.estimate)]]
        /\ pc' = [pc EXCEPT ![r] = IF p.lane = "try" THEN "check" ELSE "register"]
    /\ UNCHANGED <<limits, counters, inner, on, seen, woken, eligible, sets, setsOwed>>

\* Top of the wait loop: a fresh Notified is enabled before anything is checked.
Register(r) ==
    /\ pc[r] = "register"
    /\ woken' = woken \ {r}
    /\ pc' = [pc EXCEPT ![r] = IF req[r].lane = "new" THEN "probe" ELSE "check"]
    /\ UNCHANGED <<limits, counters, inner, req, on, seen, eligible, sets, setsOwed>>

\* The eligibility probe of the waiting selectors: an ineligible pool is refused at once.
Probe(r) ==
    /\ pc[r] = "probe" /\ inner = Free
    /\ pc' = [pc EXCEPT ![r] = IF eligible = {} THEN "refused" ELSE "check"]
    /\ UNCHANGED <<limits, counters, inner, req, on, seen, woken, eligible, sets, setsOwed>>

Lock(r) ==
    /\ pc[r] = "check" /\ inner = Free
    /\ inner' = [holder |-> r, first |-> limits]
    /\ pc' = [pc EXCEPT ![r] = "gate"]
    /\ UNCHANGED <<limits, counters, req, on, seen, woken, eligible, sets, setsOwed>>

Acquire(r, a) ==
    /\ IF req[r].kind = "flight"
       THEN /\ inFlight' = [inFlight EXCEPT ![a] = @ + 1]
            /\ pressure' = [pressure EXCEPT ![a] = @ + req[r].units]
            /\ UNCHANGED openWs
       ELSE /\ openWs' = [openWs EXCEPT ![a] = @ + 1]
            /\ UNCHANGED <<inFlight, pressure>>
    /\ pc' = [pc EXCEPT ![r] = "holding"]
    /\ on' = [on EXCEPT ![r] = a]
    /\ seen' = [seen EXCEPT ![r] = {}]

\* The gate admits under this view of the limits, on an account of its choice, or refuses:
\* the non-waiting lane for good, a waiting lane until it is woken.
DecideUnder(r, V) ==
    LET open == {a \in Wanted(req[r]) : Open(V, req[r], a)} IN
    \/ \E a \in open : Acquire(r, a)
    \/ /\ open = {}
       /\ pc' = [pc EXCEPT ![r] = IF req[r].lane = "try" THEN "refused" ELSE "waiting"]
       /\ seen' = [seen EXCEPT ![r] = Wanted(req[r])]
       /\ UNCHANGED <<counters, on>>

Decide(r) ==
    /\ pc[r] = "gate"
    /\ \E V \in Views(inner.first, limits) : DecideUnder(r, V)
    /\ inner' = Free
    /\ UNCHANGED <<limits, req, woken, eligible, sets, setsOwed>>

\* timeout_at(deadline, changed) returns because the notification fired.
Wake(r) ==
    /\ pc[r] = "waiting" /\ r \in woken
    /\ pc' = [pc EXCEPT ![r] = "register"]
    /\ UNCHANGED <<limits, counters, inner, req, on, seen, woken, eligible, sets, setsOwed>>

\* Mutant: the selecting waiters have no deadline.
TimeoutOrCancelPinned(r) ==
    /\ pc[r] = "waiting" /\ r \notin woken /\ req[r].lane = "pinned"
    /\ pc' = [pc EXCEPT ![r] = "refused"]
    /\ UNCHANGED <<limits, counters, inner, req, on, seen, woken, eligible, sets, setsOwed>>

\* ... or because the deadline passed first, or the caller's future is dropped.
TimeoutOrCancel(r) ==
    /\ pc[r] = "waiting" /\ r \notin woken
    /\ pc' = [pc EXCEPT ![r] = "refused"]
    /\ UNCHANGED <<limits, counters, inner, req, on, seen, woken, eligible, sets, setsOwed>>

\* Mutant: the guard gives back one unit whatever it took.
DropGuardOneUnit(r) ==
    /\ pc[r] = "holding" /\ inner = Free /\ req[r].kind = "flight"
    /\ inFlight' = [inFlight EXCEPT ![on[r]] = Monus(@, 1)]
    /\ pressure' = [pressure EXCEPT ![on[r]] = Monus(@, 1)]
    /\ pc' = [pc EXCEPT ![r] = "notify"]
    /\ UNCHANGED <<openWs, limits, inner, req, on, seen, woken, eligible, sets, setsOwed>>

\* Mutant: a freed socket notifies nobody.
DropGuardSilent(r) ==
    /\ pc[r] = "holding" /\ inner = Free /\ req[r].kind = "ws"
    /\ openWs' = [openWs EXCEPT ![on[r]] = Monus(@, 1)]
    /\ pc' = [pc EXCEPT ![r] = "done"]
    /\ UNCHANGED <<inFlight, pressure, limits, inner, req, on, seen, woken, eligible, sets, setsOwed>>

\* Drop of InFlightGuard / WsSocketGuard: the decrement, under the lock ...
DropGuard(r) ==
    /\ pc[r] = "holding" /\ inner = Free
    /\ LET a == on[r] IN
       IF req[r].kind = "flight"
       THEN /\ inFlight' = [inFlight EXCEPT ![a] = Monus(@, 1)]
            /\ pressure' = [pressure EXCEPT ![a] = Monus(@, req[r].units)]
            /\ UNCHANGED openWs
       ELSE /\ openWs' = [openWs EXCEPT ![a] = Monus(@, 1)]
            /\ UNCHANGED <<inFlight, pressure>>
    /\ pc' = [pc EXCEPT ![r] = "notify"]
    /\ UNCHANGED <<limits, inner, req, on, seen, woken, eligible, sets, setsOwed>>

\* notify_waiters: every Notified enabled before this instant fires.
Registered == {r \in Requests : /\ pc[r] \in {"probe", "check", "gate", "waiting"}
                                /\ req[r].lane # "try"}
NotifyWaiters == woken' = woken \cup Registered

\* ... and the notification, after the lock is released.
NotifyDrop(r) ==
    /\ pc[r] = "notify"
    /\ NotifyWaiters
    /\ pc' = [pc EXCEPT ![r] = "done"]
    /\ UNCHANGED <<limits, counters, inner, req, on, seen, eligible, sets, setsOwed>>

\* set_admission_limits, in two steps as well; it does not take the inner lock.
SetLimits ==
    /\ sets < MaxSets
    /\ limits' \in {Clamped(L) : L \in Configs}
    /\ sets' = sets + 1 /\ setsOwed' = setsOwed + 1
    /\ UNCHANGED <<counters, inner, pc, req, on, seen, woken, eligible>>

NotifySet ==
    /\ setsOwed > 0
    /\ NotifyWaiters
    /\ setsOwed' = setsOwed - 1
    /\ UNCHANGED <<limits, counters, inner, pc, req, on, seen, eligible, sets>>

\* Health, cooldowns and backoffs, kept elsewhere, move an account in or out of the pool.
HealthChange(a) ==
    /\ inner = Free
    /\ eligible' = IF a \in eligible THEN eligible \ {a} ELSE eligible \cup {a}
    /\ UNCHANGED <<limits, counters, inner, pc, req, on, seen, woken, sets, setsOwed>>

Step(r) == \/ Begin(r) \/ Register(r) \/ Probe(r) \/ Lock(r) \/ Decide(r)
           \/ Wake(r) \/ TimeoutOrCancel(r) \/ DropGuard(r) \/ NotifyDrop(r)

Next == \/ \E r \in Requests : Step(r)
        \/ SetLimits \/ NotifySet
        \/ \E a \in Accounts : HealthChange(a)

\* Tasks are polled, the lock is granted, deadlines pass and answers end; nothing forces a
\* call or an update.  Weak fairness is enough for the lock: each call takes it finitely often.
Fairness ==
    /\ \A r \in Requests :
        /\ WF_vars(Register(r)) /\ WF_vars(Probe(r)) /\ WF_vars(Lock(r)) /\ WF_vars(Decide(r))
        /\ WF_vars(Wake(r)) /\ WF_vars(TimeoutOrCancel(r))
        /\ WF_vars(DropGuard(r)) /\ WF_vars(NotifyDrop(r))
    /\ WF_vars(NotifySet)

Spec == Init /\ [][Next]_vars
FairSpec == Spec /\ Fairness

(***************************************************************************)
(* Properties.                                                             *)
(***************************************************************************)
PCs == {"idle", "register", "probe", "check", "gate", "waiting", "holding", "notify",
        "done", "refused"}
RequestRecords == {q \in [kind : Kinds, lane : Lanes, acct : Accounts \cup {NoAccount},
                          units : Nat] : q.kind = "ws" => q.lane # "try"}

\* Type invariant.
TypeOK ==
    /\ limits \in AdmissionLimits
    /\ inFlight \in [Accounts -> Nat]
    /\ pressure \in [Accounts -> Nat]
    /\ openWs \in [Accounts -> Nat]
    /\ inner \in {Free} \cup [holder : Requests, first : AdmissionLimits]
    /\ pc \in [Requests -> PCs]
    /\ req \in [Requests -> {NoRequest} \cup RequestRecords]
    /\ \A r \in Requests : pc[r] # "idle" =>
          /\ req[r] \in RequestRecords
          /\ req[r].lane # "new" => req[r].acct \in Accounts
    /\ on \in [Requests -> Accounts \cup {NoAccount}]
    /\ seen \in [Requests -> SUBSET Accounts]
    /\ woken \subseteq Requests
    /\ eligible \subseteq Accounts
    /\ sets \in Nat /\ setsOwed \in Nat

Holders(a, kind) ==
    {r \in Requests : pc[r] = "holding" /\ req[r].kind = kind /\ on[r] = a}

\* The pressure units of a set of callers.
UnitsHeld(callers) == Total([r \in callers |-> req[r].units])

\* The counters are exactly the live guards: no release path leaks a slot or frees one twice,
\* and no saturating subtraction ever hides a mismatch ("release on every exit path").
LeaseAccounting ==
    \A a \in Accounts :
        /\ inFlight[a] = Cardinality(Holders(a, "flight"))
        /\ openWs[a] = Cardinality(Holders(a, "ws"))

\* ... and so is the pressure sum: what a guard gives back is what it took, whatever the limits and
\* the calibration have become in between.
GuardsAccounted ==
    /\ LeaseAccounting
    /\ \A a \in Accounts :
           pressure[a] = UnitsHeld(Holders(a, "flight"))

\* No lost wakeup: a caller that waits without a pending notification could not be admitted
\* on any account it asked for, unless the notification that will wake it is still owed.
NoStrandedWaiter ==
    \A r \in Requests :
        (/\ pc[r] = "waiting" /\ r \notin woken
         /\ \E a \in seen[r] : Open(Steady(limits), req[r], a))
        => setsOwed > 0 \/ \E q \in Requests : pc[q] = "notify"

\* Two callers never both get the last slot: with the limits left alone every count and
\* pressure sum stays within its cap, per account and over the process.
CapsHold ==
    sets = 0 =>
        /\ limits.global_in_flight # 0 => Total(inFlight) <= limits.global_in_flight
        /\ limits.global_in_flight_pressure # 0
               => Total(pressure) <= limits.global_in_flight_pressure
        /\ limits.global_open_ws # 0 => Total(openWs) <= limits.global_open_ws
        /\ \A a \in Accounts :
            /\ limits.account_in_flight # 0 => inFlight[a] <= limits.account_in_flight
            /\ limits.account_in_flight_pressure # 0
                   => pressure[a] <= limits.account_in_flight_pressure
            /\ limits.account_open_ws # 0 => openWs[a] <= limits.account_open_ws

OrdinaryHolders(a, kind) == {r \in Holders(a, kind) : req[r].lane # "pinned"}

\* The recovery reserve is for owners only: new work and reselections together never hold
\* more of an account than its cap less the reserve, in slots, in pressure and in sockets.
ReserveKeptForOwners ==
    sets = 0 => \A a \in Accounts :
        /\ limits.account_in_flight # 0
               => Cardinality(OrdinaryHolders(a, "flight"))
                    <= Monus(limits.account_in_flight, limits.owner_recovery_reserve)
        /\ limits.account_in_flight_pressure # 0
               => UnitsHeld(OrdinaryHolders(a, "flight"))
                    <= Monus(limits.account_in_flight_pressure,
                             limits.owner_recovery_pressure_reserve)
        /\ limits.account_open_ws # 0
               => Cardinality(OrdinaryHolders(a, "ws"))
                    <= Monus(limits.account_open_ws, limits.owner_recovery_reserve)

\* A live update never admits anybody beyond both the old and the new cap of the account,
\* although the gate may read some fields before it and some after.
AdmittedWithinACap ==
    [][\A a \in Accounts :
        inFlight'[a] > inFlight[a] =>
            \E L \in {inner.first, limits} : Under(L.account_in_flight, inFlight[a])]_vars

\* Every caller is answered: admitted, or refused by its deadline at the latest.
EveryCallAnswered ==
    \A r \in Requests : pc[r] = "register" ~> pc[r] \in {"holding", "notify", "done", "refused"}
=============================================================================
