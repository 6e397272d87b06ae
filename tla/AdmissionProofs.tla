-------------------------- MODULE AdmissionProofs --------------------------
(***************************************************************************)
(* Theorems about Admission, for every set of accounts, callers, profiles  *)
(* and configurations.                                                     *)
(*                                                                         *)
(* Sums (the process-wide totals, the pressure of the live guards) are     *)
(* numbers of units, so that what a step does to them follows from the     *)
(* theorems about finite sets.                                             *)
(***************************************************************************)
EXTENDS Admission, FiniteSetTheorems, TLAPS

(***************************************************************************)
(* Arithmetic of the limits.                                               *)
(***************************************************************************)
\* saturating_sub and min stay in the naturals.
LEMMA ArithmeticType ==
    \A m, n \in Nat : Monus(m, n) \in Nat /\ Least(m, n) \in Nat
BY DEF Monus, Least

\* set_admission_limits installs well-formed limits, with reserves below positive caps.
LEMMA ClampedType ==
    ASSUME NEW L \in AdmissionLimits
    PROVE  Clamped(L) \in AdmissionLimits
BY DEF Clamped, AdmissionLimits, BelowCap, Least

\* request_pressure_units never returns zero and never a fraction of a unit.
LEMMA UnitsPositive ==
    ASSUME NEW L \in AdmissionLimits, NEW e \in Nat
    PROVE  RequestPressureUnits(L, e) \in Nat /\ RequestPressureUnits(L, e) > 0
<1>1. /\ L.account_in_flight_pressure \in Nat
      /\ L.owner_recovery_pressure_reserve \in Nat
  BY DEF AdmissionLimits
<1>2. DefaultMaxUnits \in Nat /\ DefaultMaxUnits > 0
  BY AdmissionConstants
<1> QED
  BY <1>1, <1>2 DEF RequestPressureUnits, Monus, Least

(***************************************************************************)
(* Sums.                                                                   *)
(***************************************************************************)
\* A unit is handed out by one of the terms.
LEMMA UnitsMembers ==
    ASSUME NEW S, NEW f \in [S -> Nat]
    PROVE  \A p : p \in Units(f) <=> \E x \in S : \E i \in 1..f[x] : p = <<x, i>>
<1>1. DOMAIN f = S
  OBVIOUS
<1> QED
  BY <1>1, Z3 DEF Units

\* The units a..b of x: as many as the interval has numbers.
Stretch(x, a, b) == {<<x, i>> : i \in a..b}

LEMMA StretchSize ==
    ASSUME NEW x, NEW a \in Nat, NEW b \in Nat, a <= b + 1
    PROVE  /\ IsFiniteSet(Stretch(x, a, b))
           /\ Cardinality(Stretch(x, a, b)) = b - a + 1
<1> DEFINE h == [i \in a..b |-> <<x, i>>]
<1>1. h \in Bijection(a..b, Stretch(x, a, b))
  BY DEF Bijection, Injection, Surjection, IsInjective, Stretch
<1>2. ExistsBijection(a..b, Stretch(x, a, b))
  BY <1>1 DEF ExistsBijection
<1>3. IsFiniteSet(a..b) /\ Cardinality(a..b) = b - a + 1
  BY FS_Interval
<1> QED
  BY <1>2, <1>3, FS_Bijection

LEMMA UnitsFinite ==
    ASSUME NEW S, IsFiniteSet(S), NEW f \in [S -> Nat]
    PROVE  IsFiniteSet(Units(f)) /\ Total(f) \in Nat
<1> DEFINE U(x) == Stretch(x, 1, f[x])
           h == [x \in S |-> U(x)]
           T == {U(x) : x \in S}
<1>1. h \in Surjection(S, T)
  <2> HIDE DEF U
  <2> QED
    BY DEF Surjection
<1>2. IsFiniteSet(T)
  BY <1>1, FS_Surjection
<1>3. ASSUME NEW x \in S PROVE IsFiniteSet(U(x))
  <2>1. f[x] \in Nat /\ 1 <= f[x] + 1
    OBVIOUS
  <2> QED
    BY <2>1, StretchSize
<1>4. \A t \in T : IsFiniteSet(t)
  BY <1>3
<1>5. Units(f) = UNION T
  <2>1. DOMAIN f = S
    OBVIOUS
  <2> QED
    BY <2>1, Zenon DEF Units, Stretch
<1>6. IsFiniteSet(Units(f))
  <2> HIDE DEF T
  <2> QED
    BY <1>2, <1>4, <1>5, FS_UNION
<1> QED
  BY <1>6, FS_CardinalityType DEF Total

\* A sum grows by what one of its terms grows by; a term that was not there counts as zero.
LEMMA TotalGrows ==
    ASSUME NEW S, IsFiniteSet(S), NEW f \in [S -> Nat], NEW x, NEW m \in Nat, NEW u \in Nat,
           m = (IF x \in S THEN f[x] ELSE 0),
           NEW g \in [S \cup {x} -> Nat], g[x] = m + u, \A y \in S \ {x} : g[y] = f[y]
    PROVE  Total(g) = Total(f) + u
<1>. PICK lo \in Nat, hi \in Nat : lo = m + 1 /\ hi = m + u
  OBVIOUS
<1> DEFINE New == Stretch(x, lo, hi)
<1>1. IsFiniteSet(Units(f)) /\ Total(f) \in Nat
  BY UnitsFinite
<1>2. IsFiniteSet(New) /\ Cardinality(New) = u
  <2>1. lo <= hi + 1 /\ hi - lo + 1 = u
    OBVIOUS
  <2> QED
    BY <2>1, StretchSize
<1>3. Units(f) \cap New = {}
  <2> SUFFICES ASSUME NEW p \in Units(f), p \in New PROVE FALSE
    OBVIOUS
  <2>1. PICK y \in S : \E i \in 1..f[y] : p = <<y, i>>
    BY UnitsMembers
  <2>2. PICK i \in 1..f[y] : p = <<y, i>>
    BY <2>1
  <2>3. PICK j \in lo..hi : p = <<x, j>>
    BY DEF Stretch
  <2> QED
    BY <2>2, <2>3
<1>4. Units(g) = Units(f) \cup New
  <2>1. \A p : p \in Units(f) <=> \E y \in S : \E i \in 1..f[y] : p = <<y, i>>
    BY UnitsMembers
  <2>2. \A p : p \in Units(g) <=> \E y \in S \cup {x} : \E i \in 1..g[y] : p = <<y, i>>
    BY UnitsMembers
  <2>3. ASSUME NEW p \in Units(g) PROVE p \in Units(f) \cup New
    <3>1. PICK y \in S \cup {x} : \E i \in 1..g[y] : p = <<y, i>>
      BY <2>2, <2>3
    <3>2. PICK i \in 1..g[y] : p = <<y, i>>
      BY <3>1
    <3>3. CASE y = x
      <4>1. i \in 1..hi
        BY <3>2, <3>3
      <4>2. CASE i > m
        BY <3>2, <3>3, <4>1, <4>2 DEF Stretch
      <4>3. CASE i <= m
        <5>1. x \in S /\ i \in 1..f[x]
          BY <4>1, <4>3
        <5> QED
          BY <2>1, <3>2, <3>3, <5>1
      <4> QED
        BY <4>1, <4>2, <4>3
    <3>4. CASE y # x
      BY <2>1, <3>2, <3>4
    <3> QED
      BY <3>3, <3>4
  <2>4. ASSUME NEW p \in Units(f) PROVE p \in Units(g)
    <3>1. PICK y \in S : \E i \in 1..f[y] : p = <<y, i>>
      BY <2>1, <2>4
    <3>2. PICK i \in 1..f[y] : p = <<y, i>>
      BY <3>1
    <3>3. i \in 1..g[y]
      BY <3>2
    <3> QED
      BY <2>2, <3>2, <3>3
  <2>5. ASSUME NEW p \in New PROVE p \in Units(g)
    <3>1. PICK i \in lo..hi : p = <<x, i>>
      BY <2>5 DEF Stretch
    <3>2. i \in 1..g[x]
      BY <3>1
    <3> QED
      BY <2>2, <3>1, <3>2
  <2> QED
    BY <2>3, <2>4, <2>5, Zenon
<1> HIDE DEF New
<1>5. Cardinality(Units(f) \cap New) = 0
  BY <1>3, FS_EmptySet
<1>6. Cardinality(Units(g)) = Cardinality(Units(f)) + Cardinality(New)
                                - Cardinality(Units(f) \cap New)
  BY <1>1, <1>2, <1>4, FS_Union
<1> QED
  BY <1>1, <1>2, <1>5, <1>6 DEF Total

\* Fewer or smaller terms make no greater sum.
LEMMA TotalMonotone ==
    ASSUME NEW S, IsFiniteSet(S), NEW g \in [S -> Nat], NEW R \in SUBSET S,
           NEW f \in [R -> Nat], \A x \in R : f[x] <= g[x]
    PROVE  Total(f) <= Total(g)
<1>1. Units(f) \subseteq Units(g)
  <2>1. \A p : p \in Units(f) <=> \E y \in R : \E i \in 1..f[y] : p = <<y, i>>
    BY UnitsMembers
  <2>2. \A p : p \in Units(g) <=> \E y \in S : \E i \in 1..g[y] : p = <<y, i>>
    BY UnitsMembers
  <2> SUFFICES ASSUME NEW p \in Units(f) PROVE p \in Units(g)
    OBVIOUS
  <2>3. PICK y \in R : \E i \in 1..f[y] : p = <<y, i>>
    BY <2>1
  <2>4. PICK i \in 1..f[y] : p = <<y, i>>
    BY <2>3
  <2>5. i \in 1..g[y]
    BY <2>4
  <2> QED
    BY <2>2, <2>4, <2>5
<1>2. IsFiniteSet(Units(g))
  BY UnitsFinite
<1> QED
  BY <1>1, <1>2, FS_Subset DEF Total

LEMMA TotalZero ==
    ASSUME NEW S, IsFiniteSet(S), NEW f \in [S -> Nat], \A x \in S : f[x] = 0
    PROVE  Total(f) = 0
<1>1. Units(f) = {}
  <2>1. \A p : p \in Units(f) <=> \E y \in S : \E i \in 1..f[y] : p = <<y, i>>
    BY UnitsMembers
  <2>2. \A y \in S : 1..f[y] = {}
    OBVIOUS
  <2> QED
    BY <2>1, <2>2
<1> QED
  BY <1>1, FS_EmptySet DEF Total
(***************************************************************************)
(* Type correctness.                                                       *)
(***************************************************************************)
LEMMA WantedType ==
    ASSUME TypeOK, NEW r \in Requests, pc[r] # "idle"
    PROVE  Wanted(req[r]) \subseteq Accounts
BY DEF TypeOK, Wanted

LEMMA TypeInit == Init => TypeOK
<1> SUFFICES ASSUME Init PROVE TypeOK
  OBVIOUS
<1>1. limits \in AdmissionLimits
  BY AdmissionConstants, ClampedType DEF Init
<1> QED
  BY <1>1 DEF Init, TypeOK, PCs

LEMMA TypeBegin ==
    ASSUME TypeOK, NEW r \in Requests, Begin(r) PROVE TypeOK'
<1>1. PICK p \in Profiles :
        /\ req' = [req EXCEPT ![r] =
                     [kind |-> p.kind, lane |-> p.lane, acct |-> p.acct,
                      units |-> RequestPressureUnits(limits, p.estimate)]]
        /\ pc' = [pc EXCEPT ![r] = IF p.lane = "try" THEN "check" ELSE "register"]
  BY DEF Begin
<1>2. /\ p.kind \in Kinds /\ p.lane \in Lanes /\ p.acct \in Accounts \cup {NoAccount}
      /\ p.estimate \in Nat /\ (p.lane # "new" => p.acct \in Accounts)
      /\ p.kind = "ws" => p.lane # "try"
  BY AdmissionConstants
<1>3. RequestPressureUnits(limits, p.estimate) \in Nat
  BY <1>2, UnitsPositive DEF TypeOK
<1> DEFINE q == [kind |-> p.kind, lane |-> p.lane, acct |-> p.acct,
                 units |-> RequestPressureUnits(limits, p.estimate)]
<1>4. q \in RequestRecords /\ (q.lane # "new" => q.acct \in Accounts)
  BY <1>2, <1>3 DEF RequestRecords
<1>5. req' = [req EXCEPT ![r] = q]
  BY <1>1
<1> HIDE DEF q
<1> QED
  BY <1>1, <1>4, <1>5 DEF TypeOK, Begin, PCs, counters

LEMMA TypeAcquire ==
    ASSUME TypeOK, NEW r \in Requests, pc[r] # "idle", NEW a \in Accounts, Acquire(r, a)
    PROVE  /\ inFlight' \in [Accounts -> Nat] /\ pressure' \in [Accounts -> Nat]
           /\ openWs' \in [Accounts -> Nat] /\ pc' \in [Requests -> PCs]
           /\ on' \in [Requests -> Accounts \cup {NoAccount}]
           /\ seen' \in [Requests -> SUBSET Accounts]
<1>1. req[r].units \in Nat
  BY DEF TypeOK, RequestRecords
<1> QED
  BY <1>1 DEF TypeOK, Acquire, PCs

LEMMA TypeDecide ==
    ASSUME TypeOK, NEW r \in Requests, Decide(r) PROVE TypeOK'
<1>1. PICK V \in Views(inner.first, limits) : DecideUnder(r, V)
  BY DEF Decide
<1>2. pc[r] = "gate" /\ inner' = Free /\ UNCHANGED <<limits, req, woken, eligible, sets, setsOwed>>
  BY DEF Decide
<1>3. Wanted(req[r]) \subseteq Accounts /\ pc[r] # "idle"
  BY <1>2, WantedType
<1>4. CASE \E a \in Wanted(req[r]) : Acquire(r, a)
  <2>1. PICK a \in Accounts : Acquire(r, a)
    BY <1>3, <1>4
  <2>2. \A q \in Requests : pc'[q] # "idle" => pc[q] # "idle"
    BY <1>3, <2>1 DEF Acquire, TypeOK
  <2> QED
    BY <1>2, <1>3, <2>1, <2>2, TypeAcquire DEF TypeOK
<1>5. CASE /\ pc' = [pc EXCEPT ![r] = IF req[r].lane = "try" THEN "refused" ELSE "waiting"]
           /\ seen' = [seen EXCEPT ![r] = Wanted(req[r])]
           /\ UNCHANGED <<counters, on>>
  BY <1>2, <1>3, <1>5 DEF TypeOK, counters, PCs
<1> QED
  BY <1>1, <1>4, <1>5 DEF DecideUnder

LEMMA TypeDropGuard ==
    ASSUME TypeOK, NEW r \in Requests, DropGuard(r) PROVE TypeOK'
<1>1. req[r].units \in Nat
  BY DEF DropGuard, TypeOK, RequestRecords
<1>2. /\ inFlight' \in [Accounts -> Nat] /\ pressure' \in [Accounts -> Nat]
      /\ openWs' \in [Accounts -> Nat]
  <2>1. CASE req[r].kind = "flight"
    BY <1>1, <2>1 DEF DropGuard, TypeOK, Monus
  <2>2. CASE req[r].kind # "flight"
    BY <2>2 DEF DropGuard, TypeOK, Monus
  <2> QED
    BY <2>1, <2>2
<1> QED
  BY <1>2 DEF DropGuard, TypeOK, PCs

LEMMA TypeNext == TypeOK /\ [Next]_vars => TypeOK'
<1> SUFFICES ASSUME TypeOK, [Next]_vars PROVE TypeOK'
  OBVIOUS
<1>1. ASSUME NEW r \in Requests, Step(r) PROVE TypeOK'
  <2>1. CASE Begin(r)
    BY <2>1, TypeBegin
  <2>2. CASE Register(r)
    BY <2>2 DEF Register, TypeOK, PCs, counters
  <2>3. CASE Probe(r)
    BY <2>3 DEF Probe, TypeOK, PCs, counters
  <2>4. CASE Lock(r)
    BY <2>4 DEF Lock, TypeOK, PCs, counters
  <2>5. CASE Decide(r)
    BY <2>5, TypeDecide
  <2>6. CASE Wake(r)
    BY <2>6 DEF Wake, TypeOK, PCs, counters
  <2>7. CASE TimeoutOrCancel(r)
    BY <2>7 DEF TimeoutOrCancel, TypeOK, PCs, counters
  <2>8. CASE DropGuard(r)
    BY <2>8, TypeDropGuard
  <2>9. CASE NotifyDrop(r)
    BY <2>9 DEF NotifyDrop, NotifyWaiters, Registered, TypeOK, PCs, counters
  <2> QED
    BY <1>1, <2>1, <2>2, <2>3, <2>4, <2>5, <2>6, <2>7, <2>8, <2>9 DEF Step
<1>2. CASE SetLimits
  <2>1. limits' \in AdmissionLimits
    BY <1>2, AdmissionConstants, ClampedType DEF SetLimits
  <2> QED
    BY <1>2, <2>1 DEF SetLimits, TypeOK, counters
<1>3. CASE NotifySet
  BY <1>3 DEF NotifySet, NotifyWaiters, Registered, TypeOK, counters
<1>4. ASSUME NEW a \in Accounts, HealthChange(a) PROVE TypeOK'
  BY <1>4 DEF HealthChange, TypeOK, counters
<1>5. CASE UNCHANGED vars
  BY <1>5 DEF vars, TypeOK
<1> QED
  BY <1>1, <1>2, <1>3, <1>4, <1>5 DEF Next

\* Every reachable state is well typed, whatever the limits and the calls.
THEOREM TypeCorrect == Spec => []TypeOK
BY TypeInit, TypeNext, PTL DEF Spec

(***************************************************************************)
(* The counters and the guards.                                            *)
(***************************************************************************)
\* A caller that starts to hold a guard on a adds one to the holders of a, and only there.
LEMMA HoldersAfterAcquire ==
    ASSUME TypeOK, NEW r \in Requests, pc[r] = "gate", NEW a \in Accounts, Acquire(r, a),
           UNCHANGED req, NEW b \in Accounts, NEW kind \in Kinds
    PROVE  Holders(b, kind)' = IF b = a /\ kind = req[r].kind
                               THEN Holders(b, kind) \cup {r} ELSE Holders(b, kind)
BY DEF TypeOK, Acquire, Holders

\* A caller that drops its guard leaves the holders of its account, and only those.
LEMMA HoldersAfterDrop ==
    ASSUME TypeOK, NEW r \in Requests, DropGuard(r), NEW b \in Accounts, NEW kind \in Kinds
    PROVE  Holders(b, kind)' = IF b = on[r] /\ kind = req[r].kind
                               THEN Holders(b, kind) \ {r} ELSE Holders(b, kind)
BY DEF TypeOK, DropGuard, Holders

\* Every other step leaves the holders alone.
LEMMA HoldersUnchanged ==
    ASSUME TypeOK, NEW r \in Requests, NEW b, NEW kind,
           pc[r] # "holding", pc'[r] # "holding",
           \A q \in Requests \ {r} : pc'[q] = pc[q] /\ req'[q] = req[q] /\ on'[q] = on[q]
    PROVE  Holders(b, kind)' = Holders(b, kind)
BY DEF Holders

LEMMA HoldersFinite ==
    ASSUME NEW b, NEW kind
    PROVE  IsFiniteSet(Holders(b, kind)) /\ Cardinality(Holders(b, kind)) \in Nat
<1>1. Holders(b, kind) \subseteq Requests
  BY DEF Holders
<1> QED
  BY <1>1, AdmissionConstants, FS_Subset, FS_CardinalityType

LEMMA AccountingInit == Init => LeaseAccounting
<1> SUFFICES ASSUME Init, NEW a \in Accounts
             PROVE  /\ inFlight[a] = Cardinality(Holders(a, "flight"))
                    /\ openWs[a] = Cardinality(Holders(a, "ws"))
  BY DEF LeaseAccounting
<1>1. Holders(a, "flight") = {} /\ Holders(a, "ws") = {}
  BY DEF Init, Holders
<1> QED
  BY <1>1, FS_EmptySet DEF Init

LEMMA AccountingAcquire ==
    ASSUME TypeOK, LeaseAccounting, NEW r \in Requests, pc[r] = "gate",
           NEW a \in Accounts, Acquire(r, a), UNCHANGED req
    PROVE  LeaseAccounting'
<1> SUFFICES ASSUME NEW b \in Accounts
             PROVE  /\ inFlight'[b] = Cardinality(Holders(b, "flight")')
                    /\ openWs'[b] = Cardinality(Holders(b, "ws")')
  BY DEF LeaseAccounting
<1>1. /\ r \notin Holders(b, "flight") /\ r \notin Holders(b, "ws")
  BY DEF Holders
<1>2. /\ Cardinality(Holders(b, "flight") \cup {r}) = inFlight[b] + 1
      /\ Cardinality(Holders(b, "ws") \cup {r}) = openWs[b] + 1
  <2>1. ASSUME NEW kind, r \notin Holders(b, kind)
        PROVE  Cardinality(Holders(b, kind) \cup {r}) = Cardinality(Holders(b, kind)) + 1
    BY <2>1, HoldersFinite, FS_AddElement
  <2> QED
    BY <1>1, <2>1 DEF LeaseAccounting
<1>3. /\ Cardinality(Holders(b, "flight")) = inFlight[b]
      /\ Cardinality(Holders(b, "ws")) = openWs[b]
  BY DEF LeaseAccounting
<1>4. req[r].kind \in Kinds
  BY DEF TypeOK, RequestRecords
<1>5. \A kind \in Kinds :
        Holders(b, kind)' = IF b = a /\ kind = req[r].kind
                            THEN Holders(b, kind) \cup {r} ELSE Holders(b, kind)
  BY HoldersAfterAcquire
<1>6. CASE req[r].kind = "flight"
  <2>1. inFlight' = [inFlight EXCEPT ![a] = @ + 1] /\ openWs' = openWs
    BY <1>6 DEF Acquire
  <2>2. inFlight'[b] = IF b = a THEN inFlight[b] + 1 ELSE inFlight[b]
    BY <2>1 DEF TypeOK
  <2>3. /\ Holders(b, "flight")' = IF b = a THEN Holders(b, "flight") \cup {r}
                                   ELSE Holders(b, "flight")
        /\ Holders(b, "ws")' = Holders(b, "ws")
    BY <1>5, <1>6 DEF Kinds
  <2> QED
    BY <1>2, <1>3, <2>1, <2>2, <2>3
<1>7. CASE req[r].kind = "ws"
  <2>1. openWs' = [openWs EXCEPT ![a] = @ + 1] /\ inFlight' = inFlight
    BY <1>7 DEF Acquire
  <2>2. openWs'[b] = IF b = a THEN openWs[b] + 1 ELSE openWs[b]
    BY <2>1 DEF TypeOK
  <2>3. /\ Holders(b, "ws")' = IF b = a THEN Holders(b, "ws") \cup {r} ELSE Holders(b, "ws")
        /\ Holders(b, "flight")' = Holders(b, "flight")
    BY <1>5, <1>7 DEF Kinds
  <2> QED
    BY <1>2, <1>3, <2>1, <2>2, <2>3
<1> QED
  BY <1>4, <1>6, <1>7 DEF Kinds

LEMMA AccountingDrop ==
    ASSUME TypeOK, LeaseAccounting, NEW r \in Requests, DropGuard(r)
    PROVE  LeaseAccounting'
<1> SUFFICES ASSUME NEW b \in Accounts
             PROVE  /\ inFlight'[b] = Cardinality(Holders(b, "flight")')
                    /\ openWs'[b] = Cardinality(Holders(b, "ws")')
  BY DEF LeaseAccounting
<1>1. /\ Cardinality(Holders(b, "flight")) = inFlight[b] /\ inFlight[b] \in Nat
      /\ Cardinality(Holders(b, "ws")) = openWs[b] /\ openWs[b] \in Nat
  BY DEF LeaseAccounting, TypeOK
<1>2. req[r].kind \in Kinds
  BY DEF TypeOK, RequestRecords, DropGuard
<1>3. \A kind \in Kinds :
        Holders(b, kind)' = IF b = on[r] /\ kind = req[r].kind
                            THEN Holders(b, kind) \ {r} ELSE Holders(b, kind)
  BY HoldersAfterDrop
<1>4. ASSUME NEW kind \in Kinds, b = on[r], kind = req[r].kind
      PROVE  /\ Cardinality(Holders(b, kind) \ {r}) = Cardinality(Holders(b, kind)) - 1
             /\ Cardinality(Holders(b, kind)) > 0
  <2>1. r \in Holders(b, kind)
    BY <1>4 DEF Holders, DropGuard
  <2> QED
    BY <2>1, HoldersFinite, FS_RemoveElement, FS_EmptySet
<1>5. CASE req[r].kind = "flight"
  <2>1. openWs' = openWs /\ inFlight' = [inFlight EXCEPT ![on[r]] = Monus(@, 1)]
    BY <1>5 DEF DropGuard
  <2>2. inFlight'[b] = IF b = on[r] THEN Monus(inFlight[b], 1) ELSE inFlight[b]
    BY <2>1 DEF TypeOK
  <2>3. /\ Holders(b, "flight")' = IF b = on[r] THEN Holders(b, "flight") \ {r}
                                   ELSE Holders(b, "flight")
        /\ Holders(b, "ws")' = Holders(b, "ws")
    BY <1>3, <1>5 DEF Kinds
  <2>4. b = on[r] => /\ Cardinality(Holders(b, "flight") \ {r}) = inFlight[b] - 1
                     /\ inFlight[b] > 0
    BY <1>1, <1>4, <1>5 DEF Kinds
  <2> QED
    <3>1. CASE b = on[r]
      <4>1. Monus(inFlight[b], 1) = inFlight[b] - 1
        BY <1>1, <2>4, <3>1 DEF Monus
      <4> QED
        BY <1>1, <2>1, <2>2, <2>3, <2>4, <3>1, <4>1
    <3>2. CASE b # on[r]
      BY <1>1, <2>1, <2>2, <2>3, <3>2
    <3> QED
      BY <3>1, <3>2
<1>6. CASE req[r].kind = "ws"
  <2>1. inFlight' = inFlight /\ openWs' = [openWs EXCEPT ![on[r]] = Monus(@, 1)]
    BY <1>6 DEF DropGuard
  <2>2. openWs'[b] = IF b = on[r] THEN Monus(openWs[b], 1) ELSE openWs[b]
    BY <2>1 DEF TypeOK
  <2>3. /\ Holders(b, "ws")' = IF b = on[r] THEN Holders(b, "ws") \ {r} ELSE Holders(b, "ws")
        /\ Holders(b, "flight")' = Holders(b, "flight")
    BY <1>3, <1>6 DEF Kinds
  <2>4. b = on[r] => /\ Cardinality(Holders(b, "ws") \ {r}) = openWs[b] - 1
                     /\ openWs[b] > 0
    BY <1>1, <1>4, <1>6 DEF Kinds
  <2> QED
    <3>1. CASE b = on[r]
      <4>1. Monus(openWs[b], 1) = openWs[b] - 1
        BY <1>1, <2>4, <3>1 DEF Monus
      <4> QED
        BY <1>1, <2>1, <2>2, <2>3, <2>4, <3>1, <4>1
    <3>2. CASE b # on[r]
      BY <1>1, <2>1, <2>2, <2>3, <3>2
    <3> QED
      BY <3>1, <3>2
<1> QED
  BY <1>2, <1>5, <1>6 DEF Kinds

\* A step of r that moves it between two states without a guard changes neither side.
LEMMA AccountingUnchanged ==
    ASSUME TypeOK, LeaseAccounting, NEW r \in Requests,
           pc[r] # "holding", pc'[r] # "holding", UNCHANGED <<inFlight, openWs>>,
           \A q \in Requests \ {r} : pc'[q] = pc[q] /\ req'[q] = req[q] /\ on'[q] = on[q]
    PROVE  LeaseAccounting'
<1>1. \A b \in Accounts, kind \in Kinds : Holders(b, kind)' = Holders(b, kind)
  BY HoldersUnchanged
<1> QED
  BY <1>1 DEF LeaseAccounting, Kinds

LEMMA AccountingStep ==
    ASSUME TypeOK, LeaseAccounting, NEW r \in Requests, Step(r) PROVE LeaseAccounting'
<1>1. CASE Decide(r)
  <2>1. PICK V \in Views(inner.first, limits) : DecideUnder(r, V)
    BY <1>1 DEF Decide
  <2>2. pc[r] = "gate" /\ UNCHANGED req
    BY <1>1 DEF Decide
  <2>3. CASE \E a \in Wanted(req[r]) : Acquire(r, a)
    BY <2>2, <2>3, WantedType, AccountingAcquire
  <2>4. CASE /\ pc' = [pc EXCEPT ![r] = IF req[r].lane = "try" THEN "refused" ELSE "waiting"]
             /\ UNCHANGED <<counters, on>>
    BY <2>2, <2>4, AccountingUnchanged DEF counters, TypeOK
  <2> QED
    BY <2>1, <2>3, <2>4 DEF DecideUnder
<1>2. CASE DropGuard(r)
  BY <1>2, AccountingDrop
<1>3. CASE Begin(r)
  BY <1>3, AccountingUnchanged DEF Begin, counters, TypeOK
<1>4. CASE Register(r)
  BY <1>4, AccountingUnchanged DEF Register, counters, TypeOK
<1>5. CASE Probe(r)
  BY <1>5, AccountingUnchanged DEF Probe, counters, TypeOK
<1>6. CASE Lock(r)
  BY <1>6, AccountingUnchanged DEF Lock, counters, TypeOK
<1>7. CASE Wake(r)
  BY <1>7, AccountingUnchanged DEF Wake, counters, TypeOK
<1>8. CASE TimeoutOrCancel(r)
  BY <1>8, AccountingUnchanged DEF TimeoutOrCancel, counters, TypeOK
<1>9. CASE NotifyDrop(r)
  BY <1>9, AccountingUnchanged DEF NotifyDrop, counters, TypeOK
<1> QED
  BY <1>1, <1>2, <1>3, <1>4, <1>5, <1>6, <1>7, <1>8, <1>9 DEF Step

LEMMA AccountingNext == TypeOK /\ LeaseAccounting /\ [Next]_vars => LeaseAccounting'
<1> SUFFICES ASSUME TypeOK, LeaseAccounting, [Next]_vars PROVE LeaseAccounting'
  OBVIOUS
<1>1. CASE \E r \in Requests : Step(r)
  BY <1>1, AccountingStep
<1>2. CASE SetLimits \/ NotifySet \/ (\E a \in Accounts : HealthChange(a)) \/ UNCHANGED vars
  <2>1. UNCHANGED <<inFlight, openWs, pc, req, on>>
    BY <1>2 DEF SetLimits, NotifySet, HealthChange, vars, counters
  <2> QED
    BY <2>1 DEF LeaseAccounting, Holders
<1> QED
  BY <1>1, <1>2 DEF Next

\* The in-flight and socket counters equal the guards alive, in every reachable state: no exit
\* path leaks a slot, and the saturating subtraction in Drop never saturates.
THEOREM CountersAreGuards == Spec => []LeaseAccounting
BY TypeCorrect, AccountingInit, AccountingNext, PTL DEF Spec

(***************************************************************************)
(* The pressure sums and the guards.                                       *)
(***************************************************************************)
PressureAccounted == \A a \in Accounts : pressure[a] = UnitsHeld(Holders(a, "flight"))

LEMMA UnitsHeldType ==
    ASSUME NEW S \in SUBSET Requests, \A q \in S : req[q].units \in Nat
    PROVE  /\ IsFiniteSet(S) /\ [q \in S |-> req[q].units] \in [S -> Nat]
           /\ UnitsHeld(S) \in Nat
<1>1. IsFiniteSet(S)
  BY AdmissionConstants, FS_Subset
<1>2. [q \in S |-> req[q].units] \in [S -> Nat]
  OBVIOUS
<1> QED
  BY <1>1, <1>2, UnitsFinite DEF UnitsHeld

LEMMA HolderUnits ==
    ASSUME TypeOK, NEW a, NEW kind
    PROVE  /\ Holders(a, kind) \in SUBSET Requests
           /\ \A q \in Holders(a, kind) : req[q].units \in Nat
BY DEF Holders, TypeOK, RequestRecords

\* One caller more holds its own units more.
LEMMA UnitsHeldGrow ==
    ASSUME NEW S \in SUBSET Requests, \A q \in S : req[q].units \in Nat,
           NEW r \in Requests, r \notin S, req[r].units \in Nat
    PROVE  UnitsHeld(S \cup {r}) = UnitsHeld(S) + req[r].units
<1> DEFINE f == [q \in S |-> req[q].units]
           g == [q \in S \cup {r} |-> req[q].units]
<1>1. IsFiniteSet(S) /\ f \in [S -> Nat]
  BY UnitsHeldType
<1>2. g \in [S \cup {r} -> Nat] /\ g[r] = 0 + req[r].units /\ \A y \in S \ {r} : g[y] = f[y]
  OBVIOUS
<1>3. 0 = (IF r \in S THEN f[r] ELSE 0) /\ 0 \in Nat
  OBVIOUS
<1>4. UnitsHeld(S) = Total(f) /\ UnitsHeld(S \cup {r}) = Total(g)
  BY DEF UnitsHeld
<1> HIDE DEF f, g
<1> QED
  BY <1>1, <1>2, <1>3, <1>4, TotalGrows

LEMMA PressureInit == Init => PressureAccounted
<1> SUFFICES ASSUME Init, NEW a \in Accounts PROVE pressure[a] = UnitsHeld(Holders(a, "flight"))
  BY DEF PressureAccounted
<1>1. Holders(a, "flight") = {}
  BY DEF Init, Holders
<1>2. [q \in {} |-> req[q].units] \in [{} -> Nat]
  OBVIOUS
<1>3. UnitsHeld({}) = 0
  BY <1>2, FS_EmptySet, TotalZero DEF UnitsHeld
<1> QED
  BY <1>1, <1>3 DEF Init

LEMMA PressureAcquire ==
    ASSUME TypeOK, PressureAccounted, NEW r \in Requests, pc[r] = "gate",
           NEW a \in Accounts, Acquire(r, a), UNCHANGED req
    PROVE  PressureAccounted'
<1> SUFFICES ASSUME NEW b \in Accounts
             PROVE  pressure'[b] = UnitsHeld(Holders(b, "flight"))'
  BY DEF PressureAccounted
<1> DEFINE S == Holders(b, "flight")
<1>1. pressure[b] = UnitsHeld(S)
  BY DEF PressureAccounted
<1>2. r \notin S /\ req[r].units \in Nat /\ req[r].kind \in Kinds
  BY DEF Holders, TypeOK, RequestRecords
<1>3. S' = IF b = a /\ req[r].kind = "flight" THEN S \cup {r} ELSE S
  BY HoldersAfterAcquire DEF Kinds
<1>4. UnitsHeld(S)' = IF b = a /\ req[r].kind = "flight" THEN UnitsHeld(S \cup {r})
                      ELSE UnitsHeld(S)
  BY <1>3 DEF UnitsHeld
<1>5. S \in SUBSET Requests /\ \A q \in S : req[q].units \in Nat
  BY HolderUnits
<1> HIDE DEF S
<1>6. UnitsHeld(S \cup {r}) = UnitsHeld(S) + req[r].units
  BY <1>2, <1>5, UnitsHeldGrow
<1>7. CASE req[r].kind = "flight"
  <2>1. pressure'[b] = IF b = a THEN pressure[b] + req[r].units ELSE pressure[b]
    BY <1>7 DEF Acquire, TypeOK
  <2> QED
    BY <1>1, <1>4, <1>6, <1>7, <2>1 DEF S
<1>8. CASE req[r].kind # "flight"
  <2>1. pressure' = pressure
    BY <1>8 DEF Acquire
  <2> QED
    BY <1>1, <1>4, <1>8, <2>1 DEF S
<1> QED
  BY <1>7, <1>8

LEMMA PressureDrop ==
    ASSUME TypeOK, PressureAccounted, NEW r \in Requests, DropGuard(r)
    PROVE  PressureAccounted'
<1> SUFFICES ASSUME NEW b \in Accounts
             PROVE  pressure'[b] = UnitsHeld(Holders(b, "flight"))'
  BY DEF PressureAccounted
<1> DEFINE S == Holders(b, "flight")
           T == S \ {r}
<1>1. pressure[b] = UnitsHeld(S)
  BY DEF PressureAccounted
<1>2. req' = req /\ req[r].units \in Nat /\ req[r].kind \in Kinds
  BY DEF DropGuard, TypeOK, RequestRecords
<1>3. S' = IF b = on[r] /\ req[r].kind = "flight" THEN T ELSE S
  BY HoldersAfterDrop DEF Kinds
<1>4. UnitsHeld(S)' = IF b = on[r] /\ req[r].kind = "flight" THEN UnitsHeld(T) ELSE UnitsHeld(S)
  BY <1>2, <1>3 DEF UnitsHeld
<1>5. S \in SUBSET Requests /\ \A q \in S : req[q].units \in Nat
  BY HolderUnits
<1>6. b = on[r] /\ req[r].kind = "flight" => S = T \cup {r}
  BY DEF Holders, DropGuard
<1> HIDE DEF S
<1>7. UnitsHeld(T \cup {r}) = UnitsHeld(T) + req[r].units
  BY <1>2, <1>5, UnitsHeldGrow
<1>8. UnitsHeld(T) \in Nat
  BY <1>5, UnitsHeldType
<1> HIDE DEF T
<1>9. CASE req[r].kind = "flight"
  <2>1. pressure'[b] = IF b = on[r] THEN Monus(pressure[b], req[r].units) ELSE pressure[b]
    BY <1>9 DEF DropGuard, TypeOK
  <2>2. CASE b = on[r]
    <3>1. pressure[b] = UnitsHeld(T) + req[r].units
      BY <1>1, <1>6, <1>7, <1>9, <2>2
    <3>2. Monus(pressure[b], req[r].units) = UnitsHeld(T)
      BY <1>2, <1>8, <3>1 DEF Monus
    <3> QED
      BY <1>4, <1>9, <2>1, <2>2, <3>2 DEF S
  <2>3. CASE b # on[r]
    BY <1>1, <1>4, <2>1, <2>3 DEF S
  <2> QED
    BY <2>2, <2>3
<1>10. CASE req[r].kind # "flight"
  <2>1. pressure' = pressure
    BY <1>10 DEF DropGuard
  <2> QED
    BY <1>1, <1>4, <1>10, <2>1 DEF S
<1> QED
  BY <1>9, <1>10

LEMMA PressureUnchanged ==
    ASSUME TypeOK, PressureAccounted, NEW r \in Requests,
           pc[r] # "holding", pc'[r] # "holding", UNCHANGED pressure,
           \A q \in Requests \ {r} : pc'[q] = pc[q] /\ req'[q] = req[q] /\ on'[q] = on[q]
    PROVE  PressureAccounted'
<1> SUFFICES ASSUME NEW b \in Accounts
             PROVE  pressure'[b] = UnitsHeld(Holders(b, "flight"))'
  BY DEF PressureAccounted
<1>1. Holders(b, "flight")' = Holders(b, "flight")
  BY HoldersUnchanged
<1>2. \A q \in Holders(b, "flight") : req'[q] = req[q]
  BY DEF Holders
<1>3. UnitsHeld(Holders(b, "flight"))' = UnitsHeld(Holders(b, "flight"))
  <2>1. [q \in Holders(b, "flight")' |-> req'[q].units]
            = [q \in Holders(b, "flight") |-> req[q].units]
    BY <1>1, <1>2
  <2> QED
    BY <2>1 DEF UnitsHeld
<1> QED
  BY <1>3 DEF PressureAccounted

LEMMA PressureStep ==
    ASSUME TypeOK, PressureAccounted, NEW r \in Requests, Step(r) PROVE PressureAccounted'
<1>1. CASE Decide(r)
  <2>1. PICK V \in Views(inner.first, limits) : DecideUnder(r, V)
    BY <1>1 DEF Decide
  <2>2. pc[r] = "gate" /\ UNCHANGED req
    BY <1>1 DEF Decide
  <2>3. CASE \E a \in Wanted(req[r]) : Acquire(r, a)
    BY <2>2, <2>3, WantedType, PressureAcquire
  <2>4. CASE /\ pc' = [pc EXCEPT ![r] = IF req[r].lane = "try" THEN "refused" ELSE "waiting"]
             /\ UNCHANGED <<counters, on>>
    BY <2>2, <2>4, PressureUnchanged DEF counters, TypeOK
  <2> QED
    BY <2>1, <2>3, <2>4 DEF DecideUnder
<1>2. CASE DropGuard(r)
  BY <1>2, PressureDrop
<1>3. CASE Begin(r)
  BY <1>3, PressureUnchanged DEF Begin, counters, TypeOK
<1>4. CASE Register(r)
  BY <1>4, PressureUnchanged DEF Register, counters, TypeOK
<1>5. CASE Probe(r)
  BY <1>5, PressureUnchanged DEF Probe, counters, TypeOK
<1>6. CASE Lock(r)
  BY <1>6, PressureUnchanged DEF Lock, counters, TypeOK
<1>7. CASE Wake(r)
  BY <1>7, PressureUnchanged DEF Wake, counters, TypeOK
<1>8. CASE TimeoutOrCancel(r)
  BY <1>8, PressureUnchanged DEF TimeoutOrCancel, counters, TypeOK
<1>9. CASE NotifyDrop(r)
  BY <1>9, PressureUnchanged DEF NotifyDrop, counters, TypeOK
<1> QED
  BY <1>1, <1>2, <1>3, <1>4, <1>5, <1>6, <1>7, <1>8, <1>9 DEF Step

LEMMA PressureNext == TypeOK /\ PressureAccounted /\ [Next]_vars => PressureAccounted'
<1> SUFFICES ASSUME TypeOK, PressureAccounted, [Next]_vars PROVE PressureAccounted'
  OBVIOUS
<1>1. CASE \E r \in Requests : Step(r)
  BY <1>1, PressureStep
<1>2. CASE SetLimits \/ NotifySet \/ (\E a \in Accounts : HealthChange(a)) \/ UNCHANGED vars
  <2>1. UNCHANGED <<pressure, pc, req, on>>
    BY <1>2 DEF SetLimits, NotifySet, HealthChange, vars, counters
  <2> QED
    BY <2>1 DEF PressureAccounted, Holders, UnitsHeld
<1> QED
  BY <1>1, <1>2 DEF Next

\* The counters and the pressure sums of every account are those of the guards alive, whatever the
\* limits and the calibration became while they were held: Drop gives back what was taken.
THEOREM GuardsAreAccounted == Spec => []GuardsAccounted
<1>1. LeaseAccounting /\ PressureAccounted => GuardsAccounted
  BY DEF GuardsAccounted, PressureAccounted
<1> QED
  BY <1>1, TypeCorrect, CountersAreGuards, PressureInit, PressureNext, PTL DEF Spec

(***************************************************************************)
(* What a gate sees.                                                       *)
(***************************************************************************)
\* Whoever is in a gate holds the lock.  It sees the limits of now, unless an update landed since it
\* took the lock; then that update has woken it or still owes its notification.
GateInv ==
    \A r \in Requests : pc[r] = "gate" =>
        /\ inner \in [holder : {r}, first : AdmissionLimits]
        /\ sets = 0 => inner.first = limits
        /\ (r \notin woken /\ req[r].lane # "try" /\ inner.first # limits) => setsOwed > 0

LEMMA GateInit == Init => GateInv
BY DEF Init, GateInv

\* Nobody is in a gate while the lock is free.
LEMMA GateNeedsLock ==
    ASSUME GateInv, inner = Free, NEW r \in Requests PROVE pc[r] # "gate"
<1>1. Free \notin [holder : {r}, first : AdmissionLimits]
  BY DEF Free
<1> QED
  BY <1>1 DEF GateInv

\* ... and nobody else while r is.
LEMMA GateIsAlone ==
    ASSUME GateInv, NEW r \in Requests, pc[r] = "gate", NEW q \in Requests, pc[q] = "gate"
    PROVE  q = r
<1>1. inner.holder = r /\ inner.holder = q
  BY DEF GateInv
<1> QED
  BY <1>1

LEMMA GateStep ==
    ASSUME TypeOK, GateInv, NEW r \in Requests, Step(r) PROVE GateInv'
<1> SUFFICES ASSUME NEW q \in Requests, pc'[q] = "gate"
             PROVE  /\ inner' \in [holder : {q}, first : AdmissionLimits]
                    /\ sets' = 0 => inner'.first = limits'
                    /\ (q \notin woken' /\ req'[q].lane # "try" /\ inner'.first # limits')
                            => setsOwed' > 0
  BY DEF GateInv
<1>1. UNCHANGED <<limits, sets, setsOwed>>
  BY DEF Step, Begin, Register, Probe, Lock, Decide, Wake, TimeoutOrCancel, DropGuard, NotifyDrop
<1>2. CASE Lock(r)
  <2>1. q = r
    BY <1>2, GateNeedsLock DEF Lock, TypeOK
  <2>2. inner' = [holder |-> r, first |-> limits] /\ limits \in AdmissionLimits
    BY <1>2 DEF Lock, TypeOK
  <2> QED
    BY <1>1, <2>1, <2>2
<1>3. CASE Decide(r)
  <2>1. pc[r] = "gate" /\ pc'[r] # "gate" /\ \A p \in Requests \ {r} : pc'[p] = pc[p]
    BY <1>3 DEF Decide, DecideUnder, Acquire, TypeOK
  <2> QED
    BY <2>1, GateIsAlone
<1>4. CASE ~Lock(r) /\ ~Decide(r)
  <2>1. /\ q # r /\ pc[q] = "gate" /\ req'[q] = req[q] /\ inner' = inner
        /\ q \notin woken' => q \notin woken
    <3>1. CASE Begin(r)
      BY <3>1 DEF Begin, TypeOK
    <3>2. CASE Register(r)
      BY <3>2 DEF Register, TypeOK
    <3>3. CASE Probe(r) \/ Wake(r) \/ TimeoutOrCancel(r)
      BY <3>3 DEF Probe, Wake, TimeoutOrCancel, TypeOK
    <3>4. CASE DropGuard(r)
      BY <3>4 DEF DropGuard, TypeOK
    <3>5. CASE NotifyDrop(r)
      BY <3>5 DEF NotifyDrop, NotifyWaiters, TypeOK
    <3> QED
      BY <1>4, <3>1, <3>2, <3>3, <3>4, <3>5 DEF Step
  <2> QED
    BY <1>1, <2>1 DEF GateInv
<1> QED
  BY <1>2, <1>3, <1>4

LEMMA GateNext == TypeOK /\ GateInv /\ [Next]_vars => GateInv'
<1> SUFFICES ASSUME TypeOK, GateInv, [Next]_vars PROVE GateInv'
  OBVIOUS
<1>1. CASE \E r \in Requests : Step(r)
  BY <1>1, GateStep
<1>2. CASE SetLimits
  BY <1>2 DEF SetLimits, GateInv, TypeOK
<1>3. CASE NotifySet
  BY <1>3 DEF NotifySet, NotifyWaiters, Registered, GateInv
<1>4. CASE (\E a \in Accounts : HealthChange(a)) \/ UNCHANGED vars
  BY <1>4 DEF HealthChange, vars, GateInv
<1> QED
  BY <1>1, <1>2, <1>3, <1>4 DEF Next

\* Each read of a gate returns the limits it found first or those of now.
LEMMA ViewReads ==
    ASSUME NEW old, NEW new, NEW V \in Views(old, new)
    PROVE  /\ \A i \in Reads : V[i] \in {old, new}
           /\ old = new => V = Steady(new)
BY DEF Views, Steady, Reads

\* A request gate admits below every cap, and ordinary work below the ordinary limits.
LEMMA FlightGate ==
    ASSUME TypeOK, NEW L \in AdmissionLimits, NEW q \in RequestRecords, q.kind = "flight",
           NEW a \in Accounts, Open(Steady(L), q, a)
    PROVE  /\ Under(L.global_in_flight, Total(inFlight))
           /\ Under(L.account_in_flight, inFlight[a])
           /\ Fits(L.global_in_flight_pressure, Total(pressure), q.units)
           /\ Fits(L.account_in_flight_pressure, pressure[a], q.units)
           /\ q.lane # "pinned" =>
                /\ \/ L.account_in_flight = 0
                   \/ inFlight[a] < Monus(L.account_in_flight, L.owner_recovery_reserve)
                /\ \/ L.account_in_flight_pressure = 0
                   \/ pressure[a] + q.units <= Monus(L.account_in_flight_pressure,
                                                     L.owner_recovery_pressure_reserve)
<1>1. \A i \in 1..8 : Steady(L)[i] = L
  BY DEF Steady, Reads
<1>2. /\ L.account_in_flight \in Nat /\ L.owner_recovery_reserve \in Nat
      /\ L.account_in_flight_pressure \in Nat /\ L.owner_recovery_pressure_reserve \in Nat
      /\ inFlight[a] \in Nat /\ pressure[a] \in Nat /\ q.units \in Nat
      /\ q.lane \in {"new", "try", "pinned"}
  BY DEF AdmissionLimits, TypeOK, RequestRecords, Lanes
<1>3. \/ q.lane = "new" /\ SelectOpen(Steady(L), a, q.units)
      \/ q.lane = "try" /\ TryOpen(Steady(L), a, q.units)
      \/ q.lane = "pinned" /\ PinnedOpen(Steady(L), a, q.units)
  BY <1>2 DEF Open
<1> HIDE DEF Steady
<1>4. CASE q.lane = "new" /\ SelectOpen(Steady(L), a, q.units)
  BY <1>1, <1>2, <1>4 DEF SelectOpen, Under, Fits, Monus
<1>5. CASE q.lane = "try" /\ TryOpen(Steady(L), a, q.units)
  BY <1>1, <1>2, <1>5 DEF TryOpen, Under, Fits, Monus
<1>6. CASE q.lane = "pinned" /\ PinnedOpen(Steady(L), a, q.units)
  BY <1>1, <1>2, <1>6 DEF PinnedOpen
<1> QED
  BY <1>3, <1>4, <1>5, <1>6

\* So does a socket gate.
LEMMA SocketGate ==
    ASSUME TypeOK, NEW L \in AdmissionLimits, NEW q \in RequestRecords, q.kind = "ws",
           NEW a \in Accounts, Open(Steady(L), q, a)
    PROVE  /\ Under(L.global_open_ws, Total(openWs))
           /\ Under(L.account_open_ws, openWs[a])
           /\ q.lane # "pinned" =>
                \/ L.account_open_ws = 0
                \/ openWs[a] < Monus(L.account_open_ws, L.owner_recovery_reserve)
<1>1. \A i \in 1..8 : Steady(L)[i] = L
  BY DEF Steady, Reads
<1>2. /\ L.account_open_ws \in Nat /\ L.owner_recovery_reserve \in Nat /\ openWs[a] \in Nat
      /\ q.lane \in {"new", "pinned"}
  BY DEF AdmissionLimits, TypeOK, RequestRecords, Lanes
<1>3. \/ q.lane = "new" /\ SelectWsOpen(Steady(L), a)
      \/ q.lane = "pinned" /\ PinnedWsOpen(Steady(L), a)
  BY <1>2 DEF Open
<1>4. CASE q.lane = "new" /\ SelectWsOpen(Steady(L), a)
  BY <1>1, <1>2, <1>4 DEF SelectWsOpen, Under, Monus
<1>5. CASE q.lane = "pinned" /\ PinnedWsOpen(Steady(L), a)
  BY <1>1, <1>2, <1>5 DEF PinnedWsOpen
<1> QED
  BY <1>3, <1>4, <1>5

(***************************************************************************)
(* The caps.                                                               *)
(***************************************************************************)
LEMMA TotalBump ==
    ASSUME NEW f \in [Accounts -> Nat], NEW a \in Accounts, NEW u \in Nat
    PROVE  Total([f EXCEPT ![a] = @ + u]) = Total(f) + u /\ Total(f) \in Nat
<1> DEFINE g == [f EXCEPT ![a] = @ + u]
<1>1. IsFiniteSet(Accounts) /\ Accounts \cup {a} = Accounts
  BY AdmissionConstants
<1>2. g \in [Accounts -> Nat] /\ g[a] = f[a] + u /\ \A b \in Accounts \ {a} : g[b] = f[b]
  OBVIOUS
<1>3. f[a] = (IF a \in Accounts THEN f[a] ELSE 0) /\ f[a] \in Nat
  OBVIOUS
<1> HIDE DEF g
<1>4. Total(g) = Total(f) + u
  BY <1>1, <1>2, <1>3, TotalGrows
<1> QED
  BY <1>1, <1>4, UnitsFinite DEF g

LEMMA TotalShrinks ==
    ASSUME NEW f \in [Accounts -> Nat], NEW g \in [Accounts -> Nat],
           \A a \in Accounts : f[a] <= g[a]
    PROVE  Total(f) <= Total(g) /\ Total(f) \in Nat /\ Total(g) \in Nat
BY AdmissionConstants, TotalMonotone, UnitsFinite

\* Dropping a guard only lowers the counters.
LEMMA DropLowers ==
    ASSUME TypeOK, NEW r \in Requests, DropGuard(r)
    PROVE  \A a \in Accounts : /\ inFlight'[a] <= inFlight[a] /\ pressure'[a] <= pressure[a]
                               /\ openWs'[a] <= openWs[a]
<1>1. req[r].units \in Nat
  BY DEF DropGuard, TypeOK, RequestRecords
<1>2. CASE req[r].kind = "flight"
  BY <1>1, <1>2 DEF DropGuard, TypeOK, Monus
<1>3. CASE req[r].kind # "flight"
  BY <1>3 DEF DropGuard, TypeOK, Monus
<1> QED
  BY <1>2, <1>3

LEMMA CapsInit == Init => CapsHold
<1> SUFFICES ASSUME Init PROVE CapsHold
  OBVIOUS
<1>1. Total(inFlight) = 0 /\ Total(pressure) = 0 /\ Total(openWs) = 0
  <2>1. \A f \in [Accounts -> Nat] : (\A a \in Accounts : f[a] = 0) => Total(f) = 0
    BY AdmissionConstants, TotalZero
  <2> QED
    BY <2>1 DEF Init
<1>2. limits \in AdmissionLimits
  BY TypeInit DEF TypeOK
<1> QED
  BY <1>1, <1>2 DEF Init, CapsHold, AdmissionLimits

\* Lower counters stay within the caps.
LEMMA CapsLower ==
    ASSUME TypeOK, TypeOK', CapsHold, UNCHANGED <<limits, sets>>,
           \A a \in Accounts : /\ inFlight'[a] <= inFlight[a] /\ pressure'[a] <= pressure[a]
                               /\ openWs'[a] <= openWs[a]
    PROVE  CapsHold'
<1>1. /\ Total(inFlight') <= Total(inFlight) /\ Total(inFlight') \in Nat /\ Total(inFlight) \in Nat
      /\ Total(pressure') <= Total(pressure) /\ Total(pressure') \in Nat /\ Total(pressure) \in Nat
      /\ Total(openWs') <= Total(openWs) /\ Total(openWs') \in Nat /\ Total(openWs) \in Nat
  BY TotalShrinks DEF TypeOK
<1> SUFFICES ASSUME sets = 0
             PROVE  (/\ limits.global_in_flight # 0 => Total(inFlight) <= limits.global_in_flight
                     /\ limits.global_in_flight_pressure # 0
                            => Total(pressure) <= limits.global_in_flight_pressure
                     /\ limits.global_open_ws # 0 => Total(openWs) <= limits.global_open_ws
                     /\ \A a \in Accounts :
                         /\ limits.account_in_flight # 0
                                => inFlight[a] <= limits.account_in_flight
                         /\ limits.account_in_flight_pressure # 0
                                => pressure[a] <= limits.account_in_flight_pressure
                         /\ limits.account_open_ws # 0
                                => openWs[a] <= limits.account_open_ws)'
  BY DEF CapsHold
<1>2. limits \in AdmissionLimits /\ limits' = limits
  BY DEF TypeOK
<1>3. \A a \in Accounts : /\ inFlight[a] \in Nat /\ inFlight'[a] \in Nat
                          /\ pressure[a] \in Nat /\ pressure'[a] \in Nat
                          /\ openWs[a] \in Nat /\ openWs'[a] \in Nat
  BY DEF TypeOK
<1> QED
  BY <1>1, <1>2, <1>3 DEF CapsHold, AdmissionLimits

\* A gate that judged under the limits of now keeps them.
LEMMA CapsAcquire ==
    ASSUME TypeOK, CapsHold, NEW r \in Requests, req[r] \in RequestRecords,
           NEW a \in Accounts, Open(Steady(limits), req[r], a), Acquire(r, a),
           UNCHANGED <<limits, sets>>
    PROVE  CapsHold'
<1> DEFINE u == req[r].units
<1>1. u \in Nat /\ req[r].kind \in {"flight", "ws"}
  BY DEF RequestRecords, Kinds
<1>2. limits \in AdmissionLimits /\ limits' = limits /\ sets' = sets
  BY DEF TypeOK
<1>3. /\ limits.global_in_flight \in Nat /\ limits.account_in_flight \in Nat
      /\ limits.global_in_flight_pressure \in Nat /\ limits.account_in_flight_pressure \in Nat
      /\ limits.global_open_ws \in Nat /\ limits.account_open_ws \in Nat
  BY <1>2 DEF AdmissionLimits
<1>4. CASE req[r].kind = "flight"
  <2>1. /\ Under(limits.global_in_flight, Total(inFlight))
        /\ Under(limits.account_in_flight, inFlight[a])
        /\ Fits(limits.global_in_flight_pressure, Total(pressure), u)
        /\ Fits(limits.account_in_flight_pressure, pressure[a], u)
    BY <1>2, <1>4, FlightGate
  <2>2. /\ inFlight' = [inFlight EXCEPT ![a] = @ + 1] /\ pressure' = [pressure EXCEPT ![a] = @ + u]
        /\ openWs' = openWs
    BY <1>4 DEF Acquire
  <2>3. /\ Total(inFlight') = Total(inFlight) + 1 /\ Total(inFlight) \in Nat
        /\ Total(pressure') = Total(pressure) + u /\ Total(pressure) \in Nat
    BY <1>1, <2>2, TotalBump DEF TypeOK
  <2>4. \A b \in Accounts : /\ inFlight'[b] = IF b = a THEN inFlight[b] + 1 ELSE inFlight[b]
                            /\ pressure'[b] = IF b = a THEN pressure[b] + u ELSE pressure[b]
                            /\ inFlight[b] \in Nat /\ pressure[b] \in Nat
    BY <2>2 DEF TypeOK
  <2> HIDE DEF u
  <2> QED
    BY <1>1, <1>2, <1>3, <2>1, <2>2, <2>3, <2>4 DEF CapsHold, Under, Fits
<1>5. CASE req[r].kind = "ws"
  <2>1. /\ Under(limits.global_open_ws, Total(openWs))
        /\ Under(limits.account_open_ws, openWs[a])
    BY <1>2, <1>5, SocketGate
  <2>2. openWs' = [openWs EXCEPT ![a] = @ + 1] /\ UNCHANGED <<inFlight, pressure>>
    BY <1>5 DEF Acquire
  <2>3. Total(openWs') = Total(openWs) + 1 /\ Total(openWs) \in Nat
    BY <2>2, TotalBump DEF TypeOK
  <2>4. \A b \in Accounts : /\ openWs'[b] = IF b = a THEN openWs[b] + 1 ELSE openWs[b]
                            /\ openWs[b] \in Nat
    BY <2>2 DEF TypeOK
  <2> QED
    BY <1>2, <1>3, <2>1, <2>2, <2>3, <2>4 DEF CapsHold, Under
<1> QED
  BY <1>1, <1>4, <1>5

\* What a decision may do: admit a caller where its gate is open, or put it off.
LEMMA DecideCases ==
    ASSUME TypeOK, GateInv, NEW r \in Requests, Decide(r)
    PROVE  /\ pc[r] = "gate" /\ req[r] \in RequestRecords /\ Wanted(req[r]) \subseteq Accounts
           /\ UNCHANGED <<limits, req, woken, eligible, sets, setsOwed>>
           /\ \E V \in Views(inner.first, limits) :
                /\ inner.first = limits => V = Steady(limits)
                /\ \/ \E a \in Wanted(req[r]) : Open(V, req[r], a) /\ Acquire(r, a)
                   \/ /\ \A a \in Wanted(req[r]) : ~Open(V, req[r], a)
                      /\ pc' = [pc EXCEPT ![r] = IF req[r].lane = "try" THEN "refused"
                                                 ELSE "waiting"]
                      /\ seen' = [seen EXCEPT ![r] = Wanted(req[r])]
                      /\ UNCHANGED <<counters, on>>
<1>1. pc[r] = "gate" /\ UNCHANGED <<limits, req, woken, eligible, sets, setsOwed>>
  BY DEF Decide
<1>2. req[r] \in RequestRecords /\ Wanted(req[r]) \subseteq Accounts
  BY <1>1, WantedType DEF TypeOK
<1>3. PICK V \in Views(inner.first, limits) : DecideUnder(r, V)
  BY DEF Decide
<1>4. inner.first = limits => V = Steady(limits)
  BY ViewReads
<1>5. \/ \E a \in Wanted(req[r]) : Open(V, req[r], a) /\ Acquire(r, a)
      \/ /\ \A a \in Wanted(req[r]) : ~Open(V, req[r], a)
         /\ pc' = [pc EXCEPT ![r] = IF req[r].lane = "try" THEN "refused" ELSE "waiting"]
         /\ seen' = [seen EXCEPT ![r] = Wanted(req[r])]
         /\ UNCHANGED <<counters, on>>
  BY <1>3, Zenon DEF DecideUnder
<1> QED
  BY <1>1, <1>2, <1>4, <1>5, Zenon

LEMMA CapsStep ==
    ASSUME TypeOK, TypeOK', GateInv, CapsHold, NEW r \in Requests, Step(r) PROVE CapsHold'
<1>1. CASE Decide(r)
  <2>1. /\ pc[r] = "gate" /\ req[r] \in RequestRecords /\ Wanted(req[r]) \subseteq Accounts
        /\ UNCHANGED <<limits, sets>>
    BY <1>1, DecideCases
  <2>2. CASE sets = 0
    <3>1. inner.first = limits
      BY <2>1, <2>2 DEF GateInv
    <3>2. \/ \E a \in Wanted(req[r]) : Open(Steady(limits), req[r], a) /\ Acquire(r, a)
          \/ UNCHANGED counters
      BY <1>1, <3>1, DecideCases
    <3>3. CASE UNCHANGED counters
      BY <2>1, <3>3, CapsLower DEF counters, TypeOK
    <3> QED
      BY <2>1, <3>2, <3>3, CapsAcquire
  <2>3. CASE sets # 0
    BY <2>1, <2>3 DEF CapsHold
  <2> QED
    BY <2>2, <2>3
<1>2. CASE DropGuard(r)
  <2>1. UNCHANGED <<limits, sets>>
    BY <1>2 DEF DropGuard
  <2> QED
    BY <1>2, <2>1, DropLowers, CapsLower
<1>3. CASE ~Decide(r) /\ ~DropGuard(r)
  <2>1. UNCHANGED <<limits, sets, inFlight, pressure, openWs>>
    BY <1>3 DEF Step, Begin, Register, Probe, Lock, Wake, TimeoutOrCancel, NotifyDrop, counters
  <2> QED
    BY <2>1 DEF CapsHold
<1> QED
  BY <1>1, <1>2, <1>3

LEMMA CapsNext == TypeOK /\ TypeOK' /\ GateInv /\ CapsHold /\ [Next]_vars => CapsHold'
<1> SUFFICES ASSUME TypeOK, TypeOK', GateInv, CapsHold, [Next]_vars PROVE CapsHold'
  OBVIOUS
<1>1. CASE \E r \in Requests : Step(r)
  BY <1>1, CapsStep
<1>2. CASE SetLimits
  BY <1>2 DEF SetLimits, CapsHold, TypeOK
<1>3. CASE NotifySet \/ (\E a \in Accounts : HealthChange(a)) \/ UNCHANGED vars
  <2>1. UNCHANGED <<limits, sets, inFlight, pressure, openWs>>
    BY <1>3 DEF NotifySet, HealthChange, vars, counters
  <2> QED
    BY <2>1 DEF CapsHold
<1> QED
  BY <1>1, <1>2, <1>3 DEF Next

\* The gates keep every cap while the limits stand: no interleaving of callers of any lane takes a
\* slot, a unit or a socket too many, on an account or over the process.
THEOREM CapsAreKept == Spec => []CapsHold
BY TypeCorrect, GateInit, GateNext, CapsInit, CapsNext, PTL DEF Spec

(***************************************************************************)
(* The owners' reserve.                                                    *)
(***************************************************************************)
\* What ordinary work may hold of account a under the limits L.
WithinOrdinary(L, a) ==
    /\ L.account_in_flight # 0
           => Cardinality(OrdinaryHolders(a, "flight"))
                <= Monus(L.account_in_flight, L.owner_recovery_reserve)
    /\ L.account_in_flight_pressure # 0
           => UnitsHeld(OrdinaryHolders(a, "flight"))
                <= Monus(L.account_in_flight_pressure, L.owner_recovery_pressure_reserve)
    /\ L.account_open_ws # 0
           => Cardinality(OrdinaryHolders(a, "ws"))
                <= Monus(L.account_open_ws, L.owner_recovery_reserve)

LEMMA ReserveIsOrdinary ==
    ReserveKeptForOwners <=> (sets = 0 => \A a \in Accounts : WithinOrdinary(limits, a))
BY DEF ReserveKeptForOwners, WithinOrdinary

LEMMA OrdinaryInit == Init => ReserveKeptForOwners
<1> SUFFICES ASSUME Init, NEW a \in Accounts PROVE WithinOrdinary(limits, a)
  BY ReserveIsOrdinary
<1>1. OrdinaryHolders(a, "flight") = {} /\ OrdinaryHolders(a, "ws") = {}
  BY DEF Init, OrdinaryHolders, Holders
<1>2. UnitsHeld({}) = 0
  <2>1. [q \in {} |-> req[q].units] \in [{} -> Nat]
    OBVIOUS
  <2> QED
    BY <2>1, FS_EmptySet, TotalZero DEF UnitsHeld
<1>3. /\ limits.account_in_flight \in Nat /\ limits.owner_recovery_reserve \in Nat
      /\ limits.account_in_flight_pressure \in Nat
      /\ limits.owner_recovery_pressure_reserve \in Nat /\ limits.account_open_ws \in Nat
  BY TypeInit DEF TypeOK, AdmissionLimits
<1> QED
  BY <1>1, <1>2, <1>3, FS_EmptySet DEF WithinOrdinary, Monus

\* The ordinary holders of an account are some of its holders.
LEMMA OrdinaryIsPart ==
    ASSUME TypeOK, LeaseAccounting, PressureAccounted, NEW a \in Accounts
    PROVE  /\ Cardinality(OrdinaryHolders(a, "flight")) <= inFlight[a]
           /\ Cardinality(OrdinaryHolders(a, "ws")) <= openWs[a]
           /\ UnitsHeld(OrdinaryHolders(a, "flight")) <= pressure[a]
           /\ Cardinality(OrdinaryHolders(a, "flight")) \in Nat
           /\ Cardinality(OrdinaryHolders(a, "ws")) \in Nat
           /\ UnitsHeld(OrdinaryHolders(a, "flight")) \in Nat
<1>1. ASSUME NEW kind
      PROVE  /\ Cardinality(OrdinaryHolders(a, kind)) <= Cardinality(Holders(a, kind))
             /\ Cardinality(OrdinaryHolders(a, kind)) \in Nat
             /\ IsFiniteSet(Holders(a, kind))
  <2>1. OrdinaryHolders(a, kind) \in SUBSET Holders(a, kind)
    BY DEF OrdinaryHolders
  <2> QED
    BY <2>1, HoldersFinite, FS_Subset, FS_CardinalityType
<1> DEFINE S == Holders(a, "flight")
           T == OrdinaryHolders(a, "flight")
           f == [q \in T |-> req[q].units]
           g == [q \in S |-> req[q].units]
<1>2. T \in SUBSET S /\ S \in SUBSET Requests /\ \A q \in S : req[q].units \in Nat
  BY HolderUnits DEF OrdinaryHolders
<1>3. f \in [T -> Nat] /\ g \in [S -> Nat] /\ \A q \in T : f[q] <= g[q]
  BY <1>2
<1>4. UnitsHeld(S) = Total(g) /\ UnitsHeld(T) = Total(f) /\ IsFiniteSet(S)
  BY <1>1 DEF UnitsHeld
<1>5. UnitsHeld(T) \in Nat
  BY <1>2, UnitsHeldType
<1> HIDE DEF f, g, S, T
<1>6. UnitsHeld(T) <= UnitsHeld(S)
  BY <1>2, <1>3, <1>4, TotalMonotone
<1> QED
  BY <1>1, <1>5, <1>6 DEF LeaseAccounting, PressureAccounted, S, T

\* A caller that acquires joins the ordinary holders of its account, if it is no owner.
LEMMA OrdinaryAfterAcquire ==
    ASSUME TypeOK, NEW r \in Requests, pc[r] = "gate", NEW a \in Accounts, Acquire(r, a),
           UNCHANGED req, NEW b \in Accounts, NEW kind \in Kinds
    PROVE  /\ r \notin OrdinaryHolders(b, kind)
           /\ OrdinaryHolders(b, kind)'
                = IF b = a /\ kind = req[r].kind /\ req[r].lane # "pinned"
                  THEN OrdinaryHolders(b, kind) \cup {r} ELSE OrdinaryHolders(b, kind)
<1>1. Holders(b, kind)' = IF b = a /\ kind = req[r].kind
                          THEN Holders(b, kind) \cup {r} ELSE Holders(b, kind)
  BY HoldersAfterAcquire
<1>2. r \notin Holders(b, kind)
  BY DEF Holders
<1> QED
  BY <1>1, <1>2 DEF OrdinaryHolders

\* The limits admit ordinary work up to the reserve only.
LEMMA OrdinaryAcquire ==
    ASSUME TypeOK, LeaseAccounting, PressureAccounted, NEW r \in Requests, pc[r] = "gate",
           NEW a \in Accounts, Open(Steady(limits), req[r], a), Acquire(r, a),
           UNCHANGED <<limits, req>>, NEW b \in Accounts, WithinOrdinary(limits, b)
    PROVE  WithinOrdinary(limits, b)'
<1> DEFINE u == req[r].units
           F == OrdinaryHolders(b, "flight")
           W == OrdinaryHolders(b, "ws")
<1>1. req[r] \in RequestRecords /\ limits \in AdmissionLimits
  BY DEF TypeOK
<1>2. u \in Nat /\ req[r].kind \in {"flight", "ws"}
  BY <1>1 DEF RequestRecords, Kinds
<1>3. /\ limits.account_in_flight \in Nat /\ limits.owner_recovery_reserve \in Nat
      /\ limits.account_in_flight_pressure \in Nat
      /\ limits.owner_recovery_pressure_reserve \in Nat /\ limits.account_open_ws \in Nat
  BY <1>1 DEF AdmissionLimits
<1>4. /\ r \notin F /\ r \notin W
      /\ F' = IF b = a /\ req[r].kind = "flight" /\ req[r].lane # "pinned"
              THEN F \cup {r} ELSE F
      /\ W' = IF b = a /\ req[r].kind = "ws" /\ req[r].lane # "pinned"
              THEN W \cup {r} ELSE W
  BY OrdinaryAfterAcquire DEF Kinds
<1>5. /\ Cardinality(F) <= inFlight[b] /\ Cardinality(W) <= openWs[b] /\ UnitsHeld(F) <= pressure[b]
      /\ Cardinality(F) \in Nat /\ Cardinality(W) \in Nat /\ UnitsHeld(F) \in Nat
  BY OrdinaryIsPart
<1>6. /\ F \in SUBSET Requests /\ W \in SUBSET Requests /\ \A q \in F : req[q].units \in Nat
      /\ IsFiniteSet(F) /\ IsFiniteSet(W)
  <2>1. F \in SUBSET Requests /\ W \in SUBSET Requests /\ \A q \in F : req[q].units \in Nat
    BY HolderUnits DEF OrdinaryHolders
  <2> QED
    BY <2>1, AdmissionConstants, FS_Subset
<1>7. inFlight[b] \in Nat /\ openWs[b] \in Nat /\ pressure[b] \in Nat
  BY DEF TypeOK
<1>8. UnitsHeld(F)' = IF b = a /\ req[r].kind = "flight" /\ req[r].lane # "pinned"
                      THEN UnitsHeld(F \cup {r}) ELSE UnitsHeld(F)
  BY <1>4 DEF UnitsHeld
<1>9. /\ Cardinality(F)' = Cardinality(F') /\ Cardinality(W)' = Cardinality(W')
  OBVIOUS
<1> SUFFICES /\ limits.account_in_flight # 0
                   => Cardinality(F') <= Monus(limits.account_in_flight,
                                               limits.owner_recovery_reserve)
             /\ limits.account_in_flight_pressure # 0
                   => UnitsHeld(F)' <= Monus(limits.account_in_flight_pressure,
                                             limits.owner_recovery_pressure_reserve)
             /\ limits.account_open_ws # 0
                   => Cardinality(W') <= Monus(limits.account_open_ws,
                                               limits.owner_recovery_reserve)
  BY <1>9 DEF WithinOrdinary
<1>10. /\ limits.account_in_flight # 0
              => Cardinality(F) <= Monus(limits.account_in_flight, limits.owner_recovery_reserve)
       /\ limits.account_in_flight_pressure # 0
              => UnitsHeld(F) <= Monus(limits.account_in_flight_pressure,
                                       limits.owner_recovery_pressure_reserve)
       /\ limits.account_open_ws # 0
              => Cardinality(W) <= Monus(limits.account_open_ws, limits.owner_recovery_reserve)
  BY DEF WithinOrdinary
<1> HIDE DEF F, W, u
<1>11. CASE b = a /\ req[r].kind = "flight" /\ req[r].lane # "pinned"
  <2>1. /\ \/ limits.account_in_flight = 0
           \/ inFlight[b] < Monus(limits.account_in_flight, limits.owner_recovery_reserve)
        /\ \/ limits.account_in_flight_pressure = 0
           \/ pressure[b] + u <= Monus(limits.account_in_flight_pressure,
                                       limits.owner_recovery_pressure_reserve)
    BY <1>1, <1>11, FlightGate DEF u
  <2>2. Cardinality(F') = Cardinality(F) + 1 /\ W' = W
    BY <1>4, <1>6, <1>11, FS_AddElement
  <2>3. UnitsHeld(F)' = UnitsHeld(F) + u
    BY <1>2, <1>4, <1>6, <1>8, <1>11, UnitsHeldGrow DEF u
  <2> QED
    BY <1>2, <1>3, <1>5, <1>7, <1>10, <2>1, <2>2, <2>3 DEF Monus
<1>12. CASE b = a /\ req[r].kind = "ws" /\ req[r].lane # "pinned"
  <2>1. \/ limits.account_open_ws = 0
        \/ openWs[b] < Monus(limits.account_open_ws, limits.owner_recovery_reserve)
    BY <1>1, <1>12, SocketGate
  <2>2. Cardinality(W') = Cardinality(W) + 1 /\ F' = F /\ UnitsHeld(F)' = UnitsHeld(F)
    BY <1>4, <1>6, <1>8, <1>12, FS_AddElement
  <2> QED
    BY <1>3, <1>5, <1>7, <1>10, <2>1, <2>2 DEF Monus
<1>13. CASE ~(b = a /\ req[r].lane # "pinned")
  BY <1>4, <1>8, <1>10, <1>13
<1> QED
  BY <1>2, <1>11, <1>12, <1>13

\* Fewer ordinary holders stay within what ordinary work may hold.
LEMMA OrdinaryFewer ==
    ASSUME TypeOK, LeaseAccounting, PressureAccounted, NEW b \in Accounts,
           WithinOrdinary(limits, b), UNCHANGED limits,
           \A kind \in Kinds : OrdinaryHolders(b, kind)' \subseteq OrdinaryHolders(b, kind),
           \A q \in OrdinaryHolders(b, "flight")' : req'[q] = req[q]
    PROVE  WithinOrdinary(limits, b)'
<1> DEFINE F == OrdinaryHolders(b, "flight")
           W == OrdinaryHolders(b, "ws")
           f == [q \in F' |-> req[q].units]
           g == [q \in F |-> req[q].units]
<1>1. F' \in SUBSET F /\ W' \in SUBSET W
  BY DEF Kinds
<1>2. /\ F \in SUBSET Requests /\ W \in SUBSET Requests /\ \A q \in F : req[q].units \in Nat
      /\ IsFiniteSet(F) /\ IsFiniteSet(W)
  <2>1. F \in SUBSET Requests /\ W \in SUBSET Requests /\ \A q \in F : req[q].units \in Nat
    BY HolderUnits DEF OrdinaryHolders
  <2> QED
    BY <2>1, AdmissionConstants, FS_Subset
<1>3. /\ Cardinality(F') <= Cardinality(F) /\ Cardinality(F') \in Nat /\ Cardinality(F) \in Nat
      /\ Cardinality(W') <= Cardinality(W) /\ Cardinality(W') \in Nat /\ Cardinality(W) \in Nat
  BY <1>1, <1>2, FS_Subset, FS_CardinalityType
<1>4. /\ f \in [F' -> Nat] /\ g \in [F -> Nat] /\ \A q \in F' : f[q] <= g[q]
  BY <1>1, <1>2
<1>5. Total(f) <= Total(g) /\ Total(f) \in Nat /\ Total(g) \in Nat
  <2>1. IsFiniteSet(F')
    BY <1>1, <1>2, FS_Subset
  <2> HIDE DEF F, f, g
  <2> QED
    BY <1>1, <1>2, <1>4, <2>1, TotalMonotone, UnitsFinite
<1>6. UnitsHeld(F) = Total(g)
  BY DEF UnitsHeld
<1>7. UnitsHeld(F)' = Total(f)
  <2>1. [q \in F' |-> req'[q].units] = f
    OBVIOUS
  <2> QED
    BY <2>1 DEF UnitsHeld
<1>8. /\ limits.account_in_flight \in Nat /\ limits.owner_recovery_reserve \in Nat
      /\ limits.account_in_flight_pressure \in Nat
      /\ limits.owner_recovery_pressure_reserve \in Nat /\ limits.account_open_ws \in Nat
  BY DEF TypeOK, AdmissionLimits
<1>9. /\ limits.account_in_flight # 0
             => Cardinality(F) <= Monus(limits.account_in_flight, limits.owner_recovery_reserve)
      /\ limits.account_in_flight_pressure # 0
             => UnitsHeld(F) <= Monus(limits.account_in_flight_pressure,
                                      limits.owner_recovery_pressure_reserve)
      /\ limits.account_open_ws # 0
             => Cardinality(W) <= Monus(limits.account_open_ws, limits.owner_recovery_reserve)
  BY DEF WithinOrdinary
<1> SUFFICES /\ limits.account_in_flight # 0
                   => Cardinality(F') <= Monus(limits.account_in_flight,
                                               limits.owner_recovery_reserve)
             /\ limits.account_in_flight_pressure # 0
                   => UnitsHeld(F)' <= Monus(limits.account_in_flight_pressure,
                                             limits.owner_recovery_pressure_reserve)
             /\ limits.account_open_ws # 0
                   => Cardinality(W') <= Monus(limits.account_open_ws,
                                               limits.owner_recovery_reserve)
  BY DEF WithinOrdinary
<1> HIDE DEF F, W, f, g
<1> QED
  BY <1>3, <1>5, <1>6, <1>7, <1>8, <1>9 DEF Monus

LEMMA OrdinaryStep ==
    ASSUME TypeOK, GateInv, LeaseAccounting, PressureAccounted, sets = 0,
           NEW r \in Requests, Step(r), NEW b \in Accounts, WithinOrdinary(limits, b)
    PROVE  WithinOrdinary(limits, b)'
<1>1. CASE \E a \in Accounts : Decide(r) /\ Open(Steady(limits), req[r], a) /\ Acquire(r, a)
  <2>1. pc[r] = "gate" /\ UNCHANGED <<limits, req>>
    BY <1>1 DEF Decide
  <2> QED
    BY <1>1, <2>1, OrdinaryAcquire
<1>2. CASE /\ UNCHANGED limits
           /\ pc[r] # "idle" => req'[r] = req[r]
           /\ pc'[r] # "holding" \/ pc[r] = "holding"
           /\ \A q \in Requests \ {r} : pc'[q] = pc[q] /\ req'[q] = req[q]
           /\ on' = on
  <2>1. \A kind \in Kinds : OrdinaryHolders(b, kind)' \subseteq OrdinaryHolders(b, kind)
    BY <1>2 DEF OrdinaryHolders, Holders
  <2>2. \A q \in OrdinaryHolders(b, "flight")' : req'[q] = req[q]
    BY <1>2 DEF OrdinaryHolders, Holders
  <2> QED
    BY <1>2, <2>1, <2>2, OrdinaryFewer
<1>3. CASE Decide(r)
  <2>1. pc[r] = "gate" /\ Wanted(req[r]) \subseteq Accounts /\ UNCHANGED <<limits, req>>
    BY <1>3, DecideCases
  <2>2. inner.first = limits
    BY <2>1 DEF GateInv
  <2>3. \/ \E a \in Wanted(req[r]) : Open(Steady(limits), req[r], a) /\ Acquire(r, a)
        \/ /\ pc' = [pc EXCEPT ![r] = IF req[r].lane = "try" THEN "refused" ELSE "waiting"]
           /\ on' = on
    BY <1>3, <2>2, DecideCases
  <2> QED
    BY <1>1, <1>2, <1>3, <2>1, <2>3 DEF TypeOK
<1>4. CASE Begin(r)
  BY <1>2, <1>4 DEF Begin, TypeOK
<1>5. CASE Register(r) \/ Probe(r) \/ Lock(r) \/ Wake(r) \/ TimeoutOrCancel(r)
  BY <1>2, <1>5 DEF Register, Probe, Lock, Wake, TimeoutOrCancel, TypeOK
<1>6. CASE DropGuard(r) \/ NotifyDrop(r)
  BY <1>2, <1>6 DEF DropGuard, NotifyDrop, TypeOK
<1> QED
  BY <1>3, <1>4, <1>5, <1>6 DEF Step

LEMMA OrdinaryNext ==
    /\ TypeOK /\ GateInv /\ LeaseAccounting /\ PressureAccounted
    /\ ReserveKeptForOwners /\ [Next]_vars
    => ReserveKeptForOwners'
<1> SUFFICES ASSUME TypeOK, GateInv, LeaseAccounting, PressureAccounted,
                    ReserveKeptForOwners, [Next]_vars, sets' = 0, NEW b \in Accounts
             PROVE  WithinOrdinary(limits, b)'
  BY DEF ReserveKeptForOwners, WithinOrdinary
<1>1. sets = 0
  BY DEF Next, Step, Begin, Register, Probe, Lock, Decide, Wake, TimeoutOrCancel, DropGuard,
         NotifyDrop, SetLimits, NotifySet, HealthChange, vars, TypeOK
<1>2. WithinOrdinary(limits, b)
  BY <1>1, ReserveIsOrdinary
<1>3. CASE \E r \in Requests : Step(r)
  BY <1>1, <1>2, <1>3, OrdinaryStep
<1>4. CASE SetLimits
  BY <1>1, <1>4 DEF SetLimits
<1>5. CASE NotifySet \/ (\E a \in Accounts : HealthChange(a)) \/ UNCHANGED vars
  <2>1. UNCHANGED <<limits, pc, req, on>>
    BY <1>5 DEF NotifySet, HealthChange, vars
  <2> QED
    BY <1>2, <2>1 DEF WithinOrdinary, OrdinaryHolders, Holders, UnitsHeld
<1> QED
  BY <1>3, <1>4, <1>5 DEF Next

\* While the limits stand, new work and reselections never reach into what is set aside for the
\* recovery of owners: neither slots, nor pressure, nor sockets.
THEOREM ReserveIsKept == Spec => []ReserveKeptForOwners
BY TypeCorrect, GateInit, GateNext, CountersAreGuards, PressureInit, PressureNext,
   OrdinaryInit, OrdinaryNext, PTL DEF Spec

(***************************************************************************)
(* No lost wakeup.                                                         *)
(***************************************************************************)
\* Only lanes that wait ever wait.
WaitersHeard == \A r \in Requests : pc[r] = "waiting" => req[r].lane # "try"

\* A notification is on its way.
Owed == setsOwed > 0 \/ \E q \in Requests : pc[q] = "notify"

\* With every counter at least as high, no gate opens that was closed.
LEMMA OpenAntitone ==
    ASSUME TypeOK, TypeOK',
           \A a \in Accounts : /\ inFlight[a] <= inFlight'[a] /\ pressure[a] <= pressure'[a]
                               /\ openWs[a] <= openWs'[a],
           NEW L \in AdmissionLimits, NEW q \in RequestRecords, NEW a \in Accounts,
           Open(Steady(L), q, a)'
    PROVE  Open(Steady(L), q, a)
<1> DEFINE V == Steady(L)
<1>1. /\ V[1] = L /\ V[2] = L /\ V[3] = L /\ V[4] = L
      /\ V[5] = L /\ V[6] = L /\ V[7] = L /\ V[8] = L
  BY DEF Steady, Reads
<1>2. /\ L.account_in_flight \in Nat /\ L.owner_recovery_reserve \in Nat
      /\ L.account_in_flight_pressure \in Nat /\ L.owner_recovery_pressure_reserve \in Nat
      /\ L.global_in_flight \in Nat /\ L.global_in_flight_pressure \in Nat
      /\ L.global_open_ws \in Nat /\ L.account_open_ws \in Nat
      /\ q.units \in Nat /\ q.kind \in {"flight", "ws"} /\ q.lane \in {"new", "try", "pinned"}
      /\ q.kind = "ws" => q.lane # "try"
  BY DEF AdmissionLimits, RequestRecords, Lanes, Kinds
<1>3. /\ Total(inFlight) <= Total(inFlight') /\ Total(inFlight') \in Nat /\ Total(inFlight) \in Nat
      /\ Total(pressure) <= Total(pressure') /\ Total(pressure') \in Nat /\ Total(pressure) \in Nat
      /\ Total(openWs) <= Total(openWs') /\ Total(openWs') \in Nat /\ Total(openWs) \in Nat
  BY TotalShrinks DEF TypeOK
<1>4. /\ inFlight[a] <= inFlight'[a] /\ inFlight[a] \in Nat /\ inFlight'[a] \in Nat
      /\ pressure[a] <= pressure'[a] /\ pressure[a] \in Nat /\ pressure'[a] \in Nat
      /\ openWs[a] <= openWs'[a] /\ openWs[a] \in Nat /\ openWs'[a] \in Nat
  BY DEF TypeOK
<1>5. /\ Monus(L.account_in_flight, L.owner_recovery_reserve) \in Nat
      /\ Monus(L.account_in_flight_pressure, L.owner_recovery_pressure_reserve) \in Nat
      /\ Monus(L.account_open_ws, L.owner_recovery_reserve) \in Nat
  BY <1>2, ArithmeticType
<1>6. CASE q.kind = "flight" /\ q.lane = "new"
  <2>1. SelectOpen(V, a, q.units)'
    BY <1>6 DEF Open
  <2>2. SelectOpen(V, a, q.units)
    <3> HIDE DEF V
    <3> QED
      BY <1>1, <1>2, <1>3, <1>4, <1>5, <2>1 DEF SelectOpen, Under, Fits
  <2> QED
    BY <1>6, <2>2 DEF Open
<1>7. CASE q.kind = "flight" /\ q.lane = "try"
  <2>1. TryOpen(V, a, q.units)'
    BY <1>7 DEF Open
  <2>2. TryOpen(V, a, q.units)
    <3> HIDE DEF V
    <3> QED
      BY <1>1, <1>2, <1>3, <1>4, <1>5, <2>1 DEF TryOpen, Under, Fits
  <2> QED
    BY <1>7, <2>2 DEF Open
<1>8. CASE q.kind = "flight" /\ q.lane = "pinned"
  <2>1. PinnedOpen(V, a, q.units)'
    BY <1>8 DEF Open
  <2>2. PinnedOpen(V, a, q.units)
    <3> HIDE DEF V
    <3> QED
      BY <1>1, <1>2, <1>3, <1>4, <2>1 DEF PinnedOpen, Under, Fits
  <2> QED
    BY <1>8, <2>2 DEF Open
<1>9. CASE q.kind = "ws" /\ q.lane = "new"
  <2>1. SelectWsOpen(V, a)'
    BY <1>9 DEF Open
  <2>2. SelectWsOpen(V, a)
    <3> HIDE DEF V
    <3> QED
      BY <1>1, <1>2, <1>3, <1>4, <1>5, <2>1 DEF SelectWsOpen, Under
  <2> QED
    BY <1>9, <2>2 DEF Open
<1>10. CASE q.kind = "ws" /\ q.lane = "pinned"
  <2>1. PinnedWsOpen(V, a)'
    BY <1>10 DEF Open
  <2>2. PinnedWsOpen(V, a)
    <3> HIDE DEF V
    <3> QED
      BY <1>1, <1>2, <1>3, <1>4, <2>1 DEF PinnedWsOpen, Under
  <2> QED
    BY <1>10, <2>2 DEF Open
<1> QED
  BY <1>2, <1>6, <1>7, <1>8, <1>9, <1>10

\* An admission only raises the counters.
LEMMA AcquireRaises ==
    ASSUME TypeOK, NEW r \in Requests, req[r] \in RequestRecords, NEW a \in Accounts, Acquire(r, a)
    PROVE  \A b \in Accounts : /\ inFlight[b] <= inFlight'[b] /\ pressure[b] <= pressure'[b]
                               /\ openWs[b] <= openWs'[b]
<1>1. req[r].units \in Nat
  BY DEF RequestRecords
<1>2. CASE req[r].kind = "flight"
  BY <1>1, <1>2 DEF Acquire, TypeOK
<1>3. CASE req[r].kind # "flight"
  BY <1>3 DEF Acquire, TypeOK
<1> QED
  BY <1>2, <1>3

LEMMA HeardStep ==
    ASSUME TypeOK, WaitersHeard, NEW r \in Requests, Step(r) PROVE WaitersHeard'
<1>1. CASE Decide(r)
  BY <1>1 DEF Decide, DecideUnder, Acquire, WaitersHeard, TypeOK
<1>2. CASE Begin(r)
  BY <1>2 DEF Begin, WaitersHeard, TypeOK
<1>3. CASE Register(r) \/ Probe(r) \/ Lock(r) \/ Wake(r) \/ TimeoutOrCancel(r)
  BY <1>3 DEF Register, Probe, Lock, Wake, TimeoutOrCancel, WaitersHeard, TypeOK
<1>4. CASE DropGuard(r) \/ NotifyDrop(r)
  BY <1>4 DEF DropGuard, NotifyDrop, WaitersHeard, TypeOK
<1> QED
  BY <1>1, <1>2, <1>3, <1>4 DEF Step

LEMMA HeardNext == TypeOK /\ WaitersHeard /\ [Next]_vars => WaitersHeard'
<1> SUFFICES ASSUME TypeOK, WaitersHeard, [Next]_vars PROVE WaitersHeard'
  OBVIOUS
<1>1. CASE \E r \in Requests : Step(r)
  BY <1>1, HeardStep
<1>2. CASE SetLimits \/ NotifySet \/ (\E a \in Accounts : HealthChange(a)) \/ UNCHANGED vars
  BY <1>2 DEF SetLimits, NotifySet, HealthChange, vars, WaitersHeard
<1> QED
  BY <1>1, <1>2 DEF Next

\* r, asleep and not woken, could not be admitted.
AsleepIsClosed(r) ==
    pc[r] = "waiting" /\ r \notin woken => \A a \in seen[r] : ~Open(Steady(limits), req[r], a)

LEMMA StrandedMeans == NoStrandedWaiter <=> (Owed \/ \A r \in Requests : AsleepIsClosed(r))
BY DEF NoStrandedWaiter, Owed, AsleepIsClosed

\* A sleeper that stays asleep stays shut out while no counter falls and the limits stand.
LEMMA StaysClosed ==
    ASSUME TypeOK, TypeOK', NEW q \in Requests, AsleepIsClosed(q), UNCHANGED limits,
           \A a \in Accounts : /\ inFlight[a] <= inFlight'[a] /\ pressure[a] <= pressure'[a]
                               /\ openWs[a] <= openWs'[a],
           pc'[q] = "waiting" /\ q \notin woken' =>
                /\ pc[q] = "waiting" /\ q \notin woken
                /\ req'[q] = req[q] /\ seen'[q] = seen[q]
    PROVE  AsleepIsClosed(q)'
<1> SUFFICES ASSUME pc'[q] = "waiting", q \notin woken', NEW a \in seen'[q],
                    Open(Steady(limits), req[q], a)'
             PROVE  FALSE
  BY DEF AsleepIsClosed
<1>1. /\ pc[q] = "waiting" /\ q \notin woken /\ req'[q] = req[q] /\ seen'[q] = seen[q]
      /\ limits' = limits /\ limits \in AdmissionLimits /\ req[q] \in RequestRecords
      /\ a \in Accounts
  BY DEF TypeOK
<1>2. ~Open(Steady(limits), req[q], a)
  BY <1>1 DEF AsleepIsClosed
<1>3. PICK M \in AdmissionLimits, k \in RequestRecords : M = limits /\ k = req[q]
  BY <1>1
<1>4. Open(Steady(M), k, a)'
  BY <1>1, <1>3 DEF Open, SelectOpen, TryOpen, PinnedOpen, SelectWsOpen, PinnedWsOpen, Steady
<1>5. Open(Steady(M), k, a)
  BY <1>1, <1>4, OpenAntitone
<1> QED
  BY <1>2, <1>3, <1>5

LEMMA StrandedStep ==
    ASSUME TypeOK, TypeOK', GateInv, WaitersHeard, NoStrandedWaiter, NEW r \in Requests, Step(r)
    PROVE  NoStrandedWaiter'
<1> SUFFICES ASSUME ~Owed', NEW q \in Requests PROVE AsleepIsClosed(q)'
  BY StrandedMeans DEF Owed, NoStrandedWaiter, AsleepIsClosed
<1>1. CASE NotifyDrop(r)
  <2>1. pc'[q] = "waiting" => q \in woken'
    BY <1>1 DEF NotifyDrop, NotifyWaiters, Registered, WaitersHeard, TypeOK
  <2> QED
    BY <2>1 DEF AsleepIsClosed
<1>2. CASE DropGuard(r)
  <2>1. pc'[r] = "notify"
    BY <1>2 DEF DropGuard, TypeOK
  <2> QED
    BY <2>1 DEF Owed
<1>3. CASE ~NotifyDrop(r) /\ ~DropGuard(r)
  <2>1. UNCHANGED <<limits, setsOwed>> /\ pc[r] # "notify"
        /\ \A p \in Requests \ {r} : pc'[p] = pc[p]
    BY <1>3 DEF Step, Begin, Register, Probe, Lock, Decide, DecideUnder, Acquire, Wake,
                TimeoutOrCancel, TypeOK
  <2>2. ~Owed
    BY <2>1 DEF Owed
  <2>3. AsleepIsClosed(q)
    BY <2>2, StrandedMeans
  <2>4. CASE Decide(r)
    <3>1. /\ pc[r] = "gate" /\ req[r] \in RequestRecords /\ Wanted(req[r]) \subseteq Accounts
          /\ UNCHANGED <<req, woken>>
      BY <2>4, DecideCases
    <3>2. PICK V \in Views(inner.first, limits) :
            /\ inner.first = limits => V = Steady(limits)
            /\ \/ \E a \in Wanted(req[r]) : Open(V, req[r], a) /\ Acquire(r, a)
               \/ /\ \A a \in Wanted(req[r]) : ~Open(V, req[r], a)
                  /\ pc' = [pc EXCEPT ![r] = IF req[r].lane = "try" THEN "refused" ELSE "waiting"]
                  /\ seen' = [seen EXCEPT ![r] = Wanted(req[r])]
                  /\ UNCHANGED <<counters, on>>
      BY <2>4, DecideCases
    <3>3. CASE \E a \in Wanted(req[r]) : Acquire(r, a)
      <4>1. PICK a \in Accounts : Acquire(r, a)
        BY <3>1, <3>3
      <4>2. \A b \in Accounts : /\ inFlight[b] <= inFlight'[b] /\ pressure[b] <= pressure'[b]
                                /\ openWs[b] <= openWs'[b]
        BY <3>1, <4>1, AcquireRaises
      <4>3. pc'[q] = "waiting" => pc[q] = "waiting" /\ seen'[q] = seen[q]
        BY <4>1 DEF Acquire, TypeOK
      <4> QED
        BY <2>1, <2>3, <3>1, <4>2, <4>3, StaysClosed
    <3>4. CASE /\ \A a \in Wanted(req[r]) : ~Open(V, req[r], a)
               /\ pc' = [pc EXCEPT ![r] = IF req[r].lane = "try" THEN "refused" ELSE "waiting"]
               /\ seen' = [seen EXCEPT ![r] = Wanted(req[r])]
               /\ UNCHANGED <<counters, on>>
      <4>1. UNCHANGED counters /\ UNCHANGED <<limits, req, woken>>
        BY <2>1, <3>1, <3>4
      <4>2. CASE q # r
        <5>1. pc'[q] = pc[q] /\ seen'[q] = seen[q]
          BY <3>4, <4>2 DEF TypeOK
        <5>2. \A b \in Accounts : /\ inFlight[b] <= inFlight'[b] /\ pressure[b] <= pressure'[b]
                                  /\ openWs[b] <= openWs'[b]
          BY <4>1 DEF counters, TypeOK
        <5> QED
          BY <2>3, <4>1, <5>1, <5>2, StaysClosed
      <4>3. CASE q = r
        <5> SUFFICES ASSUME pc'[r] = "waiting", r \notin woken
                     PROVE  \A a \in seen'[r] : ~Open(Steady(limits), req[r], a)'
          BY <4>1, <4>3 DEF AsleepIsClosed
        <5>1. req[r].lane # "try" /\ seen'[r] = Wanted(req[r])
          BY <3>4 DEF TypeOK
        <5>2. setsOwed \in Nat /\ ~(setsOwed > 0)
          BY <2>2 DEF Owed, TypeOK
        <5>3. V = Steady(limits)
          BY <3>1, <3>2, <5>1, <5>2 DEF GateInv
        <5>4. \A a \in seen'[r] : ~Open(Steady(limits), req[r], a)
          BY <3>4, <5>1, <5>3
        <5> QED
          BY <4>1, <5>4 DEF Open, SelectOpen, TryOpen, PinnedOpen, SelectWsOpen, PinnedWsOpen,
                            Steady, counters
      <4> QED
        BY <4>2, <4>3
    <3> QED
      BY <3>2, <3>3, <3>4
  <2>5. CASE ~Decide(r)
    <3>1. /\ UNCHANGED counters
          /\ pc'[q] = "waiting" /\ q \notin woken' =>
                pc[q] = "waiting" /\ q \notin woken /\ req'[q] = req[q] /\ seen'[q] = seen[q]
      BY <1>3, <2>5 DEF Step, Begin, Register, Probe, Lock, Wake, TimeoutOrCancel, TypeOK
    <3>2. \A b \in Accounts : /\ inFlight[b] <= inFlight'[b] /\ pressure[b] <= pressure'[b]
                              /\ openWs[b] <= openWs'[b]
      BY <3>1 DEF counters, TypeOK
    <3> QED
      BY <2>1, <2>3, <3>1, <3>2, StaysClosed
  <2> QED
    BY <2>4, <2>5
<1> QED
  BY <1>1, <1>2, <1>3

LEMMA StrandedNext ==
    TypeOK /\ TypeOK' /\ GateInv /\ WaitersHeard /\ NoStrandedWaiter /\ [Next]_vars
        => NoStrandedWaiter'
<1> SUFFICES ASSUME TypeOK, TypeOK', GateInv, WaitersHeard, NoStrandedWaiter, [Next]_vars
             PROVE  NoStrandedWaiter'
  OBVIOUS
<1>1. CASE \E r \in Requests : Step(r)
  BY <1>1, StrandedStep
<1>2. CASE SetLimits
  <2>1. setsOwed' > 0
    BY <1>2 DEF SetLimits, TypeOK
  <2> QED
    BY <2>1 DEF NoStrandedWaiter
<1>3. CASE NotifySet
  <2>1. \A q \in Requests : pc'[q] = "waiting" => q \in woken'
    BY <1>3 DEF NotifySet, NotifyWaiters, Registered, WaitersHeard
  <2> QED
    BY <2>1 DEF NoStrandedWaiter
<1>4. CASE (\E a \in Accounts : HealthChange(a)) \/ UNCHANGED vars
  <2>1. UNCHANGED <<limits, counters, pc, req, seen, woken, setsOwed>>
    BY <1>4 DEF HealthChange, vars, counters
  <2> QED
    BY <2>1 DEF NoStrandedWaiter, Open, SelectOpen, TryOpen, PinnedOpen, SelectWsOpen,
                PinnedWsOpen, Steady, counters
<1> QED
  BY <1>1, <1>2, <1>3, <1>4 DEF Next

\* Nobody sleeps through a release: whoever waits unwoken could not be admitted anywhere it asked
\* for, or a notification that wakes it is still owed.
THEOREM NobodyIsStranded == Spec => []NoStrandedWaiter
<1>1. Init => WaitersHeard /\ NoStrandedWaiter
  BY DEF Init, WaitersHeard, NoStrandedWaiter
<1> QED
  BY <1>1, TypeCorrect, GateInit, GateNext, HeardNext, StrandedNext, PTL DEF Spec

(***************************************************************************)
(* Live updates of the limits.                                             *)
(***************************************************************************)
\* A gate that opens passed the account's own cap under one of the two values it may have read.
LEMMA OpenUnderOne ==
    ASSUME TypeOK, NEW old \in AdmissionLimits, NEW V \in Views(old, limits),
           NEW q \in RequestRecords, q.kind = "flight", NEW a \in Accounts, Open(V, q, a)
    PROVE  \E L \in {old, limits} : Under(L.account_in_flight, inFlight[a])
<1>1. \A i \in 1..8 : V[i] \in {old, limits} /\ V[i] \in AdmissionLimits
  BY ViewReads DEF Reads, TypeOK
<1>2. /\ inFlight[a] \in Nat /\ q.lane \in {"new", "try", "pinned"}
      /\ \A L \in AdmissionLimits : L.account_in_flight \in Nat /\ L.owner_recovery_reserve \in Nat
  BY DEF TypeOK, RequestRecords, Lanes, AdmissionLimits
<1>3. CASE q.lane = "new"
  <2>1. \/ V[7].account_in_flight = 0
        \/ inFlight[a] < Monus(V[3].account_in_flight, V[4].owner_recovery_reserve)
    BY <1>3 DEF Open, SelectOpen
  <2>2. CASE V[7].account_in_flight = 0
    BY <1>1, <2>2 DEF Under
  <2>3. CASE inFlight[a] < Monus(V[3].account_in_flight, V[4].owner_recovery_reserve)
    <3>1. PICK m \in Nat, n \in Nat : m = V[3].account_in_flight /\ n = V[4].owner_recovery_reserve
      BY <1>1, <1>2
    <3>2. inFlight[a] < m
      <4>1. inFlight[a] < Monus(m, n)
        BY <2>3, <3>1
      <4> QED
        BY <1>2, <4>1 DEF Monus
    <3> QED
      BY <1>1, <3>1, <3>2 DEF Under
  <2> QED
    BY <2>1, <2>2, <2>3
<1>4. CASE q.lane = "try"
  <2>1. \/ V[6].account_in_flight = 0
        \/ inFlight[a] < Monus(V[1].account_in_flight, V[2].owner_recovery_reserve)
    BY <1>4 DEF Open, TryOpen
  <2>2. CASE V[6].account_in_flight = 0
    BY <1>1, <2>2 DEF Under
  <2>3. CASE inFlight[a] < Monus(V[1].account_in_flight, V[2].owner_recovery_reserve)
    <3>1. PICK m \in Nat, n \in Nat : m = V[1].account_in_flight /\ n = V[2].owner_recovery_reserve
      BY <1>1, <1>2
    <3>2. inFlight[a] < m
      <4>1. inFlight[a] < Monus(m, n)
        BY <2>3, <3>1
      <4> QED
        BY <1>2, <4>1 DEF Monus
    <3> QED
      BY <1>1, <3>1, <3>2 DEF Under
  <2> QED
    BY <2>1, <2>2, <2>3
<1>5. CASE q.lane = "pinned"
  <2>1. Under(V[2].account_in_flight, inFlight[a])
    BY <1>5 DEF Open, PinnedOpen
  <2> QED
    BY <1>1, <2>1
<1> QED
  BY <1>2, <1>3, <1>4, <1>5

LEMMA AdmittedStep ==
    ASSUME TypeOK, GateInv, [Next]_vars, NEW a \in Accounts, inFlight'[a] > inFlight[a]
    PROVE  \E L \in {inner.first, limits} : Under(L.account_in_flight, inFlight[a])
<1>1. inFlight[a] \in Nat /\ inFlight' # inFlight
  BY DEF TypeOK
<1>2. PICK r \in Requests : Decide(r) \/ DropGuard(r)
  BY <1>1 DEF Next, Step, Begin, Register, Probe, Lock, Wake, TimeoutOrCancel, NotifyDrop,
              SetLimits, NotifySet, HealthChange, vars, counters
<1>3. ~DropGuard(r)
  <2>1. DropGuard(r) => inFlight'[a] <= inFlight[a]
    BY DropLowers
  <2>2. DropGuard(r) => inFlight'[a] \in Nat
    BY TypeDropGuard DEF TypeOK
  <2> QED
    BY <1>1, <2>1, <2>2
<1>4. /\ pc[r] = "gate" /\ req[r] \in RequestRecords /\ Wanted(req[r]) \subseteq Accounts
      /\ inner.first \in AdmissionLimits
  BY <1>2, <1>3, DecideCases DEF GateInv
<1>5. PICK V \in Views(inner.first, limits), b \in Accounts : Open(V, req[r], b) /\ Acquire(r, b)
  BY <1>1, <1>2, <1>3, <1>4, DecideCases DEF counters
<1>6. req[r].kind = "flight" /\ b = a
  BY <1>1, <1>5 DEF Acquire, TypeOK
<1> QED
  BY <1>4, <1>5, <1>6, OpenUnderOne

\* Whatever an operator changes while a gate reads, it admits nobody who is beyond the account's cap
\* both in the limits before and in the limits after.
THEOREM AdmissionsAreWithinACap == Spec => AdmittedWithinACap
<1>1. TypeOK /\ GateInv /\ [Next]_vars =>
        [\A a \in Accounts :
            inFlight'[a] > inFlight[a] =>
                \E L \in {inner.first, limits} : Under(L.account_in_flight, inFlight[a])]_vars
  BY AdmittedStep
<1> QED
  BY <1>1, TypeCorrect, GateInit, GateNext, PTL DEF Spec, AdmittedWithinACap
=============================================================================
