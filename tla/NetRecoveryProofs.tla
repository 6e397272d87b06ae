------------------------- MODULE NetRecoveryProofs -------------------------
(***************************************************************************)
(* Theorems about NetRecovery, for every set of callers and every number   *)
(* of delays: the circuit is well typed, half open only with its probe     *)
(* under way, nobody sleeps through a change of it, and only a probe       *)
(* advances the backoff.  Each invariant is inductive relative to TypeOK.  *)
(***************************************************************************)
EXTENDS NetRecovery, TLAPS

(***************************************************************************)
(* Type correctness.                                                       *)
(***************************************************************************)
\* A report's failures stay within the delays.
LEMMA FailuresInRange ==
    ASSUME TypeOK, NEW t \in Callers
    PROVE  NextFailures(t) \in 0..Delays
  <1>1. permit[t] \in NoPermit..Delays
    BY DEF TypeOK
  <1>2. CASE phase = "closed" \/ (phase = "half" /\ IsProbe(t))
    BY <1>1, <1>2, NetConstants DEF NextFailures, Advanced, NoPermit
  <1>3. CASE ~(phase = "closed" \/ (phase = "half" /\ IsProbe(t)))
    BY <1>3 DEF NextFailures, TypeOK
  <1> QED BY <1>2, <1>3

\* A step that fails the circuit keeps what the type invariant says of the circuit and permits.
LEMMA FailTyped ==
    ASSUME TypeOK, NEW t \in Callers, Fail(t)
    PROVE  /\ phase' \in {"closed", "open", "half"} /\ failures' \in 0..Delays /\ due' \in BOOLEAN
           /\ permit' \in [Callers -> NoPermit..Delays]
           /\ woken' \subseteq Callers
  <1>1. failures' \in 0..Delays
    BY FailuresInRange DEF Fail
  <1>2. NoPermit \in NoPermit..Delays
    BY NetConstants DEF NoPermit
  <1>3. permit' \in [Callers -> NoPermit..Delays]
    BY <1>2 DEF Fail, TypeOK
  <1>4. woken' \subseteq Callers
    BY DEF Fail, NotifyWaiters, Waiting, TypeOK
  <1> QED BY <1>1, <1>3, <1>4 DEF Fail

\* Every step keeps the state well typed.
LEMMA TypeStep == TypeOK /\ [Next]_vars => TypeOK'
  <1> SUFFICES ASSUME TypeOK, [Next]_vars PROVE TypeOK'
    OBVIOUS
  <1> USE DEF TypeOK
  <1>0. /\ Normal \in NoPermit..Delays /\ NoPermit \in NoPermit..Delays
        /\ 0 \in 0..Delays /\ failures \in NoPermit..Delays
    BY NetConstants DEF Normal, NoPermit
  <1>1. CASE RetryTimePasses
    BY <1>1 DEF RetryTimePasses
  <1>2. ASSUME NEW t \in Callers, Begin(t) PROVE TypeOK'
    BY <1>2 DEF Begin, circuit
  <1>3. ASSUME NEW t \in Callers, AdmitNormal(t) PROVE TypeOK'
    BY <1>0, <1>3 DEF AdmitNormal, circuit
  <1>4. ASSUME NEW t \in Callers, AdmitProbe(t) PROVE TypeOK'
    BY <1>0, <1>4 DEF AdmitProbe
  <1>5. ASSUME NEW t \in Callers, HoldBack(t) PROVE TypeOK'
    BY <1>5 DEF HoldBack, End, circuit
  <1>6. ASSUME NEW t \in Callers, Wake(t) PROVE TypeOK'
    BY <1>6 DEF Wake, circuit
  <1>7. ASSUME NEW t \in Callers, Refuse(t) PROVE TypeOK'
    BY <1>7 DEF Refuse, End, circuit
  <1>8. ASSUME NEW t \in Callers, Succeed(t) PROVE TypeOK'
    BY <1>0, <1>8 DEF Succeed, End, NotifyWaiters, Waiting
  <1>9. ASSUME NEW t \in Callers, ReportFailure(t) PROVE TypeOK'
    <2>1. Fail(t) BY <1>9 DEF ReportFailure
    <2>2. /\ pc' \in [Callers -> {"idle", "acquire", "waiting", "attempt"}]
          /\ timed' \subseteq Callers /\ expired' \subseteq Callers
      BY <1>9 DEF ReportFailure, End
    <2> QED BY <2>1, <2>2, FailTyped
  <1>10. ASSUME NEW t \in Callers, Inconclusive(t) PROVE TypeOK'
    <2>1. /\ pc' \in [Callers -> {"idle", "acquire", "waiting", "attempt"}]
          /\ timed' \subseteq Callers /\ expired' \subseteq Callers
      BY <1>10 DEF Inconclusive, End
    <2>2. CASE IsProbe(t)
      <3>1. Fail(t) BY <1>10, <2>2 DEF Inconclusive, Abandon
      <3> QED BY <2>1, <3>1, FailTyped
    <2>3. CASE ~IsProbe(t)
      BY <1>0, <1>10, <2>1, <2>3 DEF Inconclusive, Abandon, circuit
    <2> QED BY <2>2, <2>3
  <1>11. ASSUME NEW t \in Callers, DeadlinePasses(t) PROVE TypeOK'
    BY <1>11 DEF DeadlinePasses, circuit
  <1>12. ASSUME NEW t \in Callers, CancelWait(t) PROVE TypeOK'
    BY <1>12 DEF CancelWait, End, circuit
  <1>13. CASE UNCHANGED vars
    BY <1>13 DEF vars
  <1> QED
    BY <1>1, <1>2, <1>3, <1>4, <1>5, <1>6, <1>7, <1>8, <1>9, <1>10, <1>11, <1>12, <1>13
    DEF Next, Step, Admission, Report

\* The initial state is well typed.
LEMMA TypeInit == Init => TypeOK
  <1> SUFFICES ASSUME Init PROVE TypeOK
    OBVIOUS
  <1>1. NoPermit \in NoPermit..Delays /\ 0 \in 0..Delays
    BY NetConstants DEF NoPermit
  <1>2. permit \in [Callers -> NoPermit..Delays]
    BY <1>1 DEF Init
  <1> QED BY <1>1, <1>2 DEF Init, TypeOK

\* TypeOK holds in every reachable state.
THEOREM TypeCorrect == Spec => []TypeOK
  <1> QED BY TypeInit, TypeStep, PTL DEF Spec

(***************************************************************************)
(* The probe.  HalfOpenHasProbe needs to know that the failures of a       *)
(* circuit that is not closed are a probe's permit, so not zero, which     *)
(* needs that whoever attempts has a permit.                               *)
(***************************************************************************)
AttemptHasPermit == \A t \in Callers : pc[t] = "attempt" => permit[t] >= Normal
OpenHasFailed == phase # "closed" => failures > 0
ProbeInv == TypeOK /\ AttemptHasPermit /\ OpenHasFailed /\ HalfOpenHasProbe

\* The failure of an attempt leaves the circuit open with at least one failure.
LEMMA FailOpens ==
    ASSUME ProbeInv, NEW t \in Callers, pc[t] = "attempt", Fail(t)
    PROVE  OpenHasFailed' /\ HalfOpenHasProbe'
  <1>1. permit[t] \in 0..Delays /\ failures \in 0..Delays
    BY DEF ProbeInv, TypeOK, AttemptHasPermit, Normal, NoPermit
  <1>2. NextFailures(t) > 0
    BY <1>1, NetConstants
    DEF NextFailures, Advanced, IsProbe, ProbeInv, OpenHasFailed, TypeOK
  <1> QED BY <1>2 DEF Fail, OpenHasFailed, HalfOpenHasProbe

\* A step that leaves the circuit alone, and the place and permit of every attempt but a
\* normal one, leaves the half-open circuit its probe.
LEMMA ProbeKept ==
    ASSUME HalfOpenHasProbe, phase' = phase, failures' = failures,
           \A u \in Callers : pc[u] = "attempt" /\ IsProbe(u)
               => pc'[u] = pc[u] /\ permit'[u] = permit[u]
    PROVE  HalfOpenHasProbe'
  BY DEF HalfOpenHasProbe, IsProbe

\* Whoever begins to attempt has a permit, and nobody else's permit is touched.
LEMMA PermitStep == ProbeInv /\ [Next]_vars => AttemptHasPermit'
  <1> SUFFICES ASSUME ProbeInv, [Next]_vars PROVE AttemptHasPermit'
    OBVIOUS
  <1> USE DEF ProbeInv, TypeOK, AttemptHasPermit, Normal
  <1>1. CASE RetryTimePasses \/ UNCHANGED vars
    BY <1>1 DEF RetryTimePasses, vars
  <1>2. ASSUME NEW t \in Callers, Begin(t) \/ DeadlinePasses(t) \/ CancelWait(t) \/ Wake(t)
                                  \/ Refuse(t) \/ HoldBack(t)
        PROVE AttemptHasPermit'
    BY <1>2 DEF Begin, DeadlinePasses, CancelWait, Wake, Refuse, HoldBack, End
  <1>3. ASSUME NEW t \in Callers, AdmitNormal(t) PROVE AttemptHasPermit'
    BY <1>3 DEF AdmitNormal
  <1>4. ASSUME NEW t \in Callers, AdmitProbe(t) PROVE AttemptHasPermit'
    <2>1. permit'[t] >= 0
      BY <1>4 DEF AdmitProbe
    <2> QED BY <1>4, <2>1 DEF AdmitProbe
  <1>5. ASSUME NEW t \in Callers, Report(t) PROVE AttemptHasPermit'
    <2>1. pc'[t] # "attempt"
      BY <1>5 DEF Report, Succeed, ReportFailure, Inconclusive, End
    <2>2. \A u \in Callers \ {t} : pc'[u] = pc[u] /\ permit'[u] = permit[u]
      BY <1>5 DEF Report, Succeed, ReportFailure, Inconclusive, Abandon, Fail, End
    <2> QED BY <2>1, <2>2
  <1> QED BY <1>1, <1>2, <1>3, <1>4, <1>5 DEF Next, Step, Admission

\* Every step keeps the circuit's failures and its probe.
LEMMA ProbeStep == ProbeInv /\ [Next]_vars => OpenHasFailed' /\ HalfOpenHasProbe'
  <1> SUFFICES ASSUME ProbeInv, [Next]_vars PROVE OpenHasFailed' /\ HalfOpenHasProbe'
    OBVIOUS
  <1> USE DEF ProbeInv
  <1>1. CASE RetryTimePasses \/ UNCHANGED vars
    BY <1>1 DEF RetryTimePasses, vars, OpenHasFailed, HalfOpenHasProbe, IsProbe
  <1>2. ASSUME NEW t \in Callers, Begin(t) \/ DeadlinePasses(t) \/ CancelWait(t) \/ Wake(t)
                                  \/ Refuse(t) \/ HoldBack(t)
        PROVE OpenHasFailed' /\ HalfOpenHasProbe'
    <2>1. phase' = phase /\ failures' = failures
      BY <1>2 DEF Begin, DeadlinePasses, CancelWait, Wake, Refuse, HoldBack, circuit
    <2>2. \A u \in Callers : pc[u] = "attempt" => pc'[u] = pc[u] /\ permit'[u] = permit[u]
      BY <1>2 DEF Begin, DeadlinePasses, CancelWait, Wake, Refuse, HoldBack, End, TypeOK
    <2> QED BY <2>1, <2>2, ProbeKept DEF OpenHasFailed
  <1>3. ASSUME NEW t \in Callers, AdmitNormal(t) \/ Succeed(t)
        PROVE OpenHasFailed' /\ HalfOpenHasProbe'
    BY <1>3 DEF AdmitNormal, Succeed, circuit, OpenHasFailed, HalfOpenHasProbe
  <1>4. ASSUME NEW t \in Callers, AdmitProbe(t) PROVE OpenHasFailed' /\ HalfOpenHasProbe'
    <2>1. failures > 0 /\ failures' = failures
      BY <1>4 DEF AdmitProbe, OpenHasFailed
    <2>2. pc'[t] = "attempt" /\ permit'[t] = failures'
      BY <1>4 DEF AdmitProbe, TypeOK
    <2> QED BY <2>1, <2>2 DEF OpenHasFailed, HalfOpenHasProbe, IsProbe
  <1>5. ASSUME NEW t \in Callers, ReportFailure(t) PROVE OpenHasFailed' /\ HalfOpenHasProbe'
    BY <1>5, FailOpens DEF ReportFailure
  <1>6. ASSUME NEW t \in Callers, Inconclusive(t) PROVE OpenHasFailed' /\ HalfOpenHasProbe'
    <2>1. CASE IsProbe(t)
      BY <1>6, <2>1, FailOpens DEF Inconclusive, Abandon
    <2>2. CASE ~IsProbe(t)
      <3>1. phase' = phase /\ failures' = failures
        BY <1>6, <2>2 DEF Inconclusive, Abandon, circuit
      <3>2. \A u \in Callers \ {t} : pc'[u] = pc[u] /\ permit'[u] = permit[u]
        BY <1>6, <2>2 DEF Inconclusive, Abandon, End, TypeOK
      <3> QED BY <2>2, <3>1, <3>2, ProbeKept DEF OpenHasFailed
    <2> QED BY <2>1, <2>2
  <1> QED BY <1>1, <1>2, <1>3, <1>4, <1>5, <1>6 DEF Next, Step, Admission, Report

\* ProbeInv is inductive.
LEMMA ProbeInductive == Spec => []ProbeInv
  <1>1. Init => ProbeInv
    BY TypeInit DEF Init, ProbeInv, AttemptHasPermit, OpenHasFailed, HalfOpenHasProbe
  <1>2. ProbeInv /\ [Next]_vars => ProbeInv'
    BY TypeStep, PermitStep, ProbeStep DEF ProbeInv
  <1> QED BY <1>1, <1>2, PTL DEF Spec

\* A half-open circuit always has the probe admitted last under way.
THEOREM ProbeUnderWay == Spec => []HalfOpenHasProbe
  <1>1. ProbeInv => HalfOpenHasProbe
    BY DEF ProbeInv
  <1> QED BY <1>1, ProbeInductive, PTL

(***************************************************************************)
(* The waiters and the backoff.                                            *)
(***************************************************************************)
\* After a notification nobody waits unnotified, apart from who stops waiting.
LEMMA NotifiedNotStranded ==
    ASSUME TypeOK, NotifyWaiters, NEW t \in Callers, pc'[t] # "waiting",
           \A u \in Callers \ {t} : pc'[u] = pc[u]
    PROVE  NoStrandedWaiter'
  BY DEF NotifyWaiters, Waiting, NoStrandedWaiter

\* Every step keeps NoStrandedWaiter.
LEMMA WaiterStep == TypeOK /\ NoStrandedWaiter /\ [Next]_vars => NoStrandedWaiter'
  <1> SUFFICES ASSUME TypeOK, NoStrandedWaiter, [Next]_vars PROVE NoStrandedWaiter'
    OBVIOUS
  <1>1. CASE RetryTimePasses \/ UNCHANGED vars
    BY <1>1 DEF RetryTimePasses, vars, NoStrandedWaiter
  <1>2. ASSUME NEW t \in Callers, Begin(t) \/ DeadlinePasses(t) PROVE NoStrandedWaiter'
    BY <1>2 DEF Begin, DeadlinePasses, circuit, NoStrandedWaiter, TypeOK
  <1>3. ASSUME NEW t \in Callers, CancelWait(t) \/ Wake(t) \/ Refuse(t) PROVE NoStrandedWaiter'
    BY <1>3 DEF CancelWait, Wake, Refuse, End, circuit, NoStrandedWaiter, TypeOK
  <1>4. ASSUME NEW t \in Callers, HoldBack(t) PROVE NoStrandedWaiter'
    BY <1>4 DEF HoldBack, End, circuit, NoStrandedWaiter, TypeOK
  <1>5. ASSUME NEW t \in Callers, AdmitNormal(t) PROVE NoStrandedWaiter'
    BY <1>5 DEF AdmitNormal, circuit, NoStrandedWaiter, TypeOK
  <1>6. ASSUME NEW t \in Callers, AdmitProbe(t) PROVE NoStrandedWaiter'
    BY <1>6 DEF AdmitProbe, NoStrandedWaiter, TypeOK
  <1>7. ASSUME NEW t \in Callers, Report(t) PROVE NoStrandedWaiter'
    <2>1. pc'[t] # "waiting" /\ \A u \in Callers \ {t} : pc'[u] = pc[u]
      BY <1>7 DEF Report, Succeed, ReportFailure, Inconclusive, End, TypeOK
    <2>2. CASE NotifyWaiters
      BY <2>1, <2>2, NotifiedNotStranded
    <2>3. CASE ~NotifyWaiters
      <3>1. UNCHANGED <<circuit, woken>> /\ timed' = timed
        BY <1>7, <2>3 DEF Report, Succeed, ReportFailure, Inconclusive, Abandon, Fail
      <3> QED BY <2>1, <3>1 DEF circuit, NoStrandedWaiter
    <2> QED BY <2>2, <2>3
  <1> QED BY <1>1, <1>2, <1>3, <1>4, <1>5, <1>6, <1>7 DEF Next, Step, Admission

\* Whoever waits unnotified faces a probe, or has the retry time in its timer.
THEOREM NobodyStranded == Spec => []NoStrandedWaiter
  <1>1. Init => NoStrandedWaiter
    BY DEF Init, NoStrandedWaiter
  <1> QED BY <1>1, TypeCorrect, WaiterStep, PTL DEF Spec

\* While the circuit is not closed, only the report of a probe advances the backoff.
LEMMA BackoffStep ==
    ASSUME TypeOK, [Next]_vars, phase # "closed", failures' > failures
    PROVE  \E t \in Callers : IsProbe(t) /\ permit'[t] = NoPermit
  <1>1. failures \in Int /\ failures' # failures /\ ~(failures' = 0)
    BY DEF TypeOK
  <1>2. PICK t \in Callers : Fail(t)
    BY <1>1
    DEF Next, Step, Admission, Report, RetryTimePasses, Begin, AdmitNormal, AdmitProbe, HoldBack,
        Wake, Refuse, Succeed, ReportFailure, Inconclusive, Abandon, DeadlinePasses, CancelWait,
        circuit, vars
  <1>3. IsProbe(t)
    BY <1>1, <1>2 DEF Fail, NextFailures
  <1>4. permit'[t] = NoPermit
    BY <1>2 DEF Fail, TypeOK
  <1> QED BY <1>3, <1>4

\* The failures of the crowd that was on the wire when the circuit opened leave the backoff alone.
THEOREM OnlyProbesBackOff == Spec => BackoffIsTheProbes
  <1>1. TypeOK /\ [Next]_vars
        => [(phase # "closed" /\ failures' > failures)
              => \E t \in Callers : IsProbe(t) /\ permit'[t] = NoPermit]_vars
    BY BackoffStep
  <1> QED BY <1>1, TypeCorrect, PTL DEF Spec, BackoffIsTheProbes
=============================================================================
