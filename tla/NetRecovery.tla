---------------------------- MODULE NetRecovery ----------------------------
(***************************************************************************)
(* The circuit of one upstream origin (network_recovery.rs): callers       *)
(* acquire a permit, attempt the connection, and report what came of it;   *)
(* an open circuit makes them wait for its retry time, for a notification  *)
(* or for their own deadline.  The circuits of different origins share     *)
(* only the mutex of the map, which each step here holds.                  *)
(*                                                                         *)
(* Time is abstract: `due` says that the retry time of the open circuit    *)
(* has passed, `expired` that a caller's deadline has.  What an attempt    *)
(* finds is a choice of its last step, so a report can be older than the   *)
(* phase it meets.  The re-dials a socket gets after a handshake refused   *)
(* with 409 (a success here) are calls of their own; the two telemetry     *)
(* counters are left out.                                                  *)
(***************************************************************************)
EXTENDS Integers

CONSTANTS
    Callers,    \* concurrent calls to the origin
    Streaming,  \* callers of send_streaming_backend_once, whose body cannot be sent again
    Delays      \* RecoveryPolicy.delays.len(): the backoff is at its cap from there on

ASSUME NetConstants == Streaming \subseteq Callers /\ Delays \in Nat \ {0}

VARIABLES
    phase,      \* CircuitPhase: "closed", "open" or "half"
    failures,   \* its failures, counted up to Delays; 0 while closed
    due,        \* the retry time of the open circuit has passed
    pc,         \* where each caller is
    permit,     \* the permit a caller has: the failures of a probe, Normal, or NoPermit
    timed,      \* waiters whose timer includes the retry time
    woken,      \* waiters whose Notified has fired
    expired     \* callers whose deadline has passed

vars == <<phase, failures, due, pc, permit, timed, woken, expired>>
circuit == <<phase, failures, due>>

Normal == 0
NoPermit == -1
IsProbe(t) == permit[t] > 0
Waiting == {t \in Callers : pc[t] = "waiting"}

Init ==
    /\ phase = "closed" /\ failures = 0 /\ due = FALSE
    /\ pc = [t \in Callers |-> "idle"]
    /\ permit = [t \in Callers |-> NoPermit]
    /\ timed = {} /\ woken = {} /\ expired = {}

\* A request begins, with a deadline of its own, ...
Begin(t) ==
    /\ pc[t] = "idle"
    /\ pc' = [pc EXCEPT ![t] = "acquire"]
    /\ UNCHANGED <<circuit, permit, timed, woken, expired>>

\* ... and ends, answered or refused.
End(t) ==
    /\ pc' = [pc EXCEPT ![t] = "idle"]
    /\ expired' = expired \ {t}

RetryTimePasses ==
    /\ phase = "open" /\ ~due
    /\ due' = TRUE
    /\ UNCHANGED <<phase, failures, pc, permit, timed, woken, expired>>

DeadlinePasses(t) ==
    /\ pc[t] # "idle" /\ t \notin expired
    /\ expired' = expired \cup {t}
    /\ UNCHANGED <<circuit, pc, permit, timed, woken>>

(***************************************************************************)
(* acquire.                                                                *)
(***************************************************************************)
\* A closed circuit admits everyone.
AdmitNormal(t) ==
    /\ pc[t] = "acquire" /\ phase = "closed"
    /\ permit' = [permit EXCEPT ![t] = Normal]
    /\ pc' = [pc EXCEPT ![t] = "attempt"]
    /\ UNCHANGED <<circuit, timed, woken, expired>>

\* An open one admits one caller when its retry time has come, as the probe.
AdmitProbe(t) ==
    /\ pc[t] = "acquire" /\ phase = "open" /\ due
    /\ phase' = "half" /\ due' = FALSE
    /\ permit' = [permit EXCEPT ![t] = failures]
    /\ pc' = [pc EXCEPT ![t] = "attempt"]
    /\ UNCHANGED <<failures, timed, woken, expired>>

\* Otherwise the caller takes a Notified under the lock, and waits for it unless its deadline
\* has passed.  The retry time is in the timer of those who found the circuit open.
HoldBack(t) ==
    /\ pc[t] = "acquire"
    /\ phase = "half" \/ (phase = "open" /\ ~due)
    /\ IF t \in expired
       THEN End(t) /\ UNCHANGED timed
       ELSE /\ pc' = [pc EXCEPT ![t] = "waiting"]
            /\ timed' = IF phase = "open" THEN timed \cup {t} ELSE timed
            /\ UNCHANGED expired
    /\ UNCHANGED <<circuit, permit, woken>>

\* Mutant: a waiter's timer is its deadline alone.
WakeNotified(t) ==
    /\ pc[t] = "waiting" /\ t \in woken
    /\ pc' = [pc EXCEPT ![t] = "acquire"]
    /\ timed' = timed \ {t} /\ woken' = woken \ {t}
    /\ UNCHANGED <<circuit, permit, expired>>

\* The notification, or the retry time: another look at the circuit.
Wake(t) ==
    /\ pc[t] = "waiting"
    /\ t \in woken \/ (t \in timed /\ due /\ t \notin expired)
    /\ pc' = [pc EXCEPT ![t] = "acquire"]
    /\ timed' = timed \ {t} /\ woken' = woken \ {t}
    /\ UNCHANGED <<circuit, permit, expired>>

\* The deadline: the network recovery budget is exceeded.
Refuse(t) ==
    /\ pc[t] = "waiting" /\ t \in expired /\ t \notin woken
    /\ End(t)
    /\ timed' = timed \ {t}
    /\ UNCHANGED <<circuit, permit, woken>>

(***************************************************************************)
(* The attempt and its report.                                             *)
(***************************************************************************)
NotifyWaiters == woken' = woken \cup Waiting

\* Mutant: the circuit closes without a word to those who wait.
SucceedSilently(t) ==
    /\ pc[t] = "attempt"
    /\ phase' = "closed" /\ failures' = 0 /\ due' = FALSE
    /\ permit' = [permit EXCEPT ![t] = NoPermit]
    /\ End(t)
    /\ UNCHANGED <<woken, timed>>

\* success: a header, a status or a handshake, even of an attempt older than the outage, proves
\* the origin reachable and closes the circuit.
Succeed(t) ==
    /\ pc[t] = "attempt"
    /\ phase' = "closed" /\ failures' = 0 /\ due' = FALSE
    /\ NotifyWaiters
    /\ permit' = [permit EXCEPT ![t] = NoPermit]
    /\ End(t)
    /\ UNCHANGED timed

\* The backoff after f failures and one more: counted up to the last delay.
Advanced(f) == IF f < Delays THEN f + 1 ELSE f

\* Mutant: every failure advances the backoff.
NextFailuresAlways(t) == Advanced(failures)

\* The failures after one that t reports: a probe's advances its own, any other leaves an open
\* circuit as it is.
NextFailures(t) ==
    IF phase = "closed" \/ (phase = "half" /\ IsProbe(t)) THEN Advanced(permit[t]) ELSE failures

\* failure: the circuit opens (again), with a new retry time.
Fail(t) ==
    /\ phase' = "open" /\ failures' = NextFailures(t) /\ due' = FALSE
    /\ NotifyWaiters
    /\ permit' = [permit EXCEPT ![t] = NoPermit]

\* Mutant: a failed connection is tried again whatever the time.
ReportFailureRetries(t) ==
    /\ pc[t] = "attempt"
    /\ Fail(t)
    /\ IF t \in Streaming
       THEN End(t)
       ELSE pc' = [pc EXCEPT ![t] = "acquire"] /\ UNCHANGED expired
    /\ UNCHANGED timed

\* The connection failed: it is tried again before the deadline, if it can be.
ReportFailure(t) ==
    /\ pc[t] = "attempt"
    /\ Fail(t)
    /\ IF t \in expired \/ t \in Streaming
       THEN End(t)
       ELSE pc' = [pc EXCEPT ![t] = "acquire"] /\ UNCHANGED expired
    /\ UNCHANGED timed

\* Mutant: only a report moves the circuit.
AbandonQuietly(t) ==
    /\ permit' = [permit EXCEPT ![t] = NoPermit]
    /\ UNCHANGED <<circuit, woken>>

\* AttemptPermit::drop without a report: a probe counts as failed, a normal permit for nothing.
Abandon(t) ==
    IF IsProbe(t) THEN Fail(t)
    ELSE /\ permit' = [permit EXCEPT ![t] = NoPermit]
         /\ UNCHANGED <<circuit, woken>>

\* A header timeout or a late error neither proves nor disproves reachability: the permit is
\* dropped and the call ends.  So it does when the future of the caller is dropped.
Inconclusive(t) ==
    /\ pc[t] = "attempt"
    /\ Abandon(t)
    /\ End(t)
    /\ UNCHANGED timed

CancelWait(t) ==
    /\ pc[t] \in {"acquire", "waiting"}
    /\ End(t)
    /\ timed' = timed \ {t} /\ woken' = woken \ {t}
    /\ UNCHANGED <<circuit, permit>>

Report(t) == Succeed(t) \/ ReportFailure(t) \/ Inconclusive(t)
Admission(t) == AdmitNormal(t) \/ AdmitProbe(t) \/ HoldBack(t)
Step(t) == \/ Begin(t) \/ Admission(t) \/ Wake(t) \/ Refuse(t) \/ Report(t)
           \/ DeadlinePasses(t) \/ CancelWait(t)

Next == (\E t \in Callers : Step(t)) \/ RetryTimePasses

\* Tasks are polled, attempts return, and the retry time comes; nothing forces requests,
\* deadlines or cancellations.
Fairness ==
    /\ WF_vars(RetryTimePasses)
    /\ \A t \in Callers : WF_vars(Admission(t) \/ Wake(t) \/ Refuse(t) \/ Report(t))

Spec == Init /\ [][Next]_vars
FairSpec == Spec /\ Fairness

(***************************************************************************)
(* Properties.                                                             *)
(***************************************************************************)
\* Type invariant.
TypeOK ==
    /\ phase \in {"closed", "open", "half"} /\ failures \in 0..Delays /\ due \in BOOLEAN
    /\ pc \in [Callers -> {"idle", "acquire", "waiting", "attempt"}]
    /\ permit \in [Callers -> NoPermit..Delays]
    /\ timed \subseteq Callers /\ woken \subseteq Callers /\ expired \subseteq Callers

\* A circuit is never half open without a probe to resolve it: the probe admitted last is still
\* under way, however those before it ended or were dropped.
HalfOpenHasProbe ==
    phase = "half" => \E t \in Callers : pc[t] = "attempt" /\ IsProbe(t) /\ permit[t] = failures

\* Nobody sleeps through a change of the circuit: whoever waits unnotified faces a probe under
\* way, or an open circuit whose retry time its timer includes.
NoStrandedWaiter ==
    \A t \in Callers :
        (pc[t] = "waiting" /\ t \notin woken)
            => phase = "half" \/ (phase = "open" /\ t \in timed)

\* "normal_failures_racing_after_open_do_not_advance_backoff": the failures of the crowd that
\* was on the wire when the circuit opened, in any order, leave the backoff alone.
BackoffIsTheProbes ==
    [][(phase # "closed" /\ failures' > failures)
        => \E t \in Callers : IsProbe(t) /\ permit'[t] = NoPermit]_vars

\* "wait no longer than the existing starvation budget"
\* (docs/plans/2026-07-28-044354-01-plan-upstream-network-recovery.md:7): past its deadline a
\* call ends; a notification after it gives it one more look at the circuit, never another wait.
DeadlineEndsCall == \A t \in Callers : t \in expired ~> t \notin expired

\* "recover automatically and safely when each upstream origin becomes reachable again" (same
\* place, line 5): once no attempt fails any more, nobody waits for ever, deadlines or not.
Recovers ==
    <>[][\A t \in Callers : ~ReportFailure(t) /\ ~Inconclusive(t)]_vars
        => \A t \in Callers : pc[t] = "waiting" ~> pc[t] = "idle"
=============================================================================
