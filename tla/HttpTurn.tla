------------------------------ MODULE HttpTurn ------------------------------
(***************************************************************************)
(* HTTP turns of one conversation (ingress.rs, watchdog.rs, failover.rs,   *)
(* continuity.rs, polyflare-store/src/continuity_repo.rs): which account a *)
(* turn is sent to, with or without its anchor, what is tried when the     *)
(* upstream refuses it, what is charged to the attempt budget of the       *)
(* logical turn, and what its end writes into the session row and the      *)
(* anchor map.                                                             *)
(*                                                                         *)
(* A request is one call of responses_handler_impl_with_max_attempts and   *)
(* the stream it returns; several run at once for one session and one      *)
(* logical turn (retries, subagents).  Which accounts are eligible, ranked *)
(* or in backoff is an arbitrary choice of each pick, and time passes      *)
(* whenever a step says so.  Translated and custom models, which branch    *)
(* off before the conversation is looked up, health bookkeeping, metrics   *)
(* and traces are left out, and so is the budget registry's limit of keys. *)
(***************************************************************************)
EXTENDS Integers, FiniteSets

CONSTANTS
    Requests,
    Accounts,
    NoAccount,
    Authorized,     \* the accounts that may serve security work
    Responses,      \* response ids; a completion without one is always possible
    NoResponse,
    Limit,          \* max_account_attempts, also the budget of a logical turn
    MaxRides        \* rounds that fit in the time capacity_ride_out_secs leaves

ASSUME TurnConstants ==
    /\ NoAccount \notin Accounts /\ NoResponse \notin Responses
    /\ IsFiniteSet(Accounts) /\ Authorized \subseteq Accounts
    /\ Limit \in Nat \ {0} /\ MaxRides \in Nat

VARIABLES
    pc,         \* where each request is
    pin,        \* directive.pin_account, kept as expected_owner
    anchor,     \* previous_response_id of the client's body
    shape,      \* "full" (is_full_resend) or "tail"
    needs,      \* require_security_work_authorized
    acct,       \* the account of the attempt
    body,       \* what the attempt sends: "anchored" or "plain"
    kind,       \* OutcomeKind of the attempt: "completed" or "recovered"
    onErr,      \* who handles its refusal
    rung,       \* remedies of the first attempt already spent: 1 rewrite, 2 refresh
    tried,      \* accounts this round of the failover loop
    capOnly,    \* every_refusal_was_capacity
    rides,      \* ride_out_rounds
    said,       \* the response id the stream carried, once it completed
    owner,      \* continuity_sessions.owning_account_id
    sticky,     \* continuity_sessions.required_capabilities holds security_work
    anchors,    \* continuity_anchors: response id -> account
    maker,      \* the account that produced each response
    consumed,   \* LogicalTurnAttempts.consumed; 0 is no entry
    cold,       \* the probe interval has passed since the last attempt
    held        \* attempts each request has made and not given back; the code does not add them up

request == <<pin, anchor, shape, needs>>
attempt == <<acct, body, kind, onErr>>
loop == <<rung, tried, capOnly, rides>>
session == <<owner, sticky, anchors, maker>>
budget == <<consumed, cold, held>>
vars == <<pc, request, attempt, loop, said, session, budget>>

Steps == {"idle", "route", "try", "sent", "stream", "ended", "starving", "wait", "sleep"}
Handlers == {"ladder",   \* the remedies of RouteDecision::Route
             "loop",     \* run_failover_loop
             "surface",  \* the client is told
             "cyber",    \* the same, after reroute_cyber_rejection
             "last"}     \* the same, after a rejected anchor was dropped
Errors == {"auth",       \* 401
           "poison",     \* is_unresendable_history_code, a 400
           "bad",        \* any other 400
           "capacity",   \* is_transient_capacity_refusal
           "retry",      \* 429, 5xx, 403, 408, model_not_found, dead credentials
           "final"}      \* any other status, a transport failure

Init ==
    /\ pc = [r \in Requests |-> "idle"]
    /\ pin = [r \in Requests |-> NoAccount]
    /\ anchor = [r \in Requests |-> NoResponse] /\ shape = [r \in Requests |-> "full"]
    /\ needs = [r \in Requests |-> FALSE]
    /\ acct = [r \in Requests |-> NoAccount] /\ body = [r \in Requests |-> "plain"]
    /\ kind = [r \in Requests |-> "completed"] /\ onErr = [r \in Requests |-> "surface"]
    /\ rung = [r \in Requests |-> 0] /\ tried = [r \in Requests |-> {}]
    /\ capOnly = [r \in Requests |-> TRUE] /\ rides = [r \in Requests |-> 0]
    /\ said = [r \in Requests |-> NoResponse]
    /\ owner = NoAccount /\ sticky = FALSE
    /\ anchors = [x \in Responses |-> NoAccount] /\ maker = [x \in Responses |-> NoAccount]
    /\ consumed = 0 /\ cold = FALSE /\ held = [r \in Requests |-> 0]

Issued == {x \in Responses : maker[x] # NoAccount}
(***************************************************************************)
(* The attempt budget of the logical turn.  Every step of a request moves  *)
(* it in one of four ways.                                                 *)
(***************************************************************************)
MayConsume == consumed < Limit \/ cold

\* An exhausted budget that is cold grants one probe, and stays exhausted.
Consume(r) ==
    /\ consumed' = IF consumed < Limit THEN consumed + 1 ELSE consumed
    /\ cold' = FALSE
    /\ held' = [held EXCEPT ![r] = held[r] + 1]

\* n calls of refund_logical_turn_attempt. Whose attempt the entry loses is not known to it.
GiveBack(n) ==
    /\ consumed' = IF consumed > n THEN consumed - n ELSE 0
    /\ cold' = (cold /\ consumed > n)

Refund(r, n) ==
    /\ GiveBack(n)
    /\ held' = [held EXCEPT ![r] = held[r] - n]

\* The same when the request is over; what it still holds stays charged.
Settle(r, n) ==
    /\ GiveBack(n)
    /\ held' = [held EXCEPT ![r] = 0]

\* clear_logical_turn_attempts, or the entry's time to live
NewWindow == consumed' = 0 /\ cold' = FALSE

\* LOGICAL_TURN_PROBE_INTERVAL_SECS since the last attempt
CoolDown ==
    /\ consumed = Limit /\ ~cold
    /\ cold' = TRUE
    /\ UNCHANGED <<pc, request, attempt, loop, said, session, consumed, held>>

Expire ==
    /\ consumed > 0 /\ NewWindow
    /\ UNCHANGED <<pc, request, attempt, loop, said, session, held>>

(***************************************************************************)
(* Building blocks.                                                        *)
(***************************************************************************)
Goto(r, step) == pc' = [pc EXCEPT ![r] = step]

\* Request r is answered: what the frames of its handler held is gone.
Answer(r) ==
    /\ Goto(r, "idle")
    /\ pin' = [pin EXCEPT ![r] = NoAccount]
    /\ anchor' = [anchor EXCEPT ![r] = NoResponse] /\ shape' = [shape EXCEPT ![r] = "full"]
    /\ needs' = [needs EXCEPT ![r] = FALSE]
    /\ acct' = [acct EXCEPT ![r] = NoAccount] /\ body' = [body EXCEPT ![r] = "plain"]
    /\ kind' = [kind EXCEPT ![r] = "completed"] /\ onErr' = [onErr EXCEPT ![r] = "surface"]
    /\ rung' = [rung EXCEPT ![r] = 0] /\ tried' = [tried EXCEPT ![r] = {}]
    /\ capOnly' = [capOnly EXCEPT ![r] = TRUE] /\ rides' = [rides EXCEPT ![r] = 0]
    /\ said' = [said EXCEPT ![r] = NoResponse]

\* Its next attempt goes to a with body b; k says what its completion means, e who handles a refusal.
Plan(r, a, b, k, e) ==
    /\ Goto(r, "try")
    /\ acct' = [acct EXCEPT ![r] = a] /\ body' = [body EXCEPT ![r] = b]
    /\ kind' = [kind EXCEPT ![r] = k] /\ onErr' = [onErr EXCEPT ![r] = e]

\* It has none under way; b is what the next one will send.
NoAttempt(r, b) ==
    /\ acct' = [acct EXCEPT ![r] = NoAccount] /\ body' = [body EXCEPT ![r] = b]
    /\ kind' = [kind EXCEPT ![r] = "completed"] /\ onErr' = [onErr EXCEPT ![r] = "surface"]

KeepLoop == UNCHANGED loop

\* The failover loop, if it was entered, is over but for the accounts it tried.
LeaveLoop(r, ts) ==
    /\ rung' = [rung EXCEPT ![r] = 0] /\ tried' = [tried EXCEPT ![r] = ts]
    /\ capOnly' = [capOnly EXCEPT ![r] = TRUE] /\ rides' = [rides EXCEPT ![r] = 0]
Steady == UNCHANGED <<request, said, session>>

\* What selector.pick may return for r: the capability filter comes before everything.
Allowed(r) == IF needs[r] THEN Authorized ELSE Accounts

Armed(r) == anchor[r] # NoResponse
Resendable(r) == Armed(r) /\ shape[r] = "full"     \* RecoveryPlan::ResendFull
Verbatim(r) == IF Armed(r) THEN "anchored" ELSE "plain"

(***************************************************************************)
(* prepare, and the route decision.                                        *)
(***************************************************************************)

\* The owner a turn is pinned to: the anchor map wins over the session row.
Resolved(x) == IF x # NoResponse /\ anchors[x] # NoAccount THEN anchors[x] ELSE owner

\* The client names any response it has read, even one whose completion is not recorded yet.
Begin(r) ==
    /\ pc[r] = "idle"
    /\ \E x \in Issued \cup {NoResponse}, s \in {"full", "tail"}, c \in BOOLEAN :
         /\ x = NoResponse => s = "full"
         /\ anchor' = [anchor EXCEPT ![r] = x] /\ shape' = [shape EXCEPT ![r] = s]
         /\ pin' = [pin EXCEPT ![r] = Resolved(x)]
         /\ needs' = [needs EXCEPT ![r] = sticky \/ c]
    /\ Goto(r, "route")
    /\ UNCHANGED <<attempt, loop, said, session, budget>>

\* RouteDecision::Route: the pinned owner, or any account when there is none.
RouteOwner(r) ==
    /\ pc[r] = "route"
    /\ \E a \in Allowed(r) :
         /\ pin[r] \in {NoAccount, a}
         /\ Plan(r, a, Verbatim(r), "completed", "ladder")
    /\ KeepLoop /\ Steady /\ UNCHANGED budget

\* RouteDecision::Recover with a full resend: the anchor is dropped.
RecoverElsewhere(r) ==
    /\ pc[r] = "route" /\ pin[r] # NoAccount /\ Resendable(r)
    /\ \E a \in Allowed(r) \ {pin[r]} : Plan(r, a, "plain", "recovered", "loop")
    /\ KeepLoop /\ Steady /\ UNCHANGED budget

\* RouteDecision::Recover without an anchor: the turn runs beside its pin.
Spill(r) ==
    /\ pc[r] = "route" /\ pin[r] # NoAccount /\ ~Armed(r)
    /\ \E a \in Allowed(r) \ {pin[r]} : Plan(r, a, "plain", "completed", "loop")
    /\ KeepLoop /\ Steady /\ UNCHANGED budget

\* RouteDecision::Recover with a tail: the client is told to resend. Nothing is sent.
SignalClient(r) ==
    /\ pc[r] = "route" /\ pin[r] # NoAccount /\ Armed(r) /\ shape[r] = "tail"
    /\ Answer(r) /\ Settle(r, 0)
    /\ UNCHANGED session

\* Mutant: what waits for an account is the body of the client, its anchor included.
StarvingBodyVerbatim(r) == Verbatim(r)

\* What waits for an account: a pinned turn loses its anchor, one nobody is known to own keeps it.
StarvingBody(r) == IF pin[r] = NoAccount THEN Verbatim(r) ELSE "plain"

\* The selector finds nobody.
Starve(r) ==
    /\ pc[r] = "route"
    /\ pin[r] = NoAccount \/ Resendable(r) \/ ~Armed(r)
    /\ Goto(r, "starving")
    /\ NoAttempt(r, StarvingBody(r))
    /\ UNCHANGED <<loop, budget>> /\ Steady

(***************************************************************************)
(* Nobody is eligible: serve the soonest in error backoff now, or wait for *)
(* the soonest to cool down behind a 200 and select afresh.                *)
(***************************************************************************)
ServeSoonest(r) ==
    /\ pc[r] = "starving"
    /\ \E a \in Allowed(r) \ tried[r] : Plan(r, a, body[r], "recovered", "surface")
    /\ LeaveLoop(r, {}) /\ Steady /\ UNCHANGED budget

AwaitCooldown(r) ==
    /\ pc[r] = "starving" /\ Allowed(r) \ tried[r] # {}
    /\ Goto(r, "wait")
    /\ LeaveLoop(r, {})
    /\ UNCHANGED <<attempt, budget>> /\ Steady

\* Mutant: the selection after the wait starts from a fresh context.
WakeUpAnywhere(r) ==
    /\ pc[r] = "wait"
    /\ \E a \in Accounts : Plan(r, a, body[r], "recovered", "surface")
    /\ KeepLoop /\ Steady /\ UNCHANGED budget

\* The accounts this request already tried are not excluded here.
WakeUp(r) ==
    /\ pc[r] = "wait"
    /\ \E a \in Allowed(r) : Plan(r, a, body[r], "recovered", "surface")
    /\ KeepLoop /\ Steady /\ UNCHANGED budget

GiveUp(r) ==
    /\ pc[r] \in {"starving", "wait"}
    /\ Answer(r) /\ Settle(r, 0)
    /\ UNCHANGED session

(***************************************************************************)
(* One attempt.                                                            *)
(***************************************************************************)

\* No credential, or no lease: a local refusal, answered at once. A remedy of the ladder and the
\* retry of a rejected anchor already hold what they need.
LocalRefusal(r) ==
    /\ pc[r] = "try" /\ onErr[r] # "last" /\ rung[r] = 0
    /\ Answer(r) /\ Settle(r, 0)
    /\ UNCHANGED session

\* consume_logical_turn_attempt, then Executor::execute
Send(r) ==
    /\ pc[r] = "try" /\ MayConsume /\ Consume(r)
    /\ Goto(r, "sent")
    /\ UNCHANGED <<attempt, loop>> /\ Steady

\* AttemptBudgetExhausted is surfaced wherever it happens.
Exhausted(r) ==
    /\ pc[r] = "try" /\ ~MayConsume
    /\ Answer(r) /\ Settle(r, 0)
    /\ UNCHANGED session

\* The stream is handed to the client, and keeps the account, the kind and the pin only. A move for
\* a capability is stamped on the session first.
Streams(r) ==
    /\ pc[r] = "sent"
    /\ Goto(r, "stream")
    /\ sticky' = (sticky \/ onErr[r] = "cyber")
    /\ anchor' = [anchor EXCEPT ![r] = NoResponse] /\ shape' = [shape EXCEPT ![r] = "full"]
    /\ needs' = [needs EXCEPT ![r] = FALSE]
    /\ pin' = [pin EXCEPT ![r] = IF kind[r] = "recovered" THEN NoAccount ELSE pin[r]]
    /\ body' = [body EXCEPT ![r] = "plain"] /\ onErr' = [onErr EXCEPT ![r] = "surface"]
    /\ LeaveLoop(r, {})
    /\ held' = [held EXCEPT ![r] = 0]
    /\ UNCHANGED <<acct, kind, said, owner, anchors, maker, consumed, cold>>

\* The watchdog is armed while the attempt carries the anchor and the ladder waits for it.
Watched(r) == pc[r] = "sent" /\ onErr[r] = "ladder" /\ body[r] = "anchored"

\* recover_from_silence: the dead stream is dropped, and the turn sent again without its anchor
\* to the same account, as another attempt.
ResendAfterSilence(r) ==
    /\ Watched(r) /\ shape[r] = "full" /\ MayConsume
    /\ Consume(r)
    /\ body' = [body EXCEPT ![r] = "plain"] /\ kind' = [kind EXCEPT ![r] = "recovered"]
    /\ UNCHANGED <<pc, acct, onErr, loop>> /\ Steady

\* The same for a tail, or without budget: the client is told.
GiveUpAfterSilence(r) ==
    /\ Watched(r) /\ (shape[r] = "tail" \/ ~MayConsume)
    /\ Answer(r) /\ Settle(r, 0)
    /\ UNCHANGED session

\* reroute_cyber_rejection: a full resend moves to an authorized account.
MoveForCapability(r) ==
    /\ Watched(r) /\ shape[r] = "full"
    /\ \E a \in Authorized : Plan(r, a, "plain", "recovered", "cyber")
    /\ needs' = [needs EXCEPT ![r] = TRUE]
    /\ LeaveLoop(r, {})
    /\ UNCHANGED <<pin, anchor, shape, said, session, budget>>

NoMoveForCapability(r) ==
    /\ Watched(r)
    /\ Answer(r) /\ Settle(r, 0)
    /\ UNCHANGED session

(***************************************************************************)
(* The upstream refuses with error e before a byte reached the client: the *)
(* ladder of RouteDecision::Route in the order of the code.                *)
(***************************************************************************)
Laddered(r) == pc[r] = "sent" /\ onErr[r] = "ladder"

\* Foreign reasoning items are taken out of the history, and the turn is sent again.
Rewrite(r) ==
    /\ Laddered(r) /\ rung[r] = 0
    /\ Refund(r, 1)
    /\ Plan(r, acct[r], Verbatim(r), "completed", "ladder")
    /\ rung' = [rung EXCEPT ![r] = 1]
    /\ UNCHANGED <<tried, capOnly, rides>> /\ Steady

\* The rewritten turn gets no lease. Its attempt was given back, and is given back again when the
\* anchor is dropped next.
RewriteUnleased(r) ==
    /\ Laddered(r) /\ rung[r] = 0
    /\ IF Resendable(r)
       THEN /\ Refund(r, 2)
            /\ Plan(r, acct[r], "plain", "recovered", "last")
            /\ KeepLoop /\ Steady
       ELSE /\ Answer(r) /\ Settle(r, 1)
            /\ UNCHANGED session

\* Mutant: the refresh after a 401 is not limited to one.
ReauthorizeAgain(r) ==
    /\ Laddered(r) /\ rung[r] <= 2
    /\ Refund(r, 1)
    /\ Plan(r, acct[r], Verbatim(r), "completed", "ladder")
    /\ rung' = [rung EXCEPT ![r] = 2]
    /\ UNCHANGED <<tried, capOnly, rides>> /\ Steady

\* A 401: the attempt is given back, the credential refreshed, the turn sent again.
Reauthorize(r) ==
    /\ Laddered(r) /\ rung[r] < 2
    /\ Refund(r, 1)
    /\ Plan(r, acct[r], Verbatim(r), "completed", "ladder")
    /\ rung' = [rung EXCEPT ![r] = 2]
    /\ UNCHANGED <<tried, capOnly, rides>> /\ Steady

\* The refresh or the lease after it fails.
NotReauthorized(r) ==
    /\ Laddered(r) /\ rung[r] < 2
    /\ Answer(r) /\ Settle(r, 1)
    /\ UNCHANGED session

\* A 400 to an anchored full resend: the anchor is dropped, on the same account.
DropAnchor(r) ==
    /\ Laddered(r) /\ Resendable(r)
    /\ Refund(r, 1)
    /\ Plan(r, acct[r], "plain", "recovered", "last")
    /\ KeepLoop /\ Steady

\* A 401 the store has no newer credential for was given back, and is a refusal like any other.
GivenBack(r, e) == IF Laddered(r) /\ e = "auth" /\ rung[r] < 2 THEN 1 ELSE 0

\* Who has no remedy left for e tells the client.
Surfaces(r, e) ==
    \/ onErr[r] \in {"surface", "cyber", "last"}
    \/ onErr[r] = "ladder" /\ Armed(r) /\ (e \in {"bad", "poison"} => shape[r] = "tail")

Surface(r, e) ==
    /\ pc[r] = "sent" /\ Surfaces(r, e)
    /\ Answer(r) /\ Settle(r, GivenBack(r, e))
    /\ UNCHANGED session

(***************************************************************************)
(* run_failover_loop: a refused attempt without an anchor.                 *)
(***************************************************************************)
\* Mutant: an anchored turn fails over as well.
FailsOverAll(r) == pc[r] = "sent" /\ onErr[r] \in {"loop", "ladder"}

FailsOver(r) == pc[r] = "sent" /\ (onErr[r] = "loop" \/ (onErr[r] = "ladder" /\ ~Armed(r)))

AttemptsLeft(r) == Cardinality(tried[r]) + 1 < Limit
Retryable(e) == e \in {"auth", "capacity", "retry"}
StillCapacity(r, e) == capOnly[r] /\ e = "capacity"
Refusers(r) == tried[r] \cup {acct[r]}

\* failover_verdict is Surface; a round that met nothing but capacity is given back.
StopFailover(r, e) ==
    /\ FailsOver(r) /\ (~AttemptsLeft(r) \/ ~Retryable(e))
    /\ Answer(r)
    /\ Settle(r, IF StillCapacity(r, e) /\ ~AttemptsLeft(r) THEN Cardinality(Refusers(r))
                 ELSE GivenBack(r, e))
    /\ UNCHANGED session

\* The next account of the round.
FailOver(r, e) ==
    /\ FailsOver(r) /\ AttemptsLeft(r) /\ Retryable(e)
    /\ \E a \in Allowed(r) \ Refusers(r) : Plan(r, a, "plain", "recovered", "loop")
    /\ tried' = [tried EXCEPT ![r] = Refusers(r)]
    /\ capOnly' = [capOnly EXCEPT ![r] = StillCapacity(r, e)]
    /\ rung' = [rung EXCEPT ![r] = 0]
    /\ Refund(r, GivenBack(r, e))
    /\ UNCHANGED rides /\ Steady

\* No account is left, and not every refusal was about capacity.
RunDry(r, e) ==
    /\ FailsOver(r) /\ AttemptsLeft(r) /\ Retryable(e) /\ ~StillCapacity(r, e)
    /\ Goto(r, "starving")
    /\ NoAttempt(r, "plain")
    /\ LeaveLoop(r, Refusers(r))
    /\ Refund(r, GivenBack(r, e))
    /\ Steady

\* Mutant: the accounts of the refused round stay excluded, and are given back again.
RideOutKeepsTried(r, e) ==
    /\ FailsOver(r) /\ AttemptsLeft(r) /\ StillCapacity(r, e) /\ rides[r] < MaxRides
    /\ Refund(r, Cardinality(Refusers(r)))
    /\ Goto(r, "sleep")
    /\ tried' = [tried EXCEPT ![r] = Refusers(r)] /\ rides' = [rides EXCEPT ![r] = rides[r] + 1]
    /\ rung' = [rung EXCEPT ![r] = 0]
    /\ NoAttempt(r, "plain")
    /\ UNCHANGED capOnly /\ Steady

\* Every account refused for capacity: give the round back, sleep, and knock again on all of them.
RideOut(r, e) ==
    /\ FailsOver(r) /\ AttemptsLeft(r) /\ StillCapacity(r, e) /\ rides[r] < MaxRides
    /\ Refund(r, Cardinality(Refusers(r)))
    /\ Goto(r, "sleep")
    /\ tried' = [tried EXCEPT ![r] = {}] /\ rides' = [rides EXCEPT ![r] = rides[r] + 1]
    /\ rung' = [rung EXCEPT ![r] = 0]
    /\ NoAttempt(r, "plain")
    /\ UNCHANGED capOnly /\ Steady

\* capacity_refused_everywhere: no time left to sleep
RefusedEverywhere(r, e) ==
    /\ FailsOver(r) /\ AttemptsLeft(r) /\ StillCapacity(r, e)
    /\ Answer(r) /\ Settle(r, Cardinality(Refusers(r)))
    /\ UNCHANGED session

Knock(r) ==
    /\ pc[r] = "sleep"
    /\ \E a \in Allowed(r) : Plan(r, a, "plain", "recovered", "loop")
    /\ KeepLoop /\ Steady /\ UNCHANGED budget

NobodyHome(r) ==
    /\ pc[r] = "sleep"
    /\ Answer(r) /\ Settle(r, 0)
    /\ UNCHANGED session

Refused(r) ==
    \E e \in Errors :
      \/ e = "poison" /\ (Rewrite(r) \/ RewriteUnleased(r))
      \/ e = "auth" /\ (Reauthorize(r) \/ NotReauthorized(r))
      \/ e \in {"bad", "poison"} /\ DropAnchor(r)
      \/ Surface(r, e) \/ StopFailover(r, e) \/ FailOver(r, e)
      \/ RunDry(r, e) \/ RideOut(r, e) \/ RefusedEverywhere(r, e)

(***************************************************************************)
(* The stream (ObservingStream).                                           *)
(***************************************************************************)

\* response.completed passes: the budget is cleared at its sighting.
Sighted(r) ==
    /\ pc[r] = "stream"
    /\ Goto(r, "ended")
    /\ NewWindow
    /\ \/ \E x \in Responses \ Issued :
            /\ said' = [said EXCEPT ![r] = x] /\ maker' = [maker EXCEPT ![x] = acct[r]]
       \/ UNCHANGED <<said, maker>>
    /\ UNCHANGED <<request, attempt, loop, owner, sticky, anchors, held>>

\* record_completion is fenced by the pin of the turn, record_recovery is not.
Claims(r) == kind[r] = "recovered" \/ pin[r] \in {NoAccount, acct[r]}

\* Mutant: an end without a response id moves the owner all the same.
RecordedBlind(r) ==
    /\ pc[r] = "ended"
    /\ owner' = IF Claims(r) THEN acct[r] ELSE owner
    /\ anchors' = IF said[r] = NoResponse THEN anchors ELSE [anchors EXCEPT ![said[r]] = acct[r]]
    /\ Answer(r) /\ Settle(r, 0)
    /\ UNCHANGED <<sticky, maker>>

\* The stream ends after it: the outcome is written before the client sees the end.
Recorded(r) ==
    /\ pc[r] = "ended"
    /\ IF said[r] = NoResponse THEN UNCHANGED <<owner, anchors>>
       ELSE /\ owner' = IF Claims(r) THEN acct[r] ELSE owner
            /\ anchors' = [anchors EXCEPT ![said[r]] = acct[r]]
    /\ Answer(r) /\ Settle(r, 0)
    /\ UNCHANGED <<sticky, maker>>

\* A failed or unfinished stream, an error in the middle, or the idle deadline.
Broken(r) ==
    /\ pc[r] \in {"stream", "ended"}
    /\ Answer(r) /\ Settle(r, 0)
    /\ UNCHANGED session

\* The client closes its connection: the handler or its stream is dropped where it stands.
ClientGone(r) ==
    /\ pc[r] # "idle"
    /\ Answer(r) /\ Settle(r, 0)
    /\ UNCHANGED session

Work(r) ==
    \/ RouteOwner(r) \/ RecoverElsewhere(r) \/ Spill(r) \/ SignalClient(r) \/ Starve(r)
    \/ ServeSoonest(r) \/ AwaitCooldown(r) \/ WakeUp(r) \/ GiveUp(r)
    \/ LocalRefusal(r) \/ Send(r) \/ Exhausted(r)
    \/ Streams(r) \/ ResendAfterSilence(r) \/ GiveUpAfterSilence(r)
    \/ MoveForCapability(r) \/ NoMoveForCapability(r) \/ Refused(r)
    \/ Knock(r) \/ NobodyHome(r)
    \/ Sighted(r) \/ Recorded(r) \/ Broken(r)

Next ==
    \/ \E r \in Requests : Begin(r) \/ Work(r) \/ ClientGone(r)
    \/ CoolDown \/ Expire

Spec == Init /\ [][Next]_vars

\* Handlers are polled; reads, refreshes, waits for leases and sleeps have deadlines.
FairSpec == Spec /\ \A r \in Requests : WF_vars(Work(r))

(***************************************************************************)
(* Properties.                                                             *)
(***************************************************************************)

\* Types of the variables.
TypeOK ==
    /\ pc \in [Requests -> Steps]
    /\ pin \in [Requests -> Accounts \cup {NoAccount}]
    /\ anchor \in [Requests -> Responses \cup {NoResponse}]
    /\ shape \in [Requests -> {"full", "tail"}] /\ needs \in [Requests -> BOOLEAN]
    /\ acct \in [Requests -> Accounts \cup {NoAccount}]
    /\ body \in [Requests -> {"anchored", "plain"}]
    /\ kind \in [Requests -> {"completed", "recovered"}]
    /\ onErr \in [Requests -> Handlers]
    /\ rung \in [Requests -> 0..2] /\ tried \in [Requests -> SUBSET Accounts]
    /\ capOnly \in [Requests -> BOOLEAN] /\ rides \in [Requests -> 0..MaxRides]
    /\ said \in [Requests -> Responses \cup {NoResponse}]
    /\ owner \in Accounts \cup {NoAccount} /\ sticky \in BOOLEAN
    /\ anchors \in [Responses -> Accounts \cup {NoAccount}]
    /\ maker \in [Responses -> Accounts \cup {NoAccount}]
    /\ consumed \in 0..Limit /\ cold \in BOOLEAN
    /\ held \in [Requests -> Int]

Trying(r) == pc[r] \in {"try", "sent"}

\* The anchor map names the account that produced a response, and an attempt that carries an anchor
\* goes to the account its turn is pinned to and to no other, whatever refused the turn before and
\* however long it waited: upstream keeps the conversation there only.
AnchorStaysHome ==
    /\ \A x \in Responses : anchors[x] \in {NoAccount, maker[x]}
    /\ \A r \in Requests :
         Trying(r) /\ body[r] = "anchored" => pin[r] \in {NoAccount, acct[r]}

\* The session points at an account that produced a recorded part of the conversation, whatever
\* order the turns that move it end in.
OwnerHoldsSome == owner # NoAccount => \E x \in Responses : anchors[x] = owner

\* A turn that needs the capability is never tried on an account without it, by any of the ways an
\* account is picked: the security floor.
FloorKept == \A r \in Requests : needs[r] /\ Trying(r) => acct[r] \in Authorized

\* A request gives back attempts it made and no others, and a round that met nothing but capacity
\* costs nothing: while it sleeps it holds none. The one exception is a turn whose anchor was dropped
\* after its rewrite got no lease.
RefundsItsOwn ==
    \A r \in Requests :
      /\ held[r] >= 0 \/ onErr[r] = "last"
      /\ pc[r] = "sleep" => held[r] = 0

\* A turn that is only the tail of a conversation is never moved to a second account.
TailStaysPut ==
    [][\A r \in Requests :
         Trying(r) /\ shape[r] = "tail" /\ Trying(r)' => acct'[r] = acct[r]]_vars

\* Every turn is answered: the remedies, rounds and waits are finitely many.
TurnEnds == \A r \in Requests : pc[r] # "idle" ~> pc[r] = "idle"

=============================================================================
