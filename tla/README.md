# PolyFlare: a TLA+ verification of the gateway

PolyFlare is a self-hosted Rust gateway: agent clients speak HTTP/SSE or WebSocket to it, it
selects one of a pool of upstream accounts, forwards the turn, and keeps the client's
conversation on the account that owns it. This directory holds TLA+ models of its stateful parts
(modules `*.tla`), the instances TLC checks (`MC*.tla`, `*.cfg`) and proofs for TLAPS
(`*Proofs.tla`). Every definition is translated from the source under `src/`; `PROJECT.json` maps
each one to its lines. Paths below are relative to `src/crates/polyflare-server/src/` unless they
say otherwise.

## 1. Inventory

| component | state | operations | hard behaviour | correct when |
|---|---|---|---|---|
| Admission (`runtime_state.rs`) | per account in-flight, pressure and socket counters; limits; `admission_changed` | five acquisition gates, guard drop, live limits | concurrent gates, wait/notify, limits replaced mid-gate | counters = live guards; caps and the owners' reserve hold; no waiter is stranded |
| Admission settings (`admission_api.rs`, `config.rs`, `main.rs`) | live limits, settings rows | PATCH, persist row by row, boot overlay | two PATCHes, crash between rows, clamp at one place only | a restart boots what the operator observed |
| Health and cooldowns (`runtime_state.rs`) | error counts, tiers, cooldowns, overload backoff | record_*, evaluate | expiry, streaks, flapping | a bench lasts as long as the longest reason |
| Cooldown persistence (`runtime_state.rs`, `usage_refresh.rs`) | pending map, channel, SQL row | enqueue, worker, shutdown flush | write coalescing, failed write, crash | the durable deadline reaches the runtime one |
| Token refresh (`reactive_auth.rs`, `ingress.rs`, `refresh_locks.rs`, `token_cache.rs`) | stored tokens, per-account lock, cached token, account status | proactive, reactive and sweep refresh, persist, replica gate | rotating refresh tokens: reuse kills the account; cancellation, crash, two processes | one refresh token is spent once; a spent token is never left in an active account |
| Circuit breaker (`network_recovery.rs`) | phase per origin | acquire, success, failure, permit drop | stale results, cancelled probe, waiters | a half-open circuit has its probe; waiters resume |
| Reset-credit redemption (`reset_credits.rs`, `polyflare-store/src/reset_credit_repo.rs`) | leases, request pins, results | fleet and native redeem, retry, replay | lease expiry, crash between consume and record, two workers | one request never spends two credits; a result never changes |
| Continuity (`continuity.rs`, `polyflare-store/src/continuity_repo.rs`, `watchdog.rs`) | session owner, anchor, recovery records | completion, recovery, prune | late completions, moves, recovery races | the owner is the account that serves the anchor |
| WebSocket relay (`ws_relay/`) | upstream leg, in-flight frame, commit barrier, replay budgets | client frame, upstream frame, redial, park | hidden replay, drop during a turn, account gate | nothing is replayed after the client saw output; an anchored turn stays with its anchor; every turn ends |
| Usage refresh (`runtime_state.rs`, `usage_refresh.rs`) | in-progress and dirty sets | request, finish, sweep | request during a refresh | a request is served by a refresh that starts after it |
| Turn attempt budget (`runtime_state.rs`) | attempts per logical turn | consume, refund, clear | eviction, refund after clear | bounded generations per turn |
| Failover (`failover.rs`, `ingress.rs`) | tried accounts, committed flag | attempt, reselect | commit barrier | no failover after commit; each account once |
| Watchdog (`watchdog.rs`) | stream phase, sniffed anchor | observe, recover, record | silence recovery racing a late answer | one answer is recorded |
| Caches (`account_cache.rs`, `token_cache.rs`) | generation, entry | read, rebuild, invalidate | rebuild racing an invalidation | no stale entry outlives its invalidation |
| Session governor (`session_governor.rs`) | sliding windows | check | eviction, limits at the cap | bounded requests per window |
| Custom providers (`custom_provider.rs`) | credential leases, affinity, weights | acquire, execute | credential failure, affinity expiry | a credential within its cap |
| Codex WebSocket client (`polyflare-codex/src/ws/`) | connection, turn state | connect, send, decode | idle reads, delta reuse | delta only against the last response |
| Onboarding and OAuth loopback (`account_onboarding.rs`, `oauth_loopback.rs`) | pending flows | start, callback, finish | duplicate callback, expiry | one flow yields one account |
| Replica pull (`replica_pull.rs`) | pulled snapshot | pull, install | partial pull | a replica never rotates |
| Store, request log, retention, dashboards, pricing, catalogs, passkeys | rows, views | CRUD, reports | | not modelled: storage and presentation |

Interaction: ingress asks continuity for the owner, the selector and admission for an account and
a lease, the token layer for a credential, the circuit breaker for permission, then streams; the
watchdog and the relay report completion to continuity, and outcomes to health, cooldowns and
usage refresh, which change what the selector accepts.

## 2. Plan

All of it is built. The order was that of what costs most when it goes wrong: slots and credentials,
then credits, then the conversation, then the bookkeeping around it.

| # | module | composes | abstract specification | questions of its runs | theorems |
|---|---|---|---|---|---|
| 1 | `Admission` | the two locks, the notify, the guards | | caps and reserve under concurrent gates and live limits; nobody stranded | types, counters and sums = guards, caps, reserve, waiters, updates |
| 2 | `TokenRefresh` | lock, stored row, cache, authorization server, replica, usage poll | | single use of rotating tokens under cancellation, crash, lost answers, failing writes | types, single flight, no false mark, cache, single use, marks, locks, row |
| 3 | `NetRecovery` | the retry loops of four callers over one circuit | | a probe while half open; waiters, deadlines, recovery | types, probe, waiters, backoff |
| 4 | `ResetCredits` | the calls of three handlers over the ledger and the provider | `Redemption` | one credit per operation whatever is repeated or lost | types, holders, the refinement, refusals, duplicates |
| 5 | `WsRelay` | client, upstream leg, ladder of remedies, account gate, socket slot | | drops, re-dials, refusals, moves, parked relays | types, turns, resends, replays, anchors, a bound on a turn's steps |
| 6 | `HttpTurn` | routing, ladder, failover loop, starvation layers, watchdog, attempt budget, session row and anchor map | | where an anchor may go, who owns a session after any order of completions, the security floor, refunds, termination | types, anchors, owner, floor, refunds, tails, a bound on a turn's steps |
| 7 | `Cooldowns` | health map, pending map, channel, worker, direct writes, shutdown flush, rows | | a bench that survives a stop, a queue that drains | types, nothing forgotten, benches survive |
| 8 | `Upkeep` | refresh requests, worker and sweep, other writers of the status, account gate, snapshot cache | | a refresh after every question, a cache that is never behind a counted write, a gate that heals | types, cache, requests |
| 9 | `Settings` | PATCHes, rows, boot | | the boot after any sequence of PATCHes | |

What is left is named in section 7 with its reason. Each module is written to be proved about:
constants with named assumptions, one action per operation, invariants as named conjunctions and no
recursive operator.

## 3. Modules

Every model is one instance of the component and the tasks that use it; a step is what the code
does without giving up a lock or awaiting. A comment before an action names the function it is, and
the map in `PROJECT.json` its lines. Operators whose comment begins with "Mutant" are plausible
bugs kept beside the definition they replace; no model uses them.

**`Admission`** (`runtime_state.rs`). The code has two locks: `inner` over the per-account
counters, held for the whole of a gate, and the limits cell, read afresh for each field. A gate is
therefore two steps, `Lock` and `Decide`, and `Decide` judges the request under a view of the limits
that switches from the old to the new value at an arbitrary read. The five gates are the operators
`TryOpen`, `SelectOpen`, `PinnedOpen`, `SelectWsOpen` and `PinnedWsOpen`. A waiter registers its
`Notified` before the check (`Register`), fails, waits (`Wake`), and gives up at its deadline
(`TimeoutOrCancel`). `DropGuard` and `NotifyDrop` are the two halves of a guard's drop, `SetLimits`
and `NotifySet` of a limits update. The set `eligible` stands for health, cooldowns and the
selector's pipeline and changes at will. A pressure sum is the number of units that guards hold
(`UnitsHeld`, `Total`), a unit being a guard with an index below its weight: a sum is then a
cardinality, which TLC evaluates and the library's theorems about finite sets reason about.

**`TokenRefresh`** (`ingress.rs`, `reactive_auth.rs`, `token_cache.rs`, `refresh_locks.rs`,
`replica_pull.rs`, `usage_refresh.rs`). One account. A token pair is its number in the order of
issue; presenting the refresh token of an older pair is `refresh_token_reused`. A task is a request
(`resolve_core_account`, and `force_refresh_after_unauthorized` once per request) or a sweep. The
stored row, its generation, the cache and the per-account lock exist per process. A replica's row is
written by a pull, which is a process of its own beside the serving one: it fetches the master's row,
compares, and writes (`PullFetch`, `PullCompare`, `PullWrite`), and the generation it bumps is not the
one the serving process looks at. Faults - cancelled futures, crashes, answers lost or unreadable
(`Unreadable`, an error without a code) before or after the server rotated, failing writes - are
counted and bounded. Two variables are ghosts: `unannounced` says that the last write of the row is
followed by no bump in the serving process (a pull's, or that of a request cancelled between commit
and bump), `blind` that the last mark was set on an unreadable answer.

**`NetRecovery`** (`network_recovery.rs`, with the retry loops of `control.rs`,
`custom_provider.rs`, `chatgpt_backend.rs` and `ws_relay/owner.rs`). The circuit of one origin.
Time is abstract: `due` says the retry time has passed, `expired` that a deadline has. What an
attempt finds is chosen when it reports, so a report may be older than the phase it meets; a permit
that is dropped without one reports by `Abandon`.

**`Redemption`** is what the reset-credit ledger promises: an operation (a native request; any
other request at one account) spends at most one credit, a credit is spent by at most one
operation, an outcome is final. **`ResetCredits`** (`reset_credits.rs`, `reset_credit_repo.rs`) is
how: calls as tasks, each step one store transaction or one upstream call; leases with a heartbeat,
pins, results, native rows; answers lost on the way, calls dropped, processes that sleep through
their lease, accounts deleted in flight. The provider is external: it may refuse a consume with
`no_credit` whether or not the credit is available, but not the request that has spent the credit
itself (it knows `redeem_request_id`), and a consume that timed out has been served by then or never
is. `Promise` maps `spent` to the credits the provider gave to
a request and `outcome` to the recorded code; the run checks it as the property `OneShot`, and the
theorem `Implements` proves it. A request id used by both interfaces at once is left out
(`NativeIds` and `DirectIds` are disjoint).

**`WsRelay`** (`ws_relay/`). One client connection and, after it closed, the next one of the same
client. The pump is a single task; `pc` is "wait" at its `select!` and "check" at the top of its
loop, and a handler that awaits (a dial, a send, a token refresh, a resolution) is split there, so
that an account can be gated in between: `Transmit` is one try of `send_client_text`, `Reopen` and
`Replay` the way back after a lost socket, `Refused` to `Surface` the ladder of remedies for a
refused turn in the order of the code (replay in place, retire the socket, rewrite, refresh, move,
retry, tell the client), `Handoff` is `on_upstream_error`. A frame is a delta, which names an anchor
that only the account of its last answer knows, or full. `did` collects the flags the pump resets
with each turn. Two variables are ghosts: `sends` counts how often the frame of the turn was sent,
`asked` says that the turn in flight went out on the live socket. The attempt budget grants or
refuses at will. Left out: client frames other than `response.create`, which are forwarded without a
lease and without a reset of the flags; frames of custom providers, which a bridge answers without this socket;
pings; the duplicate lifecycle frames a replay suppresses; a client that leaves in the middle of a
handler, which the model notices at the next wait; and the instant between the gate check and the
registration for its notification, in which a wakeup is lost.

**`HttpTurn`** (`ingress.rs`, `watchdog.rs`, `failover.rs`, `continuity.rs`, `runtime_state.rs`,
`polyflare-store/src/continuity_repo.rs`). A request is one call of
`responses_handler_impl_with_max_attempts` and the stream it returns; several run at once for one
session and one logical turn, over one session row and one anchor map. `Begin` is `prepare`: the pin
comes from the anchor map, then the session row, and the client may name a response whose completion
is not recorded yet. `RouteOwner`, `RecoverElsewhere`, `Spill`, `SignalClient` and `Starve` are the
route decision; `ServeSoonest`, `AwaitCooldown`, `WakeUp` and `GiveUp` the two layers that serve a
starving turn. `Send` takes an attempt from the budget of the logical turn and executes it. A watched
attempt can fall silent (`ResendAfterSilence`, `GiveUpAfterSilence`) or be rejected for a capability
(`MoveForCapability`); a refused one goes to its handler, `onErr`: the ladder of remedies in the
order of the code (`Rewrite`, `Reauthorize`, `DropAnchor`, `Surface`), or the failover loop with its
rounds and ride-outs (`FailOver`, `RideOut`, `RunDry`, `StopFailover`, `RefusedEverywhere`). `Sighted`
is `response.completed` passing through, `Recorded` the end of the stream that writes the outcome:
fenced by the pin for a completion, unfenced for a recovery. Which accounts are eligible is a choice
of every pick, so what a pick keeps to (pin, capability, accounts tried) is explicit. `held` and
`maker` are ghosts: the attempts a request has made and not given back, and who made a response.

**`Cooldowns`** (`runtime_state.rs`, `usage_refresh.rs`, `ingress.rs`, `main.rs`,
`polyflare-store/src/account.rs`). A refused request benches its account under the lock of the health
map (`Bench`), queues the deadline outside it (`Insert`), and wakes the worker if it was the first
(`Wake`); HTTP refusals also write the row themselves, before (429) or after (quota). The worker is
`Receive`, `Stored` or `WorkerFails`, `WorkerDone`, `Retry`. A stop flushes in snapshots until nothing
is queued (`FlushSnapshot` to `Flushed`) while turns that outlived the drain still record; an error
ends it (`FlushFails`), and a crash loses the queue. Accounts can be deleted at any point, which makes
their writes fail for ever. `promised` and `shortened` are ghosts. A deadline is a number that is
compared and never reached.

**`Upkeep`** (`usage_refresh.rs`, `runtime_state.rs`, `account_cache.rs`, `write_api.rs`,
`reactive_auth.rs`). One account. Requests for a refresh insert a key, mark it dirty and wake the
worker; worker and sweep read the row, poll, write the status unconditionally, then count the write
(`bump_generation`) and tell the gate in one step (`Tell`). Operators and failed token refreshes write
the same row (`Edit`), count and tell afterwards, or never (`EditorGone`); of those that mark
`reauth_required` the request path tells the gate, even of a mark that could not be written
(`MarkFails`), and `reactive_auth` does not. Readers and pollers queue
at the rebuild lock; `Enter` reads the count, `List` the rows, `Install` stores the entry with the
count of `Enter`. `want`, `was` and `lost` are ghosts: that a refresh was asked for and not begun, and
which statuses were replaced without being counted. A poll that writes does so by the row it read:
the effect on a status somebody else wrote in between is in section 8.

**`Settings`** (`admission_api.rs`, `config.rs`, `main.rs`). Overlapping PATCHes of the live limits:
copy, set (clamped), persist the fields that were named row by row, with failures; a restart lays the
rows over the environment's limits. One cap and the reserve clamped by it stand for the eight limits.

## 4. Runs

| run | instance | shows |
|---|---|---|
| `AdmissionCaps` | 2 accounts, 3 callers of any kind and lane (6 profiles), 5 limit sets, no update; 2.4 M states | counters and pressure sums are the live guards (`GuardsAccounted`); `CapsHold`, `ReserveKeptForOwners`, `NoStrandedWaiter` |
| `AdmissionLive` | 2 callers, one update of the limits at any point, fairness; 98 k states | `AdmittedWithinACap`, `EveryCallAnswered` |
| `TokenFaults` | one master, 2 tasks, 1 rotation and one of each fault (a cancelled request, a crash, a lost and an unreadable answer), 2 failing writes; 3.5 M states | `SingleFlight`, `NeverReused`, `SpentIsMarked`, `CacheHoldsStored`, `NoFalseReauth` |
| `TokenProgress` | master and replica, 2 tasks, pulls at any time, no faults, fairness; 137 k states | `RequestsAnswered`, `StaleIsReplaced` |
| `NetCircuit` | 3 callers, one of them unreplayable, 3 delays, fairness; 27 k states | `HalfOpenHasProbe`, `NoStrandedWaiter`, `BackoffIsTheProbes`, `DeadlineEndsCall`, `Recovers` |
| `ResetCredits` | 2 calls, 2 accounts with 2 and 1 credits, one native and one direct id; 1.9 M states | `OneShot` (the refinement of `Redemption`), `NoCreditIsUnspent`, `AnsweredNotResent`, `HolderUnderWay` |
| `WsRelay` | 3 accounts, 3 reconnects, 2 retries, fairness; 2.8 M states | `NoReplayAfterOutput`, `AnchorStaysHome`, `ResendsCounted`, `TurnsAgree`, `ServedByAccount`, `TurnEnds` |
| `HttpTurn` | 2 requests of one session, 2 accounts, one of them authorized, 1 response, 2 attempts, 1 ride-out; 1.1 M states | `AnchorStaysHome`, `OwnerHoldsSome`, `FloorKept`, `TailStaysPut` |
| `HttpTurnDeep` | 1 request, 3 accounts, two authorized, 3 attempts, 2 ride-outs, fairness; 22 k states | `RefundsItsOwn`, `TurnEnds` |
| `Cooldowns` | 2 accounts; one request refused for longer by HTTP or for a quota, one for less by a stream; 1 fault, 1 restart, fairness; 813 k states | `NoForgottenDeadline`, `BenchSurvives`, `QueueDrains` |
| `Upkeep` | 1 requester, 1 reader, worker and sweep, 1 edit, 1 change of usage or failed poll, fairness; 1.0 M states | `CacheIsCurrent`, `RefreshFollows`, `GateHeals` |
| `SettingsBoot` | expected violation | finding: a clamped reserve is not persisted, and the next boot's limits are not those the operator observed |

Type invariants are not in the runs: they are proved (section 6).

Why the bounds are enough. Admission: three callers fill a cap of two and leave one waiting, which
is the least for a lost wakeup between two guards; profiles of one and two pressure units separate
units from slots. Tokens: a spent pair, its successor and one that tries to spend it again need two
tasks and one rotation; `PersistMaxAttempts` = 2 tells the last failing write from the others.
Circuit: a stale reporter, a probe and a waiter are three callers; three delays separate the first,
a middle and the capped one. Credits: the call that is overtaken and the one that overtakes are two
tasks, and two credits of one account are needed for a repetition to select another. Relay: an
account that overloads, the one the turn moves to and one more to move to; three reconnects let a
turn be replayed in place, moved and retried before the counter overflows (the code has 5); two
retries are the code's. HTTP turns: the races are between a turn that moves the session and one
pinned before it moved, which are two requests and two accounts; the response that is contended is
one. The lengths (a round that tries everybody, a second round, a ride-out after either) do not need a
second request and have an instance of their own with three accounts. Cooldowns: the worker's write
is overtaken by one refusal, and the flush by one more; two deadlines tell longer from shorter, and a
second account shows that a failing one does not hold it up. Upkeep: worker, sweep, a reader and an
editor already cross in every pair; one edit lets a write be lost, one upset lets the usage change or
a poll fail. Both bounds cap rare external events, and liveness is about what follows the last one.

Symmetry is used for callers, tasks and requests, in runs without temporal liveness only. All runs
check deadlock; none of the models stops.

## 5. Fairness

* `AdmissionLive`: callers are polled and deadlines come; nobody is forced to drop a guard, to update
  the limits or to recover an account.
* `TokenProgress`: tasks that have begun are polled; a tokio mutex is a FIFO queue, so each waiter is
  granted it in turn (strong fairness of `TakeLock`); the sweep comes round because its loop is a
  timer. Expiry, faults, pulls and new requests are not forced.
* `NetCircuit`: the retry time comes, attempts return and woken tasks are polled; requests, deadlines
  and cancellations are not forced, and `Recovers` assumes only that from some point no attempt fails
  or ends inconclusively.
* `WsRelay`: the pump is one task and its dials and sends have deadlines; the read of a turn in flight
  ends in a frame or at the stall deadline, and an upstream does not send metadata for ever; clients,
  gates and reconnections are not forced.
* `HttpTurnDeep`: a handler is polled until it answers; its reads, token refreshes, waits for a lease
  and sleeps have deadlines, and a stream has an idle one. Weak fairness is of a request's steps taken
  together, so nothing is assumed of which of them it takes: every refusal and every wait is allowed
  for ever. Clients need not leave, and the budget need not cool down.
* `Cooldowns`: code without an await runs on (`Recording`); the worker is a task of its own whose
  database answers, if only with an error. Failures of the database are bounded, those of a deleted
  account's row are not.
* `Upkeep`: worker and sweep are tasks of their own, whose polls time out and whose database answers;
  whoever holds the rebuild lock goes on or is dropped; a request that inserted a key sends its
  wake-up, there being no await in between. Edits, readers and expiry are not forced.

The ledger's and the settings' properties are safety properties and assume none.

## 6. Proofs

`tlapm` checks eight modules, about 8,400 obligations. Each theorem holds for every value of the
constants under the assumptions named in the module (`AdmissionConstants`, `TokenConstants`,
`NetConstants`, `CreditConstants`, `RelayConstants`, `TurnConstants`, `CooldownConstants`,
`UpkeepConstants`: types, and markers such as `None` outside the sets they mark).

* `AdmissionProofs`: all safety properties of the gates. `TypeCorrect` and `CountersAreGuards` are
  proved together: the counters are naturals only because nobody releases what was not counted.
  `GuardsAreAccounted` adds the pressure sums, in units: a guard carries the weight it was counted
  with, so that a drop takes away what its admission added, whatever the calibration is by then.
  `CapsAreKept` and `ReserveIsKept` follow from that, per account and over the process: a gate decides
  by counters that are the guards, and only `Decide` adds one. `ReserveIsKept` needs `WithinOrdinary`,
  which counts ordinary guards apart from the owners', because owners may fill what ordinary work left.
  `NobodyIsStranded`: whatever makes room (a drop, an update of the limits) owes a notification until
  it is sent, and the one sent wakes everybody registered; any other step leaves the counters at least
  as high, and then no closed gate opens (`OpenAntitone`). `AdmissionsAreWithinACap` is an action
  property: whichever mixture of two limits a gate has read, the comparison it passed used the cap of
  one of them.
* `TokenRefreshProofs`: `TypeCorrect`; `RefreshesExclusive` (whoever is past the lock is its only
  holder, with cancellations and crashes); `NeverFalselyMarked` (the master is marked
  `reauth_required` only when its stored pair is spent or an answer was unreadable), by an invariant on
  what each refresh has presented and been told; `CacheIsCurrent`, on replicas too, because a row is
  cached under the generation read before it and served while that is the store's: a write of the row
  moves it, or is between commit and bump, or is one of the two that nobody announces (`unannounced`),
  which the theorem excepts until the next bump or restart of the process;
  `NoTokenTwice` and `SpentPairIsMarked`, under `ServedByMaster`; `NoLockLeftBehind` (`LocksHeld`, the
  safety half of `RequestsAnswered`: a lock that is taken is held by a refresh under way);
  `RowNeverGoesBack` (`RowAdvances`: no write, however late, puts an older pair over a newer one).
  `ServedByMaster` says that all tasks run on the master. It is a hypothesis about the deployment, which
  the runs with one node meet, and it is needed: a replica's request path rotates without the check
  that keeps its sweeps from it (section 8), and two processes share no lock.
* `NetRecoveryProofs`: `TypeCorrect`; `ProbeUnderWay`; `NobodyStranded`; `OnlyProbesBackOff`. The
  invariant ties a half-open circuit to the permit whose number is its failure count.
* `ResetCreditsProofs`: `TypeCorrect`; `HoldersUnderWay`; `LedgerBound`, the invariant of the
  refinement; `Implements`, that `ResetCredits` implements `Redemption`. The argument: whoever asks
  the provider asks for the credit its request is pinned to, as long as the account is there; when
  the pins are deleted with their account nobody can pin again, and calls already on their way
  agree on their credit (`SameCredit`) and on the one their request has spent (`CallBound`). The
  lease plays no part: the promise survives two holders at once. What the lease is for are
  `RefusedIsUnspent` and `DuplicatesReplay`: as long as no process sleeps through one, the calls of
  an account follow each other (`OneAtATime`), so whoever holds the lease has read every result before
  it, and an attempt that was told `no_credit`, by the gateway or by the provider, left none behind
  that could still spend. `RefusedIsUnspent` uses what section 3 assumes of the provider.
* `WsRelayProofs`: all safety properties of the relay that `WsRelay` checks (`TypeCorrect`,
  `TurnsAgreed`, `AccountServes`, `EveryResendCounted`, `OutputNotReplayed`, `AnchorsStay`) from one
  inductive invariant, because each leans on the others through where the pump is: the retries are
  bounded because the third rung is reached with one left, a resend after output is excluded because
  no step on the way to one has a client that reads, and an anchored turn stays because every move of
  it ends the turn or finds a signal outstanding. `TurnsAreBounded` and `TurnsRunDown` are the
  termination of a turn without its fairness: `StepsLeft` counts the reconnects left, then the place of
  the pump on the ladder, then what the client has not been shown; it never exceeds
  `7 * MaxReconnects + 13`, and every step of the pump or the upstream on a turn lowers it.
* `HttpTurnProofs`: all safety properties of the two HTTP runs (`TypeCorrect`, `AnchorsStay`,
  `OwnerHolds`, `FloorHolds`, `RefundsBalance`, `TailsStay`). The invariant says per request where
  each handler may stand: who carries the anchor is pinned or of unknown owner, who is in the loop has
  dropped it, a tail is never in the loop. Refunds balance because what a request holds is what its
  round has tried and the attempt under way, which `Refund` never exceeds; the one exception is named
  in the property. `OwnerHolds` rests on the response whose end moved the owner being in the map by
  then. `TurnsAreBounded` and `TurnsRunDown` say of a request what they say of the relay: at most
  `TurnSteps` steps are left, a number of the ride-outs and the attempt limit alone; each own step
  lowers it and no other request, nor the budget's cooling, raises it. A round cannot go on for ever
  because it tries an account at most once and takes an attempt for each (`RoundFits`).
* `CooldownsProofs`: `TypeCorrect`; `NeverForgotten` (`NoForgottenDeadline` is inductive once it is
  known where writers and requests stand); `BenchesSurvive`, by the invariant `Owed`: the promise to
  an account is in its row, or queued, or with a writer or flush that holds it, or with a request on
  its way to queue it.
* `UpkeepProofs`: `TypeCorrect`; `SnapshotsCurrent` (what a rebuild holds under an unchanged count is
  a status that is or was replaced by a write not counted yet, so what it installs is current);
  `NoRequestForgotten`, the safety half of `RefreshFollows`: while an account has a key there is
  exactly one wake-up for it, about to be sent, in the channel or with the worker, and in the last case
  the key of a refresh that was asked for and not begun is dirty unless the poll is still to come.

Every invariant and every step property of a passing run is stated by a theorem. Only model-checked
is liveness: `EveryCallAnswered`, `RequestsAnswered`, `StaleIsReplaced`, `DeadlineEndsCall`, `Recovers`,
both `TurnEnds`, `QueueDrains`, `RefreshFollows`, `GateHeals`. It rests on fairness, and so on ENABLED,
of which the provers know nothing: of `TurnEnds` the measure is proved, and that a turn with steps left
can take one is checked by TLC. `Settings` has no proof: its property does not hold.

## 7. Not modelled

* Health tiers, error counts, overload backoff, and the session governor's windows: arithmetic on
  clock times under one lock, by functions without an await. No step of another actor can come
  between, and a model without real time cannot tell their results apart. What they decide, whether an
  account is eligible, is an arbitrary choice in every model that asks.
* Custom providers: their credential leases are the counting pattern of `Admission` and their retry
  loop is a caller of `NetRecovery`; affinity, weights, budgets and discovery are data.
* Codex WebSocket client: one socket owned by one task; whether a delta may be sent is a comparison of
  request bodies. That anchored turns stay with their account is checked in `WsRelay` and `HttpTurn`.
* Onboarding: a flow is claimed by one conditional update of its row, so whoever comes second is
  turned away; the rest is the straight line of one task.
* Protocol translation, pricing, catalogs, dashboards, the request log and retention: transformation,
  storage and presentation of data. Rows and transactions are modelled where a component uses them.
  These files are most of the code base, which is why the map covers a small share of its lines.
* Passkeys and the operators' interfaces other than the PATCHes of accounts and limits.

Within the modelled components: of the permanent answers of the authorization server those that mark
an account `deactivated` (the account is dead, whatever its tokens); the ranking of accounts, which is an arbitrary choice; the 24 hours
after which the ledger forgets a request; the list of accounts a fleet request is pinned to; what
section 3 says `WsRelay` leaves out; in `HttpTurn` translated and custom models, `/compact`, `/models`
and the Anthropic route, which branch off before the conversation is looked up, item counts and
fingerprints that no decision reads, and the limit on the number of logical turns; in `Cooldowns` that
a deadline passes; in `Upkeep` usage windows, credits and plans, the second usage source and the reset
times of limits; telemetry; and real time, which is the choice of the step that says it has passed.

## 8. Disagreements met

The first is a run (the finding in `PROJECT.json`); the others were met while modelling.

Limits and admission:

* A PATCH persists the fields it names, although `set_admission_limits` may have clamped another: the
  overlay of the next boot (`main.rs:984`) runs after the clamp of the environment's values and is not
  clamped again, so that it does not boot "with the same effective limits the operator observed"
  (`admission_api.rs:132`).
* Two overlapping PATCHes copy, change and replace the limits without a lock (`admission_api.rs:126`):
  one's change is lost in memory while both are persisted.
* The owners' reserve is clamped below the request cap only (`runtime_state.rs:1167`), but
  `select_and_acquire_open_ws` subtracts it from the socket cap too (`runtime_state.rs:2358`): a
  reserve as large as that cap leaves new sockets none.
* A gate that reads the limits during an update can use the new cap with the old reserve; the
  account stays within one of the two caps (`AdmittedWithinACap`).
* A request whose estimate exceeds the process-wide pressure cap is never admitted while anything
  else is in flight; a caller waits out its deadline on an account that became ineligible.

Tokens and credits:

* A replica's request path refreshes a stale token (`ingress.rs:1012`) without the check of
  `reactive_auth.rs:51` and `main.rs:886`, and so rotates.
* A request cancelled between the exchange and the write leaves a spent token in an active account;
  the mark of `reactive_auth.rs:355` is reached by failing writes only.
* An answer of the authorization server that is no success and has no readable `error`, as a 500 or a
  proxy's HTML page (`polyflare-codex/src/oauth.rs:363`), marks the account `reauth_required` although
  its stored pair may still work (`ingress.rs:1080`, `reactive_auth.rs:315`), while
  `polyflare-codex/src/oauth.rs:56` says of a 5xx "Not a permanent failure (network / 5xx / unknown) —
  retry later". `NoFalseReauth` excepts it.
* A request cancelled between the commit of `update_tokens` and the bump of the generation leaves the
  replaced token in the cache until its TTL of 300 s, or until the next bump, although "a rotated token
  is never served" (`token_cache.rs:6`). `CacheHoldsStored` excepts it.
* "Every write bumps the token generation, which invalidates the serving token cache"
  (`replica_pull.rs:122`): `polyflare replica pull` is a process of its own (`main.rs:349`) and bumps its
  own generation; the serving process goes on with the replaced pair for the TTL. Nor does it look
  again between its comparison and its write. `CacheHoldsStored` excepts the write of a pull.
* A usage poll decides by the row it read before and then writes without looking
  (`usage_refresh.rs:276`): an account that was paused or marked `reauth_required` in between becomes
  active again, although the comment there says "never touch reauth_required/paused/deactivated". This can
  happen within one sweep, which refreshes tokens before it polls.
* A lease that lapsed while its process slept does not fence the consume: the operation still
  spends one credit (`OneShot`), but a native request can be told `no_credit` while its overtaken
  attempt is spending one ("durable per-account lease, preventing concurrent operators from
  racing", `src/README.md:202`).
* The ledger forgets requests after 24 hours; a repetition after that may select another credit,
  although "it cannot silently select a different account, credit" (`src/README.md:206`) names no
  limit.

Circuit:

* "admit one half-open recovery probe" (`docs/plans/2026-07-28-044354-01-plan-upstream-network-recovery.md:7`):
  a failure older than the outage reopens a half-open circuit (`network_recovery.rs:247`), and a
  second probe is admitted while the first is still out. `HalfOpenHasProbe` is what does hold.
* A probe older than the one under way lowers the backoff when it fails.

WebSocket relay:

* A relay without an upstream socket passes the account gate (`ws_relay/pump.rs:663`), although the
  comment before it has it "Checked at the top of EVERY iteration".
* The slot and the socket of a relay part ways. A resend signal after the refused socket was
  dropped, and a rewrite that the attempt budget refuses, keep the slot of a relay without a socket; a
  re-dial that is answered 401 and refreshed goes on without taking one (`ws_relay/mod.rs:141`).
  `ServedByAccount` is what does hold: a slot held is never another account's.
* A delta that overloads while a resend signal is outstanding can be moved to a sibling and is then
  sent there by the third rung, although the comment at `ws_relay/pump.rs:1438` has the overload
  surfaced instead; `AnchorStaysHome` excepts this case.
* "visible" is cleared by the next turn only, so a connection limit between turns closes the client
  after its first turn (`ws_relay/pump.rs:983`), and a turn that has read metadata is not replayed.
* `ws_relay/pump.rs:34` and `ws_relay/mod.rs:76` say that an upstream that ends between turns closes
  both legs; only the upstream leg is dropped.
* A move that cannot send is followed by a retry that is not checked against the bound again: a turn
  is retried up to `MaxRetries` + 1 times.
* The account gate is checked before the pump registers for its notification: an account gated in
  between is noticed at the next frame only.

HTTP turns:

* A starving turn whose anchor nobody is known to own is served with its anchor by either starvation
  layer and recorded as recovered (`ingress.rs:4035`), which moves the owner without the fence of
  `continuity_repo.rs`.
* A spilled turn that fails over is recorded as recovered too: a turn that had no anchor and ran
  beside its pin takes the session with it, although `record_completion` exists to prevent that.
* A stale completion of a turn on its own pin takes the session back from a later owner; what holds is
  that the owner has a recorded part of the conversation (`OwnerHoldsSome`).
* A rewritten turn that gets no lease gives its attempt back, and gives it back again when its anchor
  is dropped (`RefundsItsOwn` excepts it). A refund after the logical turn was cleared or evicted
  falls into the next window.
* The second starvation layer selects afresh without the accounts the request has tried.
* A client that closes at `response.completed` leaves its turn unrecorded.

Cooldowns:

* Two refusals can queue their deadlines in the wrong order, and the shorter replaces the longer
  (`runtime_state.rs:1009`), although "The later deadline wins" in the row
  (`polyflare-store/src/account.rs:978`); `BenchSurvives` excepts it.
* The queued deadline of a deleted account is retried every 250 ms until the process ends, and then
  ends the flush with an error: the other accounts' deadlines are lost, and
  `flush_background_writes` (`main.rs:1148`) is not reached.
* The reason "overloaded" (`ingress.rs:386`) violates the CHECK of migration 0018, so that direct
  write always fails; the queued one is what survives.
* `PROBE_QUIET_SECS` is "Minimum time (seconds) a DRAINING account must sit quiet"
  (`runtime_state.rs:58`); it is measured from the entry into draining.

Status, gate and snapshots:

* `gated_accounts` is "Written by every status-write site" (`runtime_state.rs:512`); the writes of
  `reactive_auth.rs` (310, 316, 360, 398, 454) do not.
* A PATCH and a poll whose notes cross leave a paused account ungated for as long as it is paused
  (`write_api.rs:181`, `usage_refresh.rs:282`). `GateHeals` is what does hold, where usage decides.
* A PATCH whose client leaves after the commit neither counts nor tells: the old snapshot is served
  until its five seconds are over.
* An immediate refresh that fails is not retried; the next sweep is the next try.
