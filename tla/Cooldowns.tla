------------------------------ MODULE Cooldowns ------------------------------
(***************************************************************************)
(* Capacity cooldowns and their persistence (runtime_state.rs,             *)
(* usage_refresh.rs, ingress.rs, polyflare-store/src/account.rs): who is   *)
(* refused for a limit benches the account in memory under the lock of the *)
(* health map, then queues the deadline for the worker that makes it       *)
(* durable; HTTP refusals also write the row themselves.  A graceful stop  *)
(* flushes what is queued, a crash loses it.                               *)
(*                                                                         *)
(* A deadline is a number, compared and never reached: a cooldown that has *)
(* run out changes nothing here.  Error counts and health tiers, which the *)
(* same lock covers, are left out, and so are the reason and time of a     *)
(* write, which finish_cooldown_persist compares along with the deadline:  *)
(* a queued copy of a deadline just written changes nothing in its row.    *)
(***************************************************************************)
EXTENDS Integers, Sequences

CONSTANTS
    Accounts,
    Requests,      \* requests that may be refused at once
    Deadlines,
    Refusals,      \* the refusals each request may meet: account, deadline and path
    NoAccount,
    MaxFaults,     \* bound: failures of the database
    MaxRestarts    \* bound: stops, graceful or not

ASSUME CooldownConstants ==
    /\ NoAccount \notin Accounts /\ Deadlines \subseteq Nat \ {0}
    /\ Refusals \in [Requests -> SUBSET [acct : Accounts, until : Deadlines,
                                         path : {"http", "quota", "stream"}]]
    /\ MaxFaults \in Nat /\ MaxRestarts \in Nat

\* Those who write what is queued: the worker, and the flush of a graceful stop.
Writers == {"worker", "flush"}

VARIABLES
    present,    \* accounts with a row; routing_cooldowns refers to it
    row,        \* routing_cooldowns.cooldown_until; 0 is no row
    cooldown,   \* RuntimeState.cooldown_until; 0 is none
    pending,    \* cooldown_persist_pending: the deadline queued for an account; 0 is none
    wakes,      \* the channel to the worker
    pc, acct, until,        \* each refused request: step, account, its own deadline
    due,        \* the deadline it is about to queue; 0 before and after
    path,       \* how it was refused: "http" 429, "quota" or "stream"
    step, job, write,       \* each writer: step, account and the deadline it took
    batch,      \* the deadlines the flush found and has yet to write; 0 is none
    up,         \* the process serves; it may still record while it stops
    promised,   \* the last deadline each account is owed; the code does not keep it
    shortened,  \* accounts whose queued deadline was overwritten by a shorter one; likewise
    faults, restarts

durable == <<present, row>>
queue == <<pending, wakes>>
requests == <<pc, acct, until, due, path>>
writers == <<step, job, write, batch>>
ghosts == <<promised, shortened>>
bounds == <<faults, restarts>>
vars == <<durable, cooldown, queue, requests, writers, up, ghosts, bounds>>

Init ==
    /\ present = Accounts /\ row = [a \in Accounts |-> 0]
    /\ cooldown = [a \in Accounts |-> 0]
    /\ pending = [a \in Accounts |-> 0] /\ wakes = <<>>
    /\ pc = [r \in Requests |-> "idle"] /\ acct = [r \in Requests |-> NoAccount]
    /\ until = [r \in Requests |-> 0] /\ due = [r \in Requests |-> 0]
    /\ path = [r \in Requests |-> "stream"]
    /\ step = [x \in Writers |-> "idle"] /\ job = [x \in Writers |-> NoAccount]
    /\ write = [x \in Writers |-> 0] /\ batch = [a \in Accounts |-> 0]
    /\ up = TRUE
    /\ promised = [a \in Accounts |-> 0] /\ shortened = {}
    /\ faults = 0 /\ restarts = 0

Later(d, e) == IF d > e THEN d ELSE e

\* Mutant: the row takes the last deadline written.
UpsertLast(a, d) == row' = [row EXCEPT ![a] = d]

\* record_routing_cooldown: the later deadline wins.
Upsert(a, d) == row' = [row EXCEPT ![a] = Later(row[a], d)]

(***************************************************************************)
(* A request is refused.                                                   *)
(***************************************************************************)
Done(r) ==
    /\ pc' = [pc EXCEPT ![r] = "idle"] /\ acct' = [acct EXCEPT ![r] = NoAccount]
    /\ until' = [until EXCEPT ![r] = 0] /\ due' = [due EXCEPT ![r] = 0]
    /\ path' = [path EXCEPT ![r] = "stream"]

\* A 429 of the HTTP path writes its own deadline first; quota and stream refusals bench first.
\* No new turn begins once the server stops, and each that outlived the drain is refused at most once.
Limited(r) ==
    /\ up /\ pc[r] = "idle"
    /\ \E f \in Refusals[r] :
         /\ acct' = [acct EXCEPT ![r] = f.acct] /\ until' = [until EXCEPT ![r] = f.until]
         /\ path' = [path EXCEPT ![r] = f.path]
         /\ pc' = [pc EXCEPT ![r] = IF f.path = "http" THEN "direct" ELSE "bench"]
    /\ UNCHANGED <<durable, cooldown, queue, due, writers, up, ghosts, bounds>>

Wrote(r) ==
    IF path[r] = "http"
    THEN pc' = [pc EXCEPT ![r] = "bench"] /\ UNCHANGED <<acct, until, due, path>>
    ELSE Done(r)

\* The direct write; its error is ignored.
DirectWrite(r) ==
    /\ pc[r] = "direct"
    /\ \/ acct[r] \in present /\ Upsert(acct[r], until[r]) /\ UNCHANGED faults
       \/ acct[r] \notin present /\ UNCHANGED <<row, faults>>
       \/ faults < MaxFaults /\ faults' = faults + 1 /\ UNCHANGED row
    /\ Wrote(r)
    /\ UNCHANGED <<present, cooldown, queue, writers, up, ghosts, restarts>>

\* The client goes away during it. The steps after it have no await.
Cancelled(r) ==
    /\ pc[r] = "direct"
    /\ Done(r)
    /\ UNCHANGED <<durable, cooldown, queue, writers, up, ghosts, bounds>>

\* Under the lock of the health map, the deadline to persist is the one now in force.
Bench(r) ==
    /\ pc[r] = "bench"
    /\ LET d == Later(cooldown[acct[r]], until[r]) IN
         /\ cooldown' = [cooldown EXCEPT ![acct[r]] = d]
         /\ due' = [due EXCEPT ![r] = d]
         /\ promised' = [promised EXCEPT ![acct[r]] = Later(promised[acct[r]], d)]
    /\ pc' = [pc EXCEPT ![r] = "insert"]
    /\ UNCHANGED <<durable, queue, acct, until, path, writers, up, shortened, bounds>>

\* The rest of a refusal once its deadline is queued: the direct write of a quota refusal.
AfterQueued(r) ==
    IF path[r] = "quota"
    THEN /\ pc' = [pc EXCEPT ![r] = "direct"] /\ due' = [due EXCEPT ![r] = 0]
         /\ UNCHANGED <<acct, until, path>>
    ELSE Done(r)

\* persist_cooldown replaces what is queued, outside that lock; only the first wakes the worker.
Insert(r) ==
    /\ pc[r] = "insert"
    /\ LET a == acct[r] IN
         /\ pending' = [pending EXCEPT ![a] = due[r]]
         /\ shortened' = IF pending[a] > due[r]
                         THEN shortened \cup {a} ELSE shortened
         /\ IF pending[a] = 0
            THEN pc' = [pc EXCEPT ![r] = "wake"] /\ UNCHANGED <<acct, until, due, path>>
            ELSE AfterQueued(r)
    /\ UNCHANGED <<durable, cooldown, wakes, writers, up, promised, bounds>>

Wake(r) ==
    /\ pc[r] = "wake"
    /\ wakes' = Append(wakes, acct[r])
    /\ AfterQueued(r)
    /\ UNCHANGED <<durable, cooldown, pending, writers, up, ghosts, bounds>>

(***************************************************************************)
(* The worker, and the flush.                                              *)
(***************************************************************************)
Rest(x) ==
    /\ step' = [step EXCEPT ![x] = "idle"] /\ job' = [job EXCEPT ![x] = NoAccount]
    /\ write' = [write EXCEPT ![x] = 0]

Take(x, a, d) ==
    /\ step' = [step EXCEPT ![x] = "write"] /\ job' = [job EXCEPT ![x] = a]
    /\ write' = [write EXCEPT ![x] = d]

Receive ==
    /\ step["worker"] = "idle" /\ wakes # <<>>
    /\ wakes' = Tail(wakes)
    /\ IF pending[Head(wakes)] = 0
       THEN UNCHANGED <<step, job, write>>
       ELSE Take("worker", Head(wakes), pending[Head(wakes)])
    /\ UNCHANGED <<durable, cooldown, pending, requests, batch, up, ghosts, bounds>>

\* The upsert of a writer commits. That of an account without a row cannot.
Stored(x) ==
    /\ step[x] = "write" /\ job[x] \in present
    /\ Upsert(job[x], write[x])
    /\ step' = [step EXCEPT ![x] = "finish"]
    /\ UNCHANGED <<present, cooldown, queue, requests, job, write, batch, up, ghosts, bounds>>

Failing(x) ==
    /\ step[x] = "write"
    /\ \/ job[x] \notin present /\ UNCHANGED faults
       \/ job[x] \in present /\ faults < MaxFaults /\ faults' = faults + 1

\* finish_cooldown_persist: what was written is removed, unless another deadline took its place.
Finished(x) ==
    pending' = IF pending[job[x]] = write[x] THEN [pending EXCEPT ![job[x]] = 0] ELSE pending

\* Mutant: the worker removes what it wrote, and does not look again.
WorkerDoneSilently ==
    /\ step["worker"] = "finish"
    /\ Finished("worker") /\ Rest("worker")
    /\ UNCHANGED <<durable, cooldown, wakes, requests, batch, up, ghosts, bounds>>

\* A replaced deadline goes round again.
WorkerDone ==
    /\ step["worker"] = "finish"
    /\ Finished("worker") /\ Rest("worker")
    /\ wakes' = IF pending'[job["worker"]] = 0 THEN wakes ELSE Append(wakes, job["worker"])
    /\ UNCHANGED <<durable, cooldown, requests, batch, up, ghosts, bounds>>

\* The worker sleeps 250 ms after an error ...
WorkerFails ==
    /\ Failing("worker")
    /\ step' = [step EXCEPT !["worker"] = "sleep"]
    /\ UNCHANGED <<durable, cooldown, queue, requests, job, write, batch, up, ghosts, restarts>>

\* Mutant: the account is tried again before the others.
RetryFirst ==
    /\ step["worker"] = "sleep"
    /\ wakes' = <<job["worker"]>> \o wakes
    /\ Rest("worker")
    /\ UNCHANGED <<durable, cooldown, pending, requests, batch, up, ghosts, bounds>>

\* ... and puts the account at the end of its own queue.
Retry ==
    /\ step["worker"] = "sleep"
    /\ wakes' = Append(wakes, job["worker"])
    /\ Rest("worker")
    /\ UNCHANGED <<durable, cooldown, pending, requests, batch, up, ghosts, bounds>>

(***************************************************************************)
(* The life of the process.                                                *)
(***************************************************************************)

\* The server has drained, or its drain timed out with turns under way.
Stop ==
    /\ up /\ restarts < MaxRestarts
    /\ up' = FALSE
    /\ UNCHANGED <<durable, cooldown, queue, requests, writers, ghosts, bounds>>

\* flush_pending_cooldowns copies what is queued, ...
FlushSnapshot ==
    /\ ~up /\ step["flush"] = "idle"
    /\ \A a \in Accounts : batch[a] = 0
    /\ \E a \in Accounts : pending[a] # 0
    /\ batch' = pending
    /\ UNCHANGED <<durable, cooldown, queue, requests, step, job, write, up, ghosts, bounds>>

\* ... writes the copies in any order, ...
FlushTake ==
    /\ step["flush"] = "idle"
    /\ \E a \in Accounts :
         /\ batch[a] # 0 /\ batch' = [batch EXCEPT ![a] = 0]
         /\ Take("flush", a, batch[a])
    /\ UNCHANGED <<durable, cooldown, queue, requests, up, ghosts, bounds>>

FlushDone ==
    /\ step["flush"] = "finish"
    /\ Finished("flush") /\ Rest("flush")
    /\ UNCHANGED <<durable, cooldown, wakes, requests, batch, up, ghosts, bounds>>

\* Another process takes over: what was in memory is gone, and kept[a] says that a's deadline is not.
Restart(kept) ==
    /\ restarts < MaxRestarts /\ restarts' = restarts + 1
    /\ cooldown' = [a \in Accounts |-> 0]
    /\ pending' = [a \in Accounts |-> 0] /\ wakes' = <<>>
    /\ pc' = [r \in Requests |-> "idle"] /\ acct' = [r \in Requests |-> NoAccount]
    /\ until' = [r \in Requests |-> 0] /\ due' = [r \in Requests |-> 0]
    /\ path' = [r \in Requests |-> "stream"]
    /\ step' = [x \in Writers |-> "idle"] /\ job' = [x \in Writers |-> NoAccount]
    /\ write' = [x \in Writers |-> 0] /\ batch' = [a \in Accounts |-> 0]
    /\ up' = TRUE
    /\ promised' = [a \in Accounts |-> IF a \in kept THEN promised[a] ELSE row[a]]
    /\ shortened' = {}
    /\ UNCHANGED durable

\* Accounts no refusal is being recorded for.
Settled == {a \in Accounts : \A r \in Requests : acct[r] # a}

\* ... and looks again, until nothing is queued and the process ends. What a turn that outlived the
\* drain records later is lost.
Flushed ==
    /\ ~up /\ step["flush"] = "idle"
    /\ \A a \in Accounts : batch[a] = 0 /\ pending[a] = 0
    /\ Restart((Settled \cap present) \ shortened)
    /\ UNCHANGED faults

\* The first error ends the flush and the process: what is still queued is lost.
FlushFails == Failing("flush") /\ Restart({})

Crash == Restart({}) /\ UNCHANGED faults

\* An operator deletes the account, and its cooldown with it; what memory holds of it stays.
Delete(a) ==
    /\ up /\ a \in present
    /\ present' = present \ {a} /\ row' = [row EXCEPT ![a] = 0]
    /\ promised' = [promised EXCEPT ![a] = 0]
    /\ UNCHANGED <<cooldown, queue, requests, writers, up, shortened, bounds>>

Recording(r) == Bench(r) \/ Insert(r) \/ Wake(r)
Working == Receive \/ Stored("worker") \/ WorkerDone \/ WorkerFails \/ Retry
Flushing == FlushSnapshot \/ FlushTake \/ Stored("flush") \/ FlushDone \/ Flushed

Next ==
    \/ \E r \in Requests : Limited(r) \/ DirectWrite(r) \/ Cancelled(r) \/ Recording(r)
    \/ Working \/ Flushing \/ FlushFails
    \/ Stop \/ Crash
    \/ \E a \in Accounts : Delete(a)

Spec == Init /\ [][Next]_vars

\* Code without an await runs on; the worker is a task of its own and its database answers.
FairSpec == Spec /\ WF_vars(Working) /\ \A r \in Requests : WF_vars(Recording(r))

(***************************************************************************)
(* Properties.                                                             *)
(***************************************************************************)

\* Types of the variables.
TypeOK ==
    /\ present \subseteq Accounts /\ row \in [Accounts -> Nat] /\ cooldown \in [Accounts -> Nat]
    /\ pending \in [Accounts -> Nat] /\ wakes \in Seq(Accounts)
    /\ pc \in [Requests -> {"idle", "direct", "bench", "insert", "wake"}]
    /\ acct \in [Requests -> Accounts \cup {NoAccount}] /\ until \in [Requests -> Nat]
    /\ due \in [Requests -> Nat]
    /\ path \in [Requests -> {"http", "quota", "stream"}]
    /\ step \in [Writers -> {"idle", "write", "finish", "sleep"}]
    /\ job \in [Writers -> Accounts \cup {NoAccount}]
    /\ write \in [Writers -> Nat] /\ batch \in [Accounts -> Nat]
    /\ up \in BOOLEAN /\ promised \in [Accounts -> Nat] /\ shortened \subseteq Accounts
    /\ faults \in 0..MaxFaults /\ restarts \in 0..MaxRestarts

\* Somebody will see to account a: its name is in the channel, the worker is on it, or the request
\* that queued its deadline is about to wake the worker.
Attended(a) ==
    \/ \E i \in 1..Len(wakes) : wakes[i] = a
    \/ job["worker"] = a
    \/ \E r \in Requests : pc[r] = "wake" /\ acct[r] = a

\* A queued deadline is never forgotten: only its first writer wakes the worker, so whoever
\* removes, replaces or fails to write a deadline has to leave somebody in charge of the next one.
NoForgottenDeadline == \A a \in Accounts : pending[a] # 0 => Attended(a)

\* Once nothing is under way for an account, the row holds the longest deadline it was benched for,
\* and it still does after a graceful stop; two refusals that queue their deadlines in the wrong
\* order are excepted.
BenchSurvives ==
    \A a \in present \cap Settled :
      pending[a] = 0 /\ a \notin shortened => row[a] >= promised[a]

\* The queue drains, whatever it holds: an account that was deleted and whose write fails for ever
\* keeps the worker from no other account, and a deadline that is replaced again and again is
\* written in the end.
QueueDrains == \A a \in Accounts : pending[a] # 0 ~> pending[a] = 0 \/ a \notin present
=============================================================================
