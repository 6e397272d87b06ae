------------------------------- MODULE Upkeep -------------------------------
(***************************************************************************)
(* How one account's status is kept up to date and known                   *)
(* (usage_refresh.rs, runtime_state.rs, account_cache.rs): requests for a  *)
(* usage refresh are coalesced for a worker, which polls the provider as   *)
(* the periodic sweep does; both write the status, as operators and failed *)
(* credentials do, and tell the gate that live relays watch; selection     *)
(* reads a cached snapshot, which the count of writes makes stale.         *)
(*                                                                         *)
(* A snapshot is the status it shows.  The count is only compared for      *)
(* being the same as before: what is kept is who still holds the current   *)
(* one.  Limits that run out, and health tiers, are left out.              *)
(***************************************************************************)
EXTENDS Integers, Sequences

CONSTANTS
    Requesters,    \* who may ask for a refresh at once
    Readers,       \* requests that read the snapshot
    None,
    MaxEdits,      \* bound: writes of the status by others
    MaxUpsets      \* bound: changes of the usage, and failed polls

ASSUME UpkeepConstants ==
    /\ Readers \cap {"worker", "sweep", None} = {}
    /\ None \notin {"worker", "sweep", "active", "exhausted", "paused", "reauth_required"}
    /\ MaxEdits \in Nat /\ MaxUpsets \in Nat

Pollers == {"worker", "sweep"}
Callers == Readers \cup Pollers
Writers == Pollers \cup {"editor"}

\* "exhausted" stands for rate_limited and quota_exceeded, which only the usage decides.
UsageControlled == {"active", "exhausted"}
Statuses == UsageControlled \cup {"paused", "reauth_required"}
Gating == Statuses \ {"active"}

VARIABLES
    truth,      \* the usage, at the provider
    status,     \* accounts.status
    gated,      \* gated_accounts has the account
    entry,      \* usage_refresh_pending: "none", "clean" or "dirty"
    channel,    \* wake-ups in the channel to the worker
    req,        \* each requester: at rest, or about to send a wake-up
    want,       \* a refresh was asked for, and none was begun since; the code does not keep it
    step, seen, answer,     \* each poller: step, the status of the row it read, the usage it got
    edited,                 \* what somebody else wrote and has yet to tell
    was,        \* the status each writer replaced and did not count yet
    lost,       \* those of writers that were dropped before they counted
    cache,      \* the snapshot, or None
    fresh,      \* it carries the current count and is within its time
    waiting,    \* callers queued at rebuild_lock
    builder, building, current, built,  \* who holds it: step, whether the count is still the same, what was read
    edits, upsets

bounds == <<edits, upsets>>

refresh == <<entry, channel, req, want>>
poll == <<step, seen, answer>>
count == <<was, lost>>
entryOf == <<cache, fresh>>
rebuild == <<builder, building, current, built>>
vars == <<truth, status, gated, refresh, poll, edited, count, entryOf, waiting, rebuild, bounds>>

Init ==
    /\ truth = "active" /\ status = "active" /\ gated = FALSE
    /\ entry = "none" /\ channel = 0 /\ req = [q \in Requesters |-> "idle"] /\ want = FALSE
    /\ step = [p \in Pollers |-> "idle"] /\ seen = [p \in Pollers |-> None]
    /\ answer = [p \in Pollers |-> None]
    /\ edited = None
    /\ was = [w \in Writers |-> None] /\ lost = {}
    /\ cache = None /\ fresh = FALSE
    /\ waiting = <<>> /\ builder = None /\ building = "idle" /\ current = FALSE /\ built = None
    /\ edits = 0 /\ upsets = 0

Upset == upsets < MaxUpsets /\ upsets' = upsets + 1 /\ UNCHANGED edits

\* Usage rises, or its window passes.
ProviderChanges ==
    /\ Upset
    /\ truth' = IF truth = "active" THEN "exhausted" ELSE "active"
    /\ UNCHANGED <<status, gated, refresh, poll, edited, count, entryOf, waiting, rebuild>>

(***************************************************************************)
(* Requests for a refresh.                                                 *)
(***************************************************************************)

\* Mutant: a request that finds one outstanding is covered by it.
RequestOnce(q) ==
    /\ req[q] = "idle"
    /\ want' = TRUE
    /\ \/ entry = "none" /\ entry' = "clean" /\ req' = [req EXCEPT ![q] = "send"]
       \/ entry # "none" /\ UNCHANGED <<entry, req>>
    /\ UNCHANGED <<truth, status, gated, channel, poll, edited, count, entryOf, waiting, rebuild, bounds>>

\* request_usage_refresh: the first inserts the key and wakes the worker, the others mark it dirty.
Request(q) ==
    /\ req[q] = "idle"
    /\ want' = TRUE
    /\ \/ entry = "none" /\ entry' = "clean" /\ req' = [req EXCEPT ![q] = "send"]
       \/ entry # "none" /\ entry' = "dirty" /\ UNCHANGED req
    /\ UNCHANGED <<truth, status, gated, channel, poll, edited, count, entryOf, waiting, rebuild, bounds>>

Send(q) ==
    /\ req[q] = "send" /\ req' = [req EXCEPT ![q] = "idle"]
    /\ channel' = channel + 1
    /\ UNCHANGED <<truth, status, gated, entry, want, poll, edited, count, entryOf, waiting, rebuild, bounds>>

(***************************************************************************)
(* A poll, of the worker or the sweep.                                     *)
(***************************************************************************)
Goto(p, s) == step' = [step EXCEPT ![p] = s]

\* After a poll, whatever became of it: the worker looks for more, the sweep warms the cache.
After(p) == IF p = "worker" THEN "finish" ELSE "warm"

\* The worker takes every wake-up there is.
Receive ==
    /\ step["worker"] = "idle" /\ channel > 0
    /\ channel' = 0 /\ Goto("worker", "get")
    /\ UNCHANGED <<truth, status, gated, entry, req, want, seen, answer, edited, count, entryOf, waiting,
                   rebuild, bounds>>

\* The row as it is before the poll: that of the sweep is read for all accounts at once.
ReadRow(p) ==
    /\ step[p] = IF p = "worker" THEN "get" ELSE "idle"
    /\ seen' = [seen EXCEPT ![p] = status] /\ Goto(p, "poll")
    /\ UNCHANGED <<truth, status, gated, refresh, answer, edited, count, entryOf, waiting, rebuild, bounds>>

\* A refresh of the worker answers the requests made before it.
Begun(p) == want' = (want /\ p # "worker")

\* Mutant: a poll that confirms the row it read writes nothing.
PollChanges(p) ==
    /\ step[p] = "poll" /\ Begun(p)
    /\ seen' = [seen EXCEPT ![p] = None]
    /\ IF seen[p] \in UsageControlled \ {truth}
       THEN answer' = [answer EXCEPT ![p] = truth] /\ Goto(p, "write")
       ELSE Goto(p, After(p)) /\ UNCHANGED answer
    /\ UNCHANGED <<truth, status, gated, entry, channel, req, edited, count, entryOf, waiting, rebuild, bounds>>

\* Only a status that was under the control of usage is written.
Poll(p) ==
    /\ step[p] = "poll" /\ Begun(p)
    /\ seen' = [seen EXCEPT ![p] = None]
    /\ IF seen[p] \in UsageControlled
       THEN answer' = [answer EXCEPT ![p] = truth] /\ Goto(p, "write")
       ELSE Goto(p, After(p)) /\ UNCHANGED answer
    /\ UNCHANGED <<truth, status, gated, entry, channel, req, edited, count, entryOf, waiting, rebuild, bounds>>

\* The poll fails, or the database before the status is written; nothing is retried.
PollFails(p) ==
    /\ Upset
    /\ \/ step[p] = "poll" /\ Begun(p)
       \/ step[p] = "write" /\ UNCHANGED want
    /\ seen' = [seen EXCEPT ![p] = None] /\ answer' = [answer EXCEPT ![p] = None]
    /\ Goto(p, After(p))
    /\ UNCHANGED <<truth, status, gated, entry, channel, req, edited, count, entryOf, waiting, rebuild>>

Replace(w, s) == status' = s /\ was' = [was EXCEPT ![w] = status]

WriteStatus(p) ==
    /\ step[p] = "write"
    /\ Replace(p, answer[p]) /\ Goto(p, "tell")
    /\ UNCHANGED <<truth, gated, refresh, seen, answer, edited, lost, entryOf, waiting, rebuild, bounds>>

\* bump_generation: whoever holds the old count holds a stale one from here.
Count(w) ==
    /\ was' = [was EXCEPT ![w] = None] /\ lost' = {}
    /\ fresh' = FALSE /\ current' = FALSE

\* ... and the gate is told, note_account_status_with_reset, with no await in between.
Tell(p) ==
    /\ step[p] = "tell"
    /\ Count(p) /\ gated' = (answer[p] \in Gating)
    /\ answer' = [answer EXCEPT ![p] = None] /\ Goto(p, After(p))
    /\ UNCHANGED <<truth, status, refresh, seen, edited, cache, waiting, builder, building, built, bounds>>

Fresh == cache # None /\ fresh

\* A poller warms the cache with a call of its own, and waits for it unless it is fresh.
Warm(p) ==
    IF Fresh THEN Goto(p, "idle") /\ UNCHANGED waiting
             ELSE Goto(p, "cache") /\ waiting' = Append(waiting, p)

\* finish_usage_refresh: a dirty key takes one more pass, a clean one is released.
Finish ==
    /\ step["worker"] = "finish"
    /\ \/ entry = "dirty" /\ entry' = "clean" /\ Goto("worker", "get")
          /\ UNCHANGED waiting
       \/ entry # "dirty" /\ entry' = "none" /\ Warm("worker")
    /\ UNCHANGED <<truth, status, gated, channel, req, want, seen, answer, edited, count, entryOf, rebuild,
                   bounds>>

(***************************************************************************)
(* Other writers of the status.                                            *)
(***************************************************************************)

\* An operator pauses or resumes the account, or a refresh token fails.
Edit(s) ==
    /\ edited = None /\ s # status
    /\ edits < MaxEdits /\ edits' = edits + 1 /\ UNCHANGED upsets
    /\ Replace("editor", s) /\ edited' = s
    /\ UNCHANGED <<truth, gated, refresh, poll, lost, entryOf, waiting, rebuild>>

\* The PATCH tells the gate, and so does the request path (resolve_core_account,
\* bench_account_for_failure); reactive_auth, which marks reauth_required too, does not.
EditTell ==
    /\ edited # None
    /\ Count("editor") /\ edited' = None
    /\ gated' \in IF edited = "reauth_required" THEN {gated, TRUE} ELSE {edited \in Gating}
    /\ UNCHANGED <<truth, status, refresh, poll, cache, waiting, builder, building, built, bounds>>

\* The write of a failed credential's status fails, which the request path ignores: it tells the
\* gate all the same.
MarkFails ==
    /\ edits < MaxEdits /\ edits' = edits + 1 /\ UNCHANGED upsets
    /\ gated' = TRUE
    /\ UNCHANGED <<truth, status, refresh, poll, edited, count, entryOf, waiting, rebuild>>

\* The client goes away while its write commits: nobody is told, the count included.
EditorGone ==
    /\ edited # None /\ edited' = None
    /\ lost' = lost \cup {was["editor"]} /\ was' = [was EXCEPT !["editor"] = None]
    /\ UNCHANGED <<truth, status, gated, refresh, poll, entryOf, waiting, rebuild, bounds>>

(***************************************************************************)
(* The snapshot cache.                                                     *)
(***************************************************************************)
\* The sweep has polled all accounts.
Warmed ==
    /\ step["sweep"] = "warm" /\ Warm("sweep")
    /\ UNCHANGED <<truth, status, gated, refresh, seen, answer, edited, count, entryOf, rebuild, bounds>>

\* A reader that is not served from memory queues at the lock, which is fair.
Miss(r) ==
    /\ ~Fresh /\ builder # r
    /\ \A i \in 1..Len(waiting) : waiting[i] # r
    /\ waiting' = Append(waiting, r)
    /\ UNCHANGED <<truth, status, gated, refresh, poll, edited, count, entryOf, rebuild, bounds>>

\* A caller has its snapshot, or an error, and leaves the lock to the next.
Return(x) ==
    step' = IF x \in Pollers THEN [step EXCEPT ![x] = "idle"] ELSE step

Free == builder' = None /\ building' = "idle" /\ current' = FALSE /\ built' = None

\* It looks again, and reads the count before it reads the rows.
Enter ==
    /\ builder = None /\ waiting # <<>>
    /\ waiting' = Tail(waiting)
    /\ IF Fresh
       THEN Return(Head(waiting)) /\ UNCHANGED rebuild
       ELSE /\ builder' = Head(waiting) /\ building' = "list" /\ current' = TRUE
            /\ UNCHANGED <<built, step>>
    /\ UNCHANGED <<truth, status, gated, refresh, seen, answer, edited, count, entryOf, bounds>>

\* assemble_snapshots: the status comes first.
List ==
    /\ building = "list" /\ building' = "install"
    /\ built' = status
    /\ UNCHANGED <<truth, status, gated, refresh, poll, edited, count, entryOf, waiting, builder, current,
                   bounds>>

\* Mutant: the entry carries the count of its installation.
InstallLate ==
    /\ building = "install"
    /\ cache' = built /\ fresh' = TRUE
    /\ Return(builder) /\ Free
    /\ UNCHANGED <<truth, status, gated, refresh, seen, answer, edited, count, waiting, bounds>>

\* The entry carries the count read before its rows.
Install ==
    /\ building = "install"
    /\ cache' = built /\ fresh' = current
    /\ Return(builder) /\ Free
    /\ UNCHANGED <<truth, status, gated, refresh, seen, answer, edited, count, waiting, bounds>>

\* The database fails a rebuild, or its reader goes away.
BuildFails ==
    /\ builder # None
    /\ Return(builder) /\ Free
    /\ UNCHANGED <<truth, status, gated, refresh, seen, answer, edited, count, entryOf, waiting, bounds>>

ReaderGone(r) ==
    /\ \E i \in 1..Len(waiting) :
        /\ waiting[i] = r
        /\ waiting' = SubSeq(waiting, 1, i - 1) \o SubSeq(waiting, i + 1, Len(waiting))
    /\ UNCHANGED <<truth, status, gated, refresh, poll, edited, count, entryOf, rebuild, bounds>>

\* The five seconds of an entry pass. A dropped write is forgotten with it, unless a rebuild under
\* way read the row before that.
Expire ==
    /\ Fresh /\ fresh' = FALSE
    /\ lost' = IF building = "install" THEN lost ELSE {}
    /\ UNCHANGED <<truth, status, gated, refresh, poll, edited, was, cache, waiting, rebuild, bounds>>

Polling(p) == ReadRow(p) \/ Poll(p) \/ WriteStatus(p) \/ Tell(p)
Working == Receive \/ Polling("worker") \/ Finish
Sweeping == Polling("sweep") \/ Warmed
Building == Enter \/ List \/ Install

Next ==
    \/ ProviderChanges
    \/ \E q \in Requesters : Request(q) \/ Send(q)
    \/ Working \/ Sweeping
    \/ \E p \in Pollers : PollFails(p)
    \/ \E s \in Statuses \ {"exhausted"} : Edit(s)
    \/ EditTell \/ MarkFails \/ EditorGone
    \/ Building \/ BuildFails \/ Expire
    \/ \E r \in Readers : Miss(r) \/ ReaderGone(r)

Spec == Init /\ [][Next]_vars

\* Code without an await runs on; worker and sweep are tasks of their own, whose polls time out and
\* whose database answers; a request for a snapshot is carried on or dropped.
FairSpec ==
    /\ Spec /\ WF_vars(Working) /\ WF_vars(Sweeping) /\ WF_vars(Building)
    /\ \A q \in Requesters : WF_vars(Send(q))

(***************************************************************************)
(* Properties.                                                             *)
(***************************************************************************)

\* Types of the variables.
TypeOK ==
    /\ truth \in UsageControlled /\ status \in Statuses /\ gated \in BOOLEAN
    /\ entry \in {"none", "clean", "dirty"} /\ channel \in Nat
    /\ req \in [Requesters -> {"idle", "send"}] /\ want \in BOOLEAN
    /\ step \in [Pollers -> {"idle", "get", "poll", "write", "tell", "finish", "warm", "cache"}]
    /\ seen \in [Pollers -> Statuses \cup {None}] /\ answer \in [Pollers -> UsageControlled \cup {None}]
    /\ edited \in Statuses \cup {None}
    /\ was \in [Writers -> Statuses \cup {None}] /\ lost \subseteq Statuses \cup {None}
    /\ cache \in Statuses \cup {None} /\ fresh \in BOOLEAN
    /\ waiting \in Seq(Callers) /\ builder \in Callers \cup {None}
    /\ building \in {"idle", "list", "install"} /\ current \in BOOLEAN
    /\ built \in Statuses \cup {None}
    /\ edits \in 0..MaxEdits /\ upsets \in 0..MaxUpsets

\* What a reader may be told: the status, or one that a write still under way replaced, or, for as
\* long as an entry lives, one that a dropped write did.
Recent == {status} \cup {was[w] : w \in Writers} \cup lost

\* A snapshot that passes for fresh is one the row has held since the last write that was counted:
\* a rebuild that races a write is never served after it.
CacheIsCurrent == Fresh => cache \in Recent

\* Whoever asks for a refresh gets one that begins after the question, also while one is running.
RefreshFollows == want ~> ~want

\* The gate does not stay wrong: where usage decides the status, it agrees again and again with the
\* row, whatever order the writes and their notes came in.
GateHeals == []<>(status \in UsageControlled => (gated <=> status \in Gating))
=============================================================================
