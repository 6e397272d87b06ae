---------------------------- MODULE TokenRefresh ----------------------------
(***************************************************************************)
(* Rotation of one account's OAuth tokens: the proactive refresh on the    *)
(* request path (ingress.rs, resolve_core_account), the reactive refresh   *)
(* after a 401 and the sweep (reactive_auth.rs), the per-account lock, the *)
(* stored row, and the decrypted-token cache (token_cache.rs).             *)
(*                                                                         *)
(* A token pair is its number in the order the authorization server issued *)
(* them; `grant` is the newest, and presenting the refresh token of an     *)
(* older pair is refresh_token_reused.  Nodes are processes with a store   *)
(* of their own: the master, and replicas that copy the master's tokens.   *)
(* An access token in `stale` is due for refresh and rejected with 401.    *)
(*                                                                         *)
(* Faults are bounded: cancelled request futures (the client went away),   *)
(* crashes, exchanges whose answer is lost or unreadable, and failing      *)
(* store writes.                                                           *)
(***************************************************************************)
EXTENDS Integers, FiniteSets

CONSTANTS
    Nodes, Replicas,     \* processes, and those started with POLYFLARE_REPLICA_MODE
    Tasks,               \* concurrent requests and sweeps
    PersistMaxAttempts,  \* PERSIST_MAX_ATTEMPTS
    MaxGrant,            \* bound: pairs issued
    MaxCancels, MaxCrashes, MaxLosses, MaxGarbled, MaxStoreFaults,   \* bounds on the faults
    MaxPolls             \* bound: usage polls

Master == CHOOSE n \in Nodes : n \notin Replicas
None == -1
NoStatus == "none"
Pairs == 0..MaxGrant

ASSUME TokenConstants ==
    /\ Replicas \subseteq Nodes /\ Nodes \ Replicas # {}
    /\ MaxGrant \in Nat /\ PersistMaxAttempts \in Nat \ {0}
    /\ MaxCancels \in Nat /\ MaxCrashes \in Nat /\ MaxLosses \in Nat /\ MaxGarbled \in Nat
    /\ MaxStoreFaults \in Nat /\ MaxPolls \in Nat

VARIABLES
    grant,      \* the newest pair at the authorization server
    stale,      \* pairs whose access token has expired
    db,         \* per node: the stored pair
    status,     \* per node: the stored account status
    storeGen,   \* per node: Store::token_generation
    cacheGen,   \* per node: TokenCache generation
    cached,     \* per node: the pair in the cache, or None
    pulled,     \* per node: the pair its replica pull has fetched from the master, or None
    differs,    \* per node: the pull has found the stored pair to be another one
    listed,     \* per node: the status a usage poll in progress has read, or NoStatus
    lock,       \* per node: who holds the account's refresh lock, a set of at most one task
    pc, home, flow, tok, gen, presented, reply, tries, retried,   \* the tasks
    cancels, crashes, losses, garbled, storeFaults, polls,
    \* For the properties: per node, whether the last write of the row is one that nobody will
    \* tell this process' cache of, and whether the last mark was set on an unreadable answer.
    unannounced, blind

cacheVars == <<storeGen, cacheGen, cached>>
pullVars == <<pulled, differs>>
rowVars == <<db, cacheVars, pullVars, unannounced>>
statusVars == <<status, listed, blind>>
nodeVars == <<rowVars, statusVars>>
taskVars == <<pc, home, flow, tok, gen, presented, reply, tries, retried>>
faults == <<cancels, crashes, losses, garbled, storeFaults, polls>>
vars == <<grant, stale, nodeVars, lock, taskVars, faults>>

Flows == {"resolve", "reactive", "sweep"}
Usable == {"active", "rate_limited", "quota_exceeded"}

Init ==
    /\ grant = 0 /\ stale = {}
    /\ db = [n \in Nodes |-> 0]
    /\ status = [n \in Nodes |-> "active"]
    /\ storeGen = [n \in Nodes |-> 0]
    /\ cacheGen = [n \in Nodes |-> 0]
    /\ cached = [n \in Nodes |-> None]
    /\ pulled = [n \in Nodes |-> None]
    /\ differs = [n \in Nodes |-> FALSE]
    /\ unannounced = [n \in Nodes |-> FALSE]
    /\ blind = [n \in Nodes |-> FALSE]
    /\ listed = [n \in Nodes |-> NoStatus]
    /\ lock = [n \in Nodes |-> {}]
    /\ pc = [t \in Tasks |-> "idle"]
    /\ home \in [Tasks -> Nodes]
    /\ flow = [t \in Tasks |-> "resolve"]
    /\ tok = [t \in Tasks |-> None]
    /\ gen = [t \in Tasks |-> 0]
    /\ presented = [t \in Tasks |-> None]
    /\ reply = [t \in Tasks |-> None]
    /\ tries = [t \in Tasks |-> 0]
    /\ retried = [t \in Tasks |-> FALSE]
    /\ cancels = 0 /\ crashes = 0 /\ losses = 0 /\ garbled = 0
    /\ storeFaults = 0 /\ polls = 0

(***************************************************************************)
(* Environment.                                                            *)
(***************************************************************************)
\* An access token comes due.  The newest pair of the bound stays good.
Expire(g) ==
    /\ g \in 0..grant /\ g < MaxGrant /\ g \notin stale
    /\ stale' = stale \cup {g}
    /\ UNCHANGED <<grant, nodeVars, lock, taskVars, faults>>

\* The usage sweep, or an immediate refresh, reads the account ...
ReadForPoll(n) ==
    /\ listed[n] = NoStatus /\ polls < MaxPolls
    /\ polls' = polls + 1
    /\ listed' = [listed EXCEPT ![n] = status[n]]
    /\ UNCHANGED <<grant, stale, rowVars, status, blind, lock, taskVars, cancels, crashes, losses,
                   garbled, storeFaults>>

\* ... and, when the provider has answered, writes the status the windows call for, judging by
\* the status it had read.
PollUsage(n) ==
    /\ listed[n] # NoStatus
    /\ listed' = [listed EXCEPT ![n] = NoStatus]
    /\ IF listed[n] \in Usable
       THEN \E s \in Usable : status' = [status EXCEPT ![n] = s]
       ELSE UNCHANGED status
    /\ UNCHANGED <<grant, stale, rowVars, blind, lock, taskVars, faults>>

\* The cache entry passes its TTL and is dropped by a get, an insert or the sweep.
CacheExpire(n) ==
    /\ cached[n] # None
    /\ cached' = [cached EXCEPT ![n] = None]
    /\ UNCHANGED <<grant, stale, db, statusVars, storeGen, cacheGen, pullVars, unannounced, lock,
                   taskVars, faults>>

(***************************************************************************)
(* The request path up to a token (resolve_core_account).                  *)
(***************************************************************************)
\* A request begins: the store generation is read before the cache is asked.
StartRequest(t) ==
    /\ pc[t] = "idle"
    /\ pc' = [pc EXCEPT ![t] = "lookup"]
    /\ flow' = [flow EXCEPT ![t] = "resolve"]
    /\ gen' = [gen EXCEPT ![t] = storeGen[home[t]]]
    /\ retried' = [retried EXCEPT ![t] = FALSE]
    /\ UNCHANGED <<grant, stale, nodeVars, lock, home, tok, presented, reply, tries, faults>>

\* A token in hand is used, unless it is due: then its refresh is due first.
AfterToken(g) == IF g \in stale THEN "want" ELSE "serving"

\* TokenCache::get, monotonic in the generation.
CacheGet(t) ==
    LET n == home[t] IN
    /\ pc[t] = "lookup"
    /\ IF gen[t] > cacheGen[n]
       THEN /\ cacheGen' = [cacheGen EXCEPT ![n] = gen[t]]
            /\ cached' = [cached EXCEPT ![n] = None]
       ELSE UNCHANGED <<cacheGen, cached>>
    /\ IF gen[t] = cacheGen[n] /\ cached[n] # None
       THEN /\ tok' = [tok EXCEPT ![t] = cached[n]]
            /\ pc' = [pc EXCEPT ![t] = AfterToken(cached[n])]
       ELSE /\ pc' = [pc EXCEPT ![t] = "load"]
            /\ UNCHANGED tok
    /\ UNCHANGED <<grant, stale, db, statusVars, storeGen, pullVars, unannounced, lock, home, flow,
                   gen, presented, reply, tries, retried, faults>>

\* The miss: one SELECT of the row ...
LoadRow(t) ==
    /\ pc[t] = "load"
    /\ tok' = [tok EXCEPT ![t] = db[home[t]]]
    /\ pc' = [pc EXCEPT ![t] = "insert"]
    /\ UNCHANGED <<grant, stale, nodeVars, lock, home, flow, gen, presented, reply, tries,
                   retried, faults>>

\* Mutant: the generation is read after the row.
CacheInsertLate(t) ==
    LET n == home[t] IN
    /\ pc[t] = "insert"
    /\ cacheGen' = [cacheGen EXCEPT ![n] = storeGen[n]]
    /\ cached' = [cached EXCEPT ![n] = tok[t]]
    /\ pc' = [pc EXCEPT ![t] = AfterToken(tok[t])]
    /\ UNCHANGED <<grant, stale, db, statusVars, storeGen, pullVars, unannounced, lock, home, flow,
                   tok, gen, presented, reply, tries, retried, faults>>

\* ... cached under the generation read before it (TokenCache::insert).
CacheInsert(t) ==
    LET n == home[t] IN
    /\ pc[t] = "insert"
    /\ IF gen[t] < cacheGen[n]
       THEN UNCHANGED <<cacheGen, cached>>
       ELSE /\ cacheGen' = [cacheGen EXCEPT ![n] = gen[t]]
            /\ cached' = [cached EXCEPT ![n] = tok[t]]
    /\ pc' = [pc EXCEPT ![t] = AfterToken(tok[t])]
    /\ UNCHANGED <<grant, stale, db, statusVars, storeGen, pullVars, unannounced, lock, home, flow,
                   tok, gen, presented, reply, tries, retried, faults>>

\* The upstream accepts the token, and the request is answered ...
Answer(t) ==
    /\ pc[t] = "serving"
    /\ tok[t] \notin stale \/ retried[t]
    /\ pc' = [pc EXCEPT ![t] = "idle"]
    /\ UNCHANGED <<grant, stale, nodeVars, lock, home, flow, tok, gen, presented, reply,
                   tries, retried, faults>>

\* ... or rejects it: one reactive refresh (force_refresh_after_unauthorized).
Rejected(t) ==
    /\ pc[t] = "serving" /\ tok[t] \in stale /\ ~retried[t]
    /\ pc' = [pc EXCEPT ![t] = "want"]
    /\ flow' = [flow EXCEPT ![t] = "reactive"]
    /\ retried' = [retried EXCEPT ![t] = TRUE]
    /\ UNCHANGED <<grant, stale, nodeVars, lock, home, tok, gen, presented, reply, tries, faults>>

\* The usage sweep, or an operator, asks for a refresh of a stale token.
StartSweep(t) ==
    /\ pc[t] = "idle"
    /\ pc' = [pc EXCEPT ![t] = "want"]
    /\ flow' = [flow EXCEPT ![t] = "sweep"]
    /\ UNCHANGED <<grant, stale, nodeVars, lock, home, tok, gen, presented, reply, tries,
                   retried, faults>>

(***************************************************************************)
(* The refresh, under the account's lock.                                  *)
(***************************************************************************)
\* RefreshLocks::handle(picked).lock().await
TakeLock(t) ==
    /\ pc[t] = "want" /\ lock[home[t]] = {}
    /\ lock' = [lock EXCEPT ![home[t]] = {t}]
    /\ pc' = [pc EXCEPT ![t] = "locked"]
    /\ UNCHANGED <<grant, stale, nodeVars, home, flow, tok, gen, presented, reply, tries,
                   retried, faults>>

Release(t) == lock' = [lock EXCEPT ![home[t]] = {}]
\* Mutant: the lock outlives the refresh.
FinishHolding(t, where) == pc' = [pc EXCEPT ![t] = where] /\ UNCHANGED lock

Finish(t, where) == Release(t) /\ pc' = [pc EXCEPT ![t] = where]

\* Where a flow goes when it has a usable token: the request is sent (again); a sweep is done.
Resume(t) == IF flow[t] = "sweep" THEN "idle" ELSE "serving"

\* The statuses under which a flow will refresh.
Allowed(t) ==
    status[home[t]] \in (IF flow[t] = "sweep" THEN Usable ELSE {"active"})
\* A peer has refreshed, or nothing is due: the stored token is adopted.
Adopts(t) == IF flow[t] = "reactive" THEN db[home[t]] # tok[t] ELSE db[home[t]] \notin stale
\* Mutant: a master that takes itself for a replica.
GatedEverywhere(t) == flow[t] # "resolve"

\* Only the reactive path and the sweep ask is_replica().
Gated(t) == home[t] \in Replicas /\ flow[t] # "resolve"

\* The row is read again under the lock.  An account that is not usable is refused; a peer's
\* token is adopted; a replica surfaces the 401; otherwise the stored refresh token is presented.
ReadUnderLock(t) ==
    LET n == home[t] IN
    /\ pc[t] = "locked"
    /\ \/ /\ ~Allowed(t)
          /\ Finish(t, "idle")
          /\ UNCHANGED <<tok, presented, reply, tries>>
       \/ /\ Allowed(t) /\ Adopts(t)
          /\ tok' = [tok EXCEPT ![t] = db[n]]
          /\ Finish(t, Resume(t))
          /\ UNCHANGED <<presented, reply, tries>>
       \/ /\ Allowed(t) /\ ~Adopts(t) /\ Gated(t)
          /\ Finish(t, "idle")
          /\ UNCHANGED <<tok, presented, reply, tries>>
       \/ /\ Allowed(t) /\ ~Adopts(t) /\ ~Gated(t)
          /\ presented' = [presented EXCEPT ![t] = db[n]]
          /\ reply' = [reply EXCEPT ![t] = None]
          /\ tries' = [tries EXCEPT ![t] = 0]
          /\ pc' = [pc EXCEPT ![t] = "exchange"]
          /\ UNCHANGED <<lock, tok>>
    /\ UNCHANGED <<grant, stale, nodeVars, home, flow, gen, retried, faults>>

\* Mutant: the lock covers the exchange only, not the write of its result.
ServerAnswersUnlocked(t) ==
    /\ pc[t] = "exchange"
    /\ IF presented[t] = grant
       THEN grant' = grant + 1 /\ pc' = [pc EXCEPT ![t] = "minted"]
       ELSE pc' = [pc EXCEPT ![t] = "reused"] /\ UNCHANGED grant
    /\ reply' = [reply EXCEPT ![t] = IF presented[t] = grant THEN grant + 1 ELSE None]
    /\ Release(t)
    /\ UNCHANGED <<stale, nodeVars, home, flow, tok, gen, presented, tries, retried, faults>>

\* The authorization server receives the refresh token: it rotates, or finds it already spent.
ServerAnswers(t) ==
    /\ pc[t] = "exchange"
    /\ IF presented[t] = grant
       THEN grant' = grant + 1 /\ pc' = [pc EXCEPT ![t] = "minted"]
       ELSE pc' = [pc EXCEPT ![t] = "reused"] /\ UNCHANGED grant
    /\ reply' = [reply EXCEPT ![t] = IF presented[t] = grant THEN grant + 1 ELSE None]
    /\ UNCHANGED <<stale, nodeVars, lock, home, flow, tok, gen, presented, tries, retried, faults>>

\* The exchange is under way: the server may have answered, and nothing has arrived yet.
Answering(t) == \/ pc[t] \in {"exchange", "reused"}
                \/ pc[t] = "minted" /\ tries[t] = 0

\* Mutant: an unreachable server counts as a rejection.
TransportErrorMarks(t) ==
    /\ Answering(t) /\ losses < MaxLosses
    /\ losses' = losses + 1
    /\ status' = [status EXCEPT ![home[t]] = "reauth_required"]
    /\ Finish(t, "idle")
    /\ UNCHANGED <<grant, stale, rowVars, listed, blind, home, flow, tok, gen, presented, reply,
                   tries, retried, cancels, crashes, garbled, storeFaults, polls>>

\* OAuthError::Transport, before the server was reached or after, or an error code classified
\* Transient: credentials are left alone.  The request path goes on with the token it had, or,
\* given a code, fails the request; a reactive refresh surfaces its 401.
TransportError(t) ==
    /\ Answering(t) /\ losses < MaxLosses
    /\ losses' = losses + 1
    /\ \E where \in {"idle"} \cup (IF flow[t] = "resolve" THEN {"serving"} ELSE {}) :
          Finish(t, where)
    /\ UNCHANGED <<grant, stale, nodeVars, home, flow, tok, gen, presented, reply, tries,
                   retried, cancels, crashes, garbled, storeFaults, polls>>

\* OAuthError::Endpoint without a code: an answer that is no 2xx and has no readable error, as a
\* 500 or a proxy's HTML page, whatever the server did with the refresh token.
Unreadable(t) ==
    /\ Answering(t) /\ garbled < MaxGarbled
    /\ garbled' = garbled + 1
    /\ pc' = [pc EXCEPT ![t] = "unreadable"]
    /\ UNCHANGED <<grant, stale, nodeVars, lock, home, flow, tok, gen, presented, reply, tries,
                   retried, cancels, crashes, losses, storeFaults, polls>>

\* update_tokens commits ...
Commit(t) ==
    /\ pc[t] = "minted"
    /\ db' = [db EXCEPT ![home[t]] = reply[t]]
    /\ pc' = [pc EXCEPT ![t] = "bump"]
    /\ UNCHANGED <<grant, stale, statusVars, cacheVars, pullVars, unannounced, lock, home, flow,
                   tok, gen, presented, reply, tries, retried, faults>>

\* ... and then bumps the token generation; the lock is dropped with the new token in hand.
Bump(t) ==
    /\ pc[t] = "bump"
    /\ storeGen' = [storeGen EXCEPT ![home[t]] = @ + 1]
    /\ unannounced' = [unannounced EXCEPT ![home[t]] = FALSE]
    /\ tok' = [tok EXCEPT ![t] = reply[t]]
    /\ Finish(t, Resume(t))
    /\ UNCHANGED <<grant, stale, db, statusVars, cacheGen, cached, pullVars, home, flow, gen,
                   presented, reply, tries, retried, faults>>

\* Mutant: giving up leaves the account as it is.
CommitFailsSilently(t) ==
    /\ pc[t] = "minted" /\ storeFaults < MaxStoreFaults
    /\ storeFaults' = storeFaults + 1
    /\ tries' = [tries EXCEPT ![t] = @ + 1]
    /\ IF tries[t] + 1 < PersistMaxAttempts THEN UNCHANGED <<pc, lock>> ELSE Finish(t, "idle")
    /\ UNCHANGED <<grant, stale, nodeVars, home, flow, tok, gen, presented, reply,
                   retried, cancels, crashes, losses, garbled, polls>>

\* The write fails: it is tried again, and after the last attempt the account is marked.
CommitFails(t) ==
    /\ pc[t] = "minted" /\ storeFaults < MaxStoreFaults
    /\ storeFaults' = storeFaults + 1
    /\ tries' = [tries EXCEPT ![t] = @ + 1]
    /\ pc' = [pc EXCEPT ![t] = IF tries[t] + 1 < PersistMaxAttempts THEN "minted" ELSE "mark"]
    /\ UNCHANGED <<grant, stale, nodeVars, lock, home, flow, tok, gen, presented, reply,
                   retried, cancels, crashes, losses, garbled, polls>>

\* update_status(reauth_required): the new pair could not be stored, the old one was spent
\* already, or the answer was unreadable.
Mark(t) ==
    /\ pc[t] \in {"mark", "reused", "unreadable"}
    /\ status' = [status EXCEPT ![home[t]] = "reauth_required"]
    /\ blind' = [blind EXCEPT ![home[t]] = pc[t] = "unreadable"]
    /\ Finish(t, "idle")
    /\ UNCHANGED <<grant, stale, rowVars, listed, home, flow, tok, gen,
                   presented, reply, tries, retried, faults>>

\* ... best effort: its failure is ignored.
MarkFails(t) ==
    /\ pc[t] \in {"mark", "reused", "unreadable"} /\ storeFaults < MaxStoreFaults
    /\ storeFaults' = storeFaults + 1
    /\ Finish(t, "idle")
    /\ UNCHANGED <<grant, stale, nodeVars, home, flow, tok, gen, presented, reply, tries,
                   retried, cancels, crashes, losses, garbled, polls>>

(***************************************************************************)
(* Cancellation, crash, and the replica's copy.                            *)
(***************************************************************************)
\* Mutant: a cancelled waiter frees the lock, whoever holds it.
CancelFrees(t) ==
    /\ pc[t] # "idle" /\ flow[t] # "sweep" /\ cancels < MaxCancels
    /\ cancels' = cancels + 1
    /\ Finish(t, "idle")
    /\ UNCHANGED <<grant, stale, nodeVars, home, flow, tok, gen, presented, reply, tries,
                   retried, crashes, losses, garbled, storeFaults, polls>>

\* A request's future is dropped at an await; the guard of the lock goes with it.  A statement
\* already sent to SQLite is executed all the same, and nobody is left to bump the generation.
Cancel(t) ==
    /\ pc[t] # "idle" /\ flow[t] # "sweep" /\ cancels < MaxCancels
    /\ cancels' = cancels + 1
    /\ pc' = [pc EXCEPT ![t] = "idle"]
    /\ lock' = [n \in Nodes |-> lock[n] \ {t}]
    /\ unannounced' = [unannounced EXCEPT ![home[t]] = @ \/ pc[t] = "bump"]
    /\ UNCHANGED <<grant, stale, db, cacheVars, pullVars, statusVars, home, flow, tok, gen,
                   presented, reply, tries, retried, crashes, losses, garbled, storeFaults, polls>>

\* The process dies and restarts: rows survive; tasks, locks and caches do not.  A pull is a
\* process of its own and goes on.
Crash(n) ==
    /\ crashes < MaxCrashes
    /\ crashes' = crashes + 1
    /\ pc' = [t \in Tasks |-> IF home[t] = n THEN "idle" ELSE pc[t]]
    /\ lock' = [lock EXCEPT ![n] = {}]
    /\ storeGen' = [storeGen EXCEPT ![n] = 0]
    /\ cacheGen' = [cacheGen EXCEPT ![n] = 0]
    /\ cached' = [cached EXCEPT ![n] = None]
    /\ unannounced' = [unannounced EXCEPT ![n] = FALSE]
    /\ listed' = [listed EXCEPT ![n] = NoStatus]
    /\ UNCHANGED <<grant, stale, db, status, blind, pullVars, home, flow, tok, gen, presented, reply,
                   tries, retried, cancels, losses, garbled, storeFaults, polls>>

\* replica_pull::pull, run on a timer as a process of its own (`polyflare replica pull`): the
\* master's row is fetched; a pull that failed is followed by a new one ...
PullFetch(n) ==
    /\ n \in Replicas
    /\ pulled' = [pulled EXCEPT ![n] = db[Master]]
    /\ differs' = [differs EXCEPT ![n] = FALSE]
    /\ UNCHANGED <<grant, stale, db, cacheVars, unannounced, statusVars, lock, taskVars, faults>>

\* ... and compared with the replica's ...
PullCompare(n) ==
    /\ pulled[n] # None /\ ~differs[n]
    /\ IF pulled[n] = db[n]
       THEN pulled' = [pulled EXCEPT ![n] = None] /\ UNCHANGED differs
       ELSE differs' = [differs EXCEPT ![n] = TRUE] /\ UNCHANGED pulled
    /\ UNCHANGED <<grant, stale, db, cacheVars, unannounced, statusVars, lock, taskVars, faults>>

\* ... then written if they differed, whatever the row holds by now.  The pull bumps a generation
\* of its own: the serving process is not told.  The status of an existing account is left alone.
PullWrite(n) ==
    /\ pulled[n] # None /\ differs[n]
    /\ db' = [db EXCEPT ![n] = pulled[n]]
    /\ unannounced' = [unannounced EXCEPT ![n] = TRUE]
    /\ pulled' = [pulled EXCEPT ![n] = None]
    /\ differs' = [differs EXCEPT ![n] = FALSE]
    /\ UNCHANGED <<grant, stale, cacheVars, statusVars, lock, taskVars, faults>>

Pull(n) == PullFetch(n) \/ PullCompare(n) \/ PullWrite(n)

Refresh(t) == \/ TakeLock(t) \/ ReadUnderLock(t) \/ ServerAnswers(t) \/ TransportError(t)
              \/ Unreadable(t) \/ Commit(t) \/ CommitFails(t) \/ Bump(t) \/ Mark(t) \/ MarkFails(t)
Step(t) == \/ StartRequest(t) \/ CacheGet(t) \/ LoadRow(t) \/ CacheInsert(t)
           \/ Answer(t) \/ Rejected(t) \/ StartSweep(t) \/ Refresh(t) \/ Cancel(t)

Next == \/ \E t \in Tasks : Step(t)
        \/ \E n \in Nodes : \/ ReadForPoll(n) \/ PollUsage(n) \/ CacheExpire(n) \/ Crash(n)
                            \/ Pull(n)
        \/ \E g \in Pairs : Expire(g)

\* Tasks that have begun are polled, a lock (tokio's is a FIFO queue) is granted to each waiter
\* in turn, and the sweep comes round; expiry, faults, pulls and new requests are not forced.
Progress(t) == \/ CacheGet(t) \/ LoadRow(t) \/ CacheInsert(t) \/ Answer(t) \/ Rejected(t)
               \/ ReadUnderLock(t) \/ ServerAnswers(t) \/ Commit(t) \/ Bump(t) \/ Mark(t)
Fairness == \A t \in Tasks : /\ WF_vars(Progress(t))
                             /\ SF_vars(TakeLock(t))
                             /\ SF_vars(StartSweep(t))

Spec == Init /\ [][Next]_vars
FairSpec == Spec /\ Fairness

(***************************************************************************)
(* Properties.                                                             *)
(***************************************************************************)
Refreshing == {"locked", "exchange", "minted", "reused", "unreadable", "bump", "mark"}
PCs == {"idle", "lookup", "load", "insert", "serving", "want"} \cup Refreshing
Statuses == Usable \cup {"reauth_required"}

\* Type invariant.
TypeOK ==
    /\ grant \in Nat /\ stale \subseteq Nat
    /\ db \in [Nodes -> Nat]
    /\ status \in [Nodes -> Statuses]
    /\ storeGen \in [Nodes -> Nat] /\ cacheGen \in [Nodes -> Nat]
    /\ cached \in [Nodes -> Nat \cup {None}] /\ pulled \in [Nodes -> Nat \cup {None}]
    /\ differs \in [Nodes -> BOOLEAN]
    /\ unannounced \in [Nodes -> BOOLEAN] /\ blind \in [Nodes -> BOOLEAN]
    /\ listed \in [Nodes -> Statuses \cup {NoStatus}]
    /\ lock \in [Nodes -> SUBSET Tasks]
    /\ pc \in [Tasks -> PCs] /\ home \in [Tasks -> Nodes] /\ flow \in [Tasks -> Flows]
    /\ tok \in [Tasks -> Nat \cup {None}] /\ gen \in [Tasks -> Nat]
    /\ presented \in [Tasks -> Nat \cup {None}] /\ reply \in [Tasks -> Nat \cup {None}]
    /\ tries \in [Tasks -> Nat] /\ retried \in [Tasks -> BOOLEAN]
    /\ cancels \in Nat /\ crashes \in Nat /\ losses \in Nat /\ garbled \in Nat
    /\ storeFaults \in Nat /\ polls \in Nat

\* Per-account single flight: whoever is past the lock holds it alone, in every flow and with
\* cancellations and crashes, so no two refreshes of a process overlap.
SingleFlight ==
    \A t \in Tasks : pc[t] \in Refreshing => lock[home[t]] = {t}

\* No interruption of a refresh; at most one result that cannot be stored, and then no usage
\* poll in progress, which writes a status derived from an older row over the mark.
Undisturbed == /\ cancels = 0 /\ crashes = 0 /\ losses = 0 /\ garbled = 0
               /\ storeFaults <= PersistMaxAttempts
               /\ polls = 0 \/ storeFaults < PersistMaxAttempts

\* "N parallel refreshes would leave the losers presenting a dead token" (ingress.rs:983):
\* with one master and no interruption, no refresh token is ever presented twice.
NeverReused == Undisturbed => \A t \in Tasks : pc[t] # "reused"

\* A refresh token that was spent and could not be replaced is never left in an account that
\* still looks usable (the fail-closed mark after PERSIST_MAX_ATTEMPTS).
SpentIsMarked ==
    (Undisturbed /\ lock[Master] = {} /\ db[Master] # grant) => status[Master] \notin Usable

\* reauth_required is never set on credentials that still work, unless the answer to a refresh
\* was unreadable: then the account is marked although oauth.rs:56 calls a 5xx transient.
NoFalseReauth ==
    (status[Master] = "reauth_required" /\ ~blind[Master]) => db[Master] # grant

\* "so a rotated token is never served" (token_cache.rs:6): the cache holds the stored pair under
\* the current generation, but between a commit and its bump, and after a write that no bump in
\* this process follows: a replica's pull, or a request cancelled between the two.
CacheHoldsStored ==
    \A n \in Nodes :
        (/\ cached[n] # None /\ cacheGen[n] = storeGen[n]
         /\ cached[n] # db[n] /\ ~unannounced[n])
        => \E t \in Tasks : home[t] = n /\ pc[t] = "bump"

\* Every request gets through the cache, the lock and the refresh to an answer.
RequestsAnswered == \A t \in Tasks : pc[t] = "lookup" ~> pc[t] = "idle"

\* The sweep keeps idle accounts warm: a stored pair that is due is replaced, or the account
\* is marked.
StaleIsReplaced ==
    \A g \in Pairs :
        (db[Master] = g /\ g \in stale /\ \E t \in Tasks : home[t] = Master)
            ~> (db[Master] # g \/ status[Master] \notin Usable)
=============================================================================
