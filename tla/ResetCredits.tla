---------------------------- MODULE ResetCredits ----------------------------
(***************************************************************************)
(* The redemption of reset credits (reset_credits.rs) over its ledger      *)
(* (reset_credit_repo.rs): concurrent and repeated calls of redeem_one,    *)
(* for an account the caller names (account_redeem_handler, and each       *)
(* account of a fleet request in turn) or for one the ledger pins to the   *)
(* caller's id (native_consume), under a lease per account that a          *)
(* heartbeat renews.                                                       *)
(*                                                                         *)
(* A call is a task; each step of it is one store transaction or one       *)
(* upstream call.  Time is abstract: a lease is lapsed or not, and the 24  *)
(* hours for which the ledger remembers do not pass.  Pools, and the       *)
(* ranking of accounts, are left out: any account may be the plan's first. *)
(***************************************************************************)
EXTENDS Integers

CONSTANTS
    Tasks,      \* concurrent calls
    Accounts,
    Credits,    \* credit ids, numbers in the order they expire
    Owner,      \* the account that earned each credit
    Later,      \* credits that are not there at first
    Asked,      \* accounts that callers name
    Named,      \* credits that callers name
    NativeIds,  \* redeem_request_ids of native_consume
    DirectIds,  \* those of account_redeem_handler and of fleet requests
    None        \* no account, credit, result or holder

Requests == NativeIds \cup DirectIds
\* The terminal outcomes: the provider's codes, of which the gateway gives "no_credit" itself too
Codes == {"reset", "already_redeemed", "nothing_to_reset", "no_credit"}

\* The holder of a lease that nobody renews.
Orphan == "orphan"

ASSUME CreditConstants ==
    /\ Credits \subseteq Nat /\ Owner \in [Credits -> Accounts] /\ Later \subseteq Credits
    /\ Asked \subseteq Accounts /\ Named \subseteq Credits /\ NativeIds \cap DirectIds = {}
    /\ None \notin Tasks /\ None \notin Accounts /\ None \notin Credits
    /\ None \notin Requests /\ None \notin Codes /\ Orphan \notin Tasks

VARIABLES
    stock,      \* upstream: the credits that are available
    spentBy,    \* upstream: the request that spent a credit
    present,    \* accounts that were not deleted
    claim,      \* reset_credit_redeem_claims: the holder of each account's lease
    lapsed,     \* leases whose expires_at has passed
    pin,        \* reset_credit_redeem_requests: the credit of each account and request
    result,     \* reset_credit_redeem_results: its terminal code
    native,     \* reset_credit_native_requests: account, requested credit, terminal code
    pc,         \* where each call is
    req, acct, want, sel, code,  \* its request, account, wanted credit, selected credit, answer
    suspended   \* the process once slept through the heartbeats of a lease it held

upstream == <<stock, spentBy>>
leases == <<claim, lapsed>>
ledger == <<pin, result, native>>
call == <<req, acct, want, sel, code>>
vars == <<upstream, present, leases, ledger, pc, call, suspended>>

NoRow == [account |-> None, credit |-> None, code |-> None]
Settled(row, answer) == [account |-> row.account, credit |-> row.credit, code |-> answer]
IsNative(t) == req[t] \in NativeIds
Claimed == {"recheck", "read", "check", "fetch", "nocredit", "pin", "consume", "complete"}

Init ==
    /\ stock = Credits \ Later /\ spentBy = [c \in Credits |-> None]
    /\ present = Accounts
    /\ claim = [a \in Accounts |-> None] /\ lapsed = {}
    /\ pin = [a \in Accounts |-> [r \in Requests |-> None]]
    /\ result = [a \in Accounts |-> [r \in Requests |-> None]]
    /\ native = [r \in NativeIds |-> NoRow]
    /\ pc = [t \in Tasks |-> "idle"]
    /\ req = [t \in Tasks |-> None] /\ acct = [t \in Tasks |-> None]
    /\ want = [t \in Tasks |-> None] /\ sel = [t \in Tasks |-> None]
    /\ code = [t \in Tasks |-> None]
    /\ suspended = FALSE

(***************************************************************************)
(* Steps a call is made of.                                                *)
(***************************************************************************)
Goto(t, label) == pc' = [pc EXCEPT ![t] = label]

\* The call returns: what it knew is gone.
End(t) ==
    /\ Goto(t, "idle")
    /\ req' = [req EXCEPT ![t] = None] /\ acct' = [acct EXCEPT ![t] = None]
    /\ want' = [want EXCEPT ![t] = None] /\ sel' = [sel EXCEPT ![t] = None]
    /\ code' = [code EXCEPT ![t] = None]

\* ClaimGuard::release: the row goes, if it is still this call's.
Release(t) ==
    IF claim[acct[t]] = t
    THEN claim' = [claim EXCEPT ![acct[t]] = None] /\ lapsed' = lapsed \ {acct[t]}
    ELSE UNCHANGED leases

EndClaimed(t) == Release(t) /\ End(t)

(***************************************************************************)
(* native_consume: from a request id to its account.                       *)
(***************************************************************************)
\* The pin does not answer to what the caller names: 409.
Conflicts(row, w) == w # None /\ (row.account # Owner[w] \/ row.credit # w)

StartDirect(t, r, a, w) ==
    /\ pc[t] = "idle" /\ Goto(t, "look")
    /\ req' = [req EXCEPT ![t] = r] /\ acct' = [acct EXCEPT ![t] = a]
    /\ want' = [want EXCEPT ![t] = w]
    /\ UNCHANGED <<upstream, present, leases, ledger, sel, code, suspended>>

StartNative(t, r, w) ==
    /\ pc[t] = "idle" /\ Goto(t, "native")
    /\ req' = [req EXCEPT ![t] = r] /\ want' = [want EXCEPT ![t] = w]
    /\ UNCHANGED <<upstream, present, leases, ledger, acct, sel, code, suspended>>

\* The rest of a call whose request is pinned to the account of a row, if the plan has that account.
FollowPin(t, row) ==
    IF Conflicts(row, want[t]) \/ row.account = None \/ row.account \notin present
    THEN End(t)
    ELSE /\ Goto(t, "look")
         /\ acct' = [acct EXCEPT ![t] = row.account] /\ want' = [want EXCEPT ![t] = row.credit]
         /\ UNCHANGED <<req, sel, code>>

\* get_native_request: replay, recovery of a pinned operation, or a new one.
ReadNative(t) ==
    LET row == native[req[t]] IN
    /\ pc[t] = "native"
    /\ \/ row = NoRow /\ Goto(t, "select") /\ UNCHANGED call
       \/ row # NoRow /\ row.code # None /\ End(t)
       \/ row # NoRow /\ row.code = None /\ FollowPin(t, row)
    /\ UNCHANGED <<upstream, present, leases, ledger, suspended>>

\* pin_native_request: the account the caller names, or one the plan ranks first; the first row
\* of a request id stays.
PinNative(t) ==
    /\ pc[t] = "select"
    /\ \E a \in IF want[t] = None THEN present ELSE present \cap {Owner[want[t]]} :
           LET row == IF native[req[t]] = NoRow
                      THEN [account |-> a, credit |-> want[t], code |-> None]
                      ELSE native[req[t]]
           IN native' = [native EXCEPT ![req[t]] = row] /\ FollowPin(t, row)
    /\ UNCHANGED <<upstream, present, leases, pin, result, suspended>>

\* complete_native_no_credit: no account to redeem, unless the id was pinned since.
NoCandidate(t) ==
    /\ pc[t] = "select" /\ want[t] = None
    /\ native' = IF native[req[t]] = NoRow
                 THEN [native EXCEPT ![req[t]] = Settled(NoRow, "no_credit")]
                 ELSE native
    /\ End(t)
    /\ UNCHANGED <<upstream, present, leases, pin, result, suspended>>

(***************************************************************************)
(* redeem_one.                                                             *)
(***************************************************************************)
\* get_result: a terminal result is replayed.
Look(t) ==
    /\ pc[t] = "look"
    /\ IF result[acct[t]][req[t]] # None THEN End(t) ELSE Goto(t, "claim") /\ UNCHANGED call
    /\ UNCHANGED <<upstream, present, leases, ledger, suspended>>

\* try_acquire_claim: nobody holds the lease, or its holder let it lapse.
Claim(t) ==
    /\ pc[t] = "claim" /\ acct[t] \in present
    /\ claim[acct[t]] = None \/ acct[t] \in lapsed
    /\ claim' = [claim EXCEPT ![acct[t]] = t] /\ lapsed' = lapsed \ {acct[t]}
    /\ Goto(t, "recheck")
    /\ UNCHANGED <<upstream, present, ledger, call, suspended>>

\* The lease was not to be had for CLAIM_ACQUIRE_TIMEOUT.
Busy(t) ==
    /\ pc[t] = "claim" /\ claim[acct[t]] # None
    /\ End(t)
    /\ UNCHANGED <<upstream, present, leases, ledger, suspended>>

\* Mutant: under the lease the result is taken to be missing still.
RecheckTrusting(t) ==
    /\ pc[t] = "recheck"
    /\ IF acct[t] \notin present
       THEN EndClaimed(t)
       ELSE Goto(t, "read") /\ UNCHANGED <<call, leases>>
    /\ UNCHANGED <<upstream, present, ledger, suspended>>

\* Under the lease: the account may be gone, the result may be there by now.
Recheck(t) ==
    /\ pc[t] = "recheck"
    /\ IF acct[t] \notin present \/ result[acct[t]][req[t]] # None
       THEN EndClaimed(t)
       ELSE Goto(t, "read") /\ UNCHANGED <<call, leases>>
    /\ UNCHANGED <<upstream, present, ledger, suspended>>

\* Mutant: a repeated request selects afresh.
ReadPinNever(t) ==
    /\ pc[t] = "read"
    /\ sel' = [sel EXCEPT ![t] = None]
    /\ Goto(t, IF IsNative(t) THEN "check" ELSE "fetch")
    /\ UNCHANGED <<upstream, present, leases, ledger, req, acct, want, code, suspended>>

\* get_request: the credit an earlier attempt was pinned to.
ReadPin(t) ==
    /\ pc[t] = "read"
    /\ sel' = [sel EXCEPT ![t] = pin[acct[t]][req[t]]]
    /\ Goto(t, IF IsNative(t) THEN "check" ELSE "fetch")
    /\ UNCHANGED <<upstream, present, leases, ledger, req, acct, want, code, suspended>>

\* get_native_request: "no_credit" is terminal, credits that appear later included.
CheckNative(t) ==
    /\ pc[t] = "check"
    /\ IF native[req[t]].code = "no_credit"
       THEN EndClaimed(t)
       ELSE Goto(t, "fetch") /\ UNCHANGED <<call, leases>>
    /\ UNCHANGED <<upstream, present, ledger, suspended>>

\* fetch_reset_credits, and the credit that expires first among those the caller may mean.
Available(t) ==
    {c \in stock : Owner[c] = acct[t] /\ (want[t] # None => c = want[t])}

Fetch(t) ==
    /\ pc[t] = "fetch" /\ acct[t] \in present
    /\ \/ sel[t] # None /\ Goto(t, "pin") /\ UNCHANGED <<call, leases>>
       \/ /\ sel[t] = None
          /\ \E c \in Available(t) :
                (\A d \in Available(t) : c <= d) /\ sel' = [sel EXCEPT ![t] = c]
          /\ Goto(t, "pin")
          /\ UNCHANGED <<req, acct, want, code, leases>>
       \/ /\ sel[t] = None /\ Available(t) = {}
          /\ IF IsNative(t) THEN Goto(t, "nocredit") /\ UNCHANGED <<call, leases>> ELSE EndClaimed(t)
    /\ UNCHANGED <<upstream, present, ledger, suspended>>

\* complete_native_account_no_credit.
NoCredit(t) ==
    /\ pc[t] = "nocredit"
    /\ native' = IF native[req[t]].account = acct[t] /\ native[req[t]].code = None
                 THEN [native EXCEPT ![req[t]] = Settled(native[req[t]], "no_credit")] ELSE native
    /\ EndClaimed(t)
    /\ UNCHANGED <<upstream, present, pin, result, suspended>>

\* Mutant: the credit selected last is pinned.
PinAnew(t) ==
    /\ pc[t] = "pin" /\ acct[t] \in present
    /\ pin' = [pin EXCEPT ![acct[t]] = [pin[acct[t]] EXCEPT ![req[t]] = sel[t]]]
    /\ Goto(t, "consume")
    /\ UNCHANGED <<upstream, present, leases, result, native, call, suspended>>

\* pin_request: the first credit of a request stays its credit.
Pin(t) ==
    /\ pc[t] = "pin" /\ acct[t] \in present
    /\ LET c == IF pin[acct[t]][req[t]] = None THEN sel[t] ELSE pin[acct[t]][req[t]]
       IN pin' = [pin EXCEPT ![acct[t]] = [pin[acct[t]] EXCEPT ![req[t]] = c]]
          /\ sel' = [sel EXCEPT ![t] = c]
    /\ Goto(t, "consume")
    /\ UNCHANGED <<upstream, present, leases, result, native, req, acct, want, code, suspended>>

\* consume_reset_credit at the provider: an available credit is spent, one that is not is refused,
\* and a reset that would change nothing costs nothing.  A credit it lists it may still deny, but
\* not to the redeem_request_id that spent it: the id is sent for the provider to know it again.
Provider(t, answer) ==
    \/ /\ answer = "reset" /\ sel[t] \in stock
       /\ stock' = stock \ {sel[t]} /\ spentBy' = [spentBy EXCEPT ![sel[t]] = req[t]]
    \/ answer = "already_redeemed" /\ sel[t] \notin stock /\ UNCHANGED upstream
    \/ answer = "nothing_to_reset" /\ UNCHANGED upstream
    \/ answer = "no_credit" /\ spentBy[sel[t]] # req[t] /\ UNCHANGED upstream

\* Every code of Codes is terminal, as a 2xx or as an error; the answer may be lost, and a consume
\* that timed out has been served by then or never is.
Consume(t) ==
    /\ pc[t] = "consume"
    /\ \E answer \in Codes :
        /\ Provider(t, answer)
        /\ \/ code' = [code EXCEPT ![t] = answer] /\ Goto(t, "complete")
              /\ UNCHANGED <<req, acct, want, sel, leases>>
           \/ EndClaimed(t)
    /\ UNCHANGED <<present, ledger, suspended>>

\* complete_request_with_native: the first result of a request stays, and is the answer.
Complete(t) ==
    /\ pc[t] = "complete"
    /\ LET terminal == IF result[acct[t]][req[t]] = None THEN code[t] ELSE result[acct[t]][req[t]]
       IN /\ result' = [result EXCEPT ![acct[t]] = [result[acct[t]] EXCEPT ![req[t]] = terminal]]
          /\ native' = IF IsNative(t) /\ native[req[t]].account = acct[t]
                          /\ native[req[t]].code = None
                       THEN [native EXCEPT ![req[t]] = Settled(native[req[t]], terminal)] ELSE native
    /\ EndClaimed(t)
    /\ UNCHANGED <<upstream, present, pin, suspended>>

(***************************************************************************)
(* What can go wrong, and the world.                                       *)
(***************************************************************************)
\* A store or upstream error, a refusal, a failed or refused renewal (LeaseLost).
Fail(t) ==
    /\ pc[t] # "idle"
    /\ IF pc[t] \in Claimed THEN EndClaimed(t) ELSE End(t) /\ UNCHANGED leases
    /\ UNCHANGED <<upstream, present, ledger, suspended>>

\* Mutant: a dropped call leaves its heartbeat running.
DropDetached(t) ==
    /\ pc[t] # "idle"
    /\ End(t)
    /\ UNCHANGED <<upstream, present, leases, ledger, suspended>>

\* The caller goes away or the process dies: the heartbeat stops and the row stays.
Drop(t) ==
    /\ pc[t] # "idle"
    /\ End(t)
    /\ claim' = IF pc[t] \in Claimed /\ claim[acct[t]] = t
                THEN [claim EXCEPT ![acct[t]] = Orphan] ELSE claim
    /\ UNCHANGED <<upstream, present, lapsed, ledger, suspended>>

\* Nobody renews the lease of a call that was dropped.
OrphanLapses(a) ==
    /\ claim[a] = Orphan /\ a \notin lapsed
    /\ lapsed' = lapsed \cup {a}
    /\ UNCHANGED <<upstream, present, claim, ledger, pc, call, suspended>>

\* The process sleeps for longer than the lease of a call it serves, ...
Suspend(a) ==
    /\ claim[a] \in Tasks /\ a \notin lapsed
    /\ lapsed' = lapsed \cup {a} /\ suspended' = TRUE
    /\ UNCHANGED <<upstream, present, claim, ledger, pc, call>>

\* ... and renews it, unless another took it first.
Renew(a) ==
    /\ claim[a] \in Tasks /\ a \in lapsed
    /\ lapsed' = lapsed \ {a}
    /\ UNCHANGED <<upstream, present, claim, ledger, pc, call, suspended>>

\* The account is deleted: its lease and its pins go with it, results and native rows stay.
Delete(a) ==
    /\ a \in present
    /\ present' = present \ {a}
    /\ claim' = [claim EXCEPT ![a] = None] /\ lapsed' = lapsed \ {a}
    /\ pin' = [pin EXCEPT ![a] = [r \in Requests |-> None]]
    /\ UNCHANGED <<upstream, result, native, pc, call, suspended>>

\* The account earns a credit.
Grant(c) ==
    /\ c \in Later /\ c \notin stock /\ spentBy[c] = None
    /\ stock' = stock \cup {c}
    /\ UNCHANGED <<spentBy, present, leases, ledger, pc, call, suspended>>

\* A caller that names an account names a credit of that account, if any.
Start(t) ==
    \/ \E r \in DirectIds, a \in Asked :
        \E w \in {c \in Named : Owner[c] = a} \cup {None} : StartDirect(t, r, a, w)
    \/ \E r \in NativeIds, w \in Named \cup {None} : StartNative(t, r, w)

Step(t) ==
    \/ ReadNative(t) \/ PinNative(t) \/ NoCandidate(t)
    \/ Look(t) \/ Claim(t) \/ Busy(t) \/ Recheck(t) \/ ReadPin(t) \/ CheckNative(t)
    \/ Fetch(t) \/ NoCredit(t) \/ Pin(t) \/ Consume(t) \/ Complete(t) \/ Fail(t)

World(a) == OrphanLapses(a) \/ Suspend(a) \/ Renew(a) \/ Delete(a)

Next ==
    \/ \E t \in Tasks : Start(t) \/ Step(t) \/ Drop(t)
    \/ \E a \in Accounts : World(a)
    \/ \E c \in Credits : Grant(c)

Spec == Init /\ [][Next]_vars

(***************************************************************************)
(* Properties.                                                             *)
(***************************************************************************)
OrNone(S) == S \cup {None}

\* Type invariant: in particular, whoever asks the provider for a reset has selected a credit,
\* and whoever records an answer has one.
TypeOK ==
    /\ stock \subseteq Credits /\ spentBy \in [Credits -> OrNone(Requests)]
    /\ present \subseteq Accounts /\ lapsed \subseteq Accounts /\ suspended \in BOOLEAN
    /\ claim \in [Accounts -> Tasks \cup {None, Orphan}]
    /\ pin \in [Accounts -> [Requests -> OrNone(Credits)]]
    /\ result \in [Accounts -> [Requests -> OrNone(Codes)]]
    /\ native \in [NativeIds -> [account : OrNone(Accounts), credit : OrNone(Credits),
                                 code : OrNone(Codes)]]
    /\ pc \in [Tasks -> Claimed \cup {"idle", "native", "select", "look", "claim"}]
    /\ req \in [Tasks -> OrNone(Requests)] /\ acct \in [Tasks -> OrNone(Accounts)]
    /\ want \in [Tasks -> OrNone(Credits)] /\ code \in [Tasks -> OrNone(Codes)]
    /\ sel \in [Tasks -> OrNone(Credits)]
    /\ \A t \in Tasks :
        /\ pc[t] # "idle" => req[t] \in Requests
        /\ pc[t] \in {"native", "select", "check", "nocredit"} => req[t] \in NativeIds
        /\ pc[t] \in Claimed \cup {"look", "claim"} => acct[t] \in Accounts
        /\ pc[t] \in {"pin", "consume", "complete"} => sel[t] \in Credits
        /\ pc[t] = "complete" => code[t] \in Codes

\* One native request is one operation, wherever it is pinned; another request is one for each
\* account.
Ops == ({None} \X NativeIds) \cup (Accounts \X DirectIds)
SpentOn(o) == {c \in Credits : spentBy[c] = o[2] /\ (o[1] # None => Owner[c] = o[1])}
OutcomeOf(o) == {IF o[1] = None THEN native[o[2]].code ELSE result[o[1]][o[2]]} \ {None}

Promise == INSTANCE Redemption
    WITH spent <- [o \in Ops |-> SpentOn(o)], outcome <- [o \in Ops |-> OutcomeOf(o)]

\* Whatever is repeated, lost, dropped, deleted or overslept, an operation spends at most one
\* credit and its outcome is final.
OneShot == Promise!Spec

\* A native request is told "no_credit" for good, by the gateway that finds no credit to pin or by
\* the provider, only if it has spent none, on whatever account: the pin of an attempt whose answer
\* was lost is found by its repetition, which asks the provider for the same credit again.  A
\* process that slept through its lease is excepted: its attempt may still be under way.
NoCreditIsUnspent ==
    ~suspended => \A r \in NativeIds :
        native[r].code = "no_credit" => \A c \in Credits : spentBy[c] # r

\* "concurrent_duplicate_redeems_make_one_upstream_consume_call": of concurrent duplicates, the
\* one that gets the lease second finds the result, and does not ask the provider again.
AnsweredNotResent ==
    ~suspended => \A t \in Tasks : pc[t] = "consume" => result[acct[t]][req[t]] = None

\* "Dropping/cancelling the request must never detach a task that renews the lease forever"
\* (reset_credits.rs:451): whoever holds a lease and could renew it is a call under way on that
\* account, so every other lease runs out.
HolderUnderWay ==
    \A a \in Accounts : claim[a] \in Tasks => pc[claim[a]] \in Claimed /\ acct[claim[a]] = a
=============================================================================
