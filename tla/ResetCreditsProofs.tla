------------------------- MODULE ResetCreditsProofs -------------------------
(***************************************************************************)
(* Theorems about ResetCredits, for every set of calls, accounts, credits  *)
(* and request ids: the state is well typed, a lease is held by a call     *)
(* under way, and the ledger implements Redemption: whatever is repeated,  *)
(* lost, dropped, deleted or overslept, an operation spends at most one    *)
(* credit and its outcome is final.  That needs no lease.  The last part   *)
(* is what the lease is for: as long as nobody sleeps through one, the     *)
(* calls of an account follow each other, so that a duplicate is answered  *)
(* from the result, and who is told no_credit has spent none.              *)
(***************************************************************************)
EXTENDS ResetCredits, TLAPS

(***************************************************************************)
(* Type correctness.  The steps of a call change its own entries only.     *)
(***************************************************************************)
Labels == Claimed \cup {"idle", "native", "select", "look", "claim"}

\* What TypeOK says of the calls, ...
CallsTyped ==
    /\ pc \in [Tasks -> Labels]
    /\ req \in [Tasks -> OrNone(Requests)] /\ acct \in [Tasks -> OrNone(Accounts)]
    /\ want \in [Tasks -> OrNone(Credits)] /\ code \in [Tasks -> OrNone(Codes)]
    /\ sel \in [Tasks -> OrNone(Credits)]

\* ... of one of them, ...
CallSound(t) ==
    /\ pc[t] # "idle" => req[t] \in Requests
    /\ pc[t] \in {"native", "select", "check", "nocredit"} => req[t] \in NativeIds
    /\ pc[t] \in Claimed \cup {"look", "claim"} => acct[t] \in Accounts
    /\ pc[t] \in {"pin", "consume", "complete"} => sel[t] \in Credits
    /\ pc[t] = "complete" => code[t] \in Codes

\* ... and of what they share.
Rows == [account : OrNone(Accounts), credit : OrNone(Credits), code : OrNone(Codes)]
SharedTyped ==
    /\ stock \subseteq Credits /\ spentBy \in [Credits -> OrNone(Requests)]
    /\ present \subseteq Accounts /\ lapsed \subseteq Accounts /\ suspended \in BOOLEAN
    /\ claim \in [Accounts -> Tasks \cup {None, Orphan}]
    /\ pin \in [Accounts -> [Requests -> OrNone(Credits)]]
    /\ result \in [Accounts -> [Requests -> OrNone(Codes)]]
    /\ native \in [NativeIds -> Rows]

\* The entries of the other calls stay.
OthersKept(t) ==
    \A u \in Tasks \ {t} : /\ pc'[u] = pc[u] /\ req'[u] = req[u] /\ acct'[u] = acct[u]
                           /\ want'[u] = want[u] /\ sel'[u] = sel[u] /\ code'[u] = code[u]

\* A step of t that leaves the shared state, the entries and its own call in order keeps TypeOK.
LEMMA TypeAfter ==
    ASSUME TypeOK, NEW t \in Tasks, SharedTyped', CallsTyped', OthersKept(t), CallSound(t)'
    PROVE  TypeOK'
  <1>1. \A u \in Tasks : CallSound(u)'
    BY DEF OthersKept, CallSound, TypeOK
  <1> QED BY <1>1 DEF TypeOK, SharedTyped, CallsTyped, CallSound, Labels, Rows

\* The end of a call.
LEMMA EndTyped ==
    ASSUME TypeOK, NEW t \in Tasks, End(t)
    PROVE  CallsTyped' /\ OthersKept(t) /\ CallSound(t)' /\ pc'[t] = "idle"
  <1>1. CallsTyped'
    BY DEF TypeOK, End, Goto, CallsTyped, Labels, OrNone
  <1>2. OthersKept(t)
    BY DEF TypeOK, End, Goto, OthersKept
  <1>3. pc'[t] = "idle"
    BY DEF TypeOK, End, Goto
  <1>4. CallSound(t)'
    BY <1>3 DEF CallSound, Claimed
  <1> QED BY <1>1, <1>2, <1>3, <1>4

\* A step to another label that changes no entry.
LEMMA GotoTyped ==
    ASSUME TypeOK, NEW t \in Tasks, NEW label \in Labels, Goto(t, label), UNCHANGED call
    PROVE  CallsTyped' /\ OthersKept(t) /\ pc'[t] = label
  BY DEF TypeOK, Goto, call, CallsTyped, Labels, OthersKept

\* A release leaves the leases well typed.
LEMMA ReleaseTyped ==
    ASSUME TypeOK, NEW t \in Tasks, Release(t)
    PROVE  claim' \in [Accounts -> Tasks \cup {None, Orphan}] /\ lapsed' \subseteq Accounts
  BY DEF TypeOK, Release, leases

\* The native rows stay rows when one of them is settled.
LEMMA SettledTyped ==
    ASSUME NEW row \in Rows, NEW answer \in Codes
    PROVE  Settled(row, answer) \in Rows
  BY DEF Rows, Settled, OrNone

LEMMA NoRowTyped == NoRow \in Rows
  BY DEF NoRow, Rows, OrNone

\* A call that follows the row its request is pinned to.
LEMMA FollowTyped ==
    ASSUME TypeOK, NEW t \in Tasks, NEW row \in Rows, req[t] \in NativeIds, FollowPin(t, row)
    PROVE  CallsTyped' /\ OthersKept(t) /\ CallSound(t)'
  <1>1. CASE End(t)
    BY <1>1, EndTyped
  <1>2. CASE ~End(t)
    <2>1. /\ Goto(t, "look") /\ row.account \in present
          /\ acct' = [acct EXCEPT ![t] = row.account] /\ want' = [want EXCEPT ![t] = row.credit]
          /\ UNCHANGED <<req, sel, code>>
      BY <1>2 DEF FollowPin
    <2>2. row.account \in Accounts /\ row.credit \in OrNone(Credits)
      BY <2>1 DEF TypeOK, Rows
    <2>3. CallsTyped'
      BY <2>1, <2>2 DEF TypeOK, Goto, CallsTyped, Labels, OrNone
    <2>4. OthersKept(t)
      BY <2>1 DEF TypeOK, Goto, OthersKept
    <2>5. pc'[t] = "look" /\ acct'[t] \in Accounts /\ req'[t] \in Requests
      BY <2>1, <2>2 DEF TypeOK, Goto, Requests
    <2> QED BY <2>3, <2>4, <2>5 DEF CallSound, Claimed
  <1> QED BY <1>1, <1>2

\* The steps before the lease.
LEMMA NativeTyped ==
    ASSUME TypeOK, NEW t \in Tasks, ReadNative(t) \/ PinNative(t) \/ NoCandidate(t)
    PROVE  TypeOK'
  <1>0. req[t] \in NativeIds
    BY DEF TypeOK, ReadNative, PinNative, NoCandidate
  <1>1. native[req[t]] \in Rows
    BY <1>0 DEF TypeOK, Rows
  <1>2. CASE ReadNative(t)
    <2>1. SharedTyped'
      BY <1>2 DEF ReadNative, TypeOK, SharedTyped, Rows, upstream, leases, ledger
    <2>2. CASE Goto(t, "select") /\ UNCHANGED call
      <3>1. CallsTyped' /\ OthersKept(t) /\ pc'[t] = "select"
        BY <2>2, GotoTyped DEF Labels
      <3>2. CallSound(t)'
        BY <1>0, <2>2, <3>1 DEF CallSound, Claimed, call, Requests
      <3> QED BY <2>1, <3>1, <3>2, TypeAfter
    <2>3. CASE End(t)
      BY <2>1, <2>3, EndTyped, TypeAfter
    <2>4. CASE FollowPin(t, native[req[t]])
      BY <1>0, <1>1, <2>1, <2>4, FollowTyped, TypeAfter
    <2> QED BY <1>2, <2>2, <2>3, <2>4 DEF ReadNative
  <1>3. CASE PinNative(t)
    <2>1. PICK a \in Accounts, row \in Rows :
            native' = [native EXCEPT ![req[t]] = row] /\ FollowPin(t, row)
      <3>1. PICK a \in IF want[t] = None THEN present ELSE present \cap {Owner[want[t]]} :
              LET row == IF native[req[t]] = NoRow
                         THEN [account |-> a, credit |-> want[t], code |-> None]
                         ELSE native[req[t]]
              IN native' = [native EXCEPT ![req[t]] = row] /\ FollowPin(t, row)
        BY <1>3 DEF PinNative
      <3>2. a \in Accounts
        BY DEF TypeOK
      <3>3. [account |-> a, credit |-> want[t], code |-> None] \in Rows
        BY <3>2 DEF TypeOK, Rows, OrNone
      <3> QED BY <1>1, <3>1, <3>2, <3>3
    <2>2. SharedTyped'
      BY <1>0, <1>3, <2>1 DEF PinNative, TypeOK, SharedTyped, Rows, upstream, leases
    <2> QED BY <1>0, <2>1, <2>2, FollowTyped, TypeAfter
  <1>4. CASE NoCandidate(t)
    <2>1. Settled(NoRow, "no_credit") \in Rows
      BY NoRowTyped, SettledTyped DEF Codes
    <2>2. SharedTyped'
      BY <1>0, <1>4, <2>1 DEF NoCandidate, TypeOK, SharedTyped, Rows, upstream, leases
    <2> QED BY <1>4, <2>2, EndTyped, TypeAfter DEF NoCandidate
  <1> QED BY <1>2, <1>3, <1>4

\* A step of t that leaves what the calls share alone, apart from a release, and ends or goes on.
LEMMA PlainTyped ==
    ASSUME TypeOK, NEW t \in Tasks, NEW label \in Labels,
           UNCHANGED <<upstream, present, ledger, suspended>>,
           UNCHANGED leases \/ Release(t),
           End(t) \/ (Goto(t, label) /\ UNCHANGED call /\ CallSound(t)')
    PROVE  TypeOK'
  <1>1. SharedTyped'
    <2>1. claim' \in [Accounts -> Tasks \cup {None, Orphan}] /\ lapsed' \subseteq Accounts
      BY ReleaseTyped DEF TypeOK, leases
    <2> QED BY <2>1 DEF TypeOK, SharedTyped, Rows, upstream, ledger
  <1>2. CASE End(t)
    BY <1>1, <1>2, EndTyped, TypeAfter
  <1>3. CASE Goto(t, label) /\ UNCHANGED call /\ CallSound(t)'
    BY <1>1, <1>3, GotoTyped, TypeAfter
  <1> QED BY <1>2, <1>3

\* The steps of redeem_one that only read.
LEMMA ReadingTyped ==
    ASSUME TypeOK, NEW t \in Tasks,
           Look(t) \/ Busy(t) \/ Recheck(t) \/ CheckNative(t) \/ Fail(t)
    PROVE  TypeOK'
  <1> USE DEF Labels, Claimed
  <1>1. CASE Look(t)
    <2>1. CASE Goto(t, "claim") /\ UNCHANGED call
      <3>1. pc'[t] = "claim" BY <2>1, GotoTyped
      <3>2. CallSound(t)' BY <1>1, <2>1, <3>1 DEF Look, CallSound, TypeOK, call
      <3> QED BY <1>1, <2>1, <3>2, PlainTyped DEF Look
    <2>2. CASE End(t)
      BY <1>1, <2>2, PlainTyped DEF Look
    <2> QED BY <1>1, <2>1, <2>2 DEF Look
  <1>2. CASE Busy(t)
    BY <1>2, PlainTyped DEF Busy
  <1>3. CASE Recheck(t)
    <2>1. CASE Goto(t, "read") /\ UNCHANGED <<call, leases>>
      <3>1. pc'[t] = "read" BY <2>1, GotoTyped
      <3>2. CallSound(t)' BY <1>3, <2>1, <3>1 DEF Recheck, CallSound, TypeOK, call
      <3> QED BY <1>3, <2>1, <3>2, PlainTyped DEF Recheck
    <2>2. CASE EndClaimed(t)
      BY <1>3, <2>2, PlainTyped DEF Recheck, EndClaimed
    <2> QED BY <1>3, <2>1, <2>2 DEF Recheck
  <1>4. CASE CheckNative(t)
    <2>1. CASE Goto(t, "fetch") /\ UNCHANGED <<call, leases>>
      <3>1. pc'[t] = "fetch" BY <2>1, GotoTyped
      <3>2. CallSound(t)' BY <1>4, <2>1, <3>1 DEF CheckNative, CallSound, TypeOK, call
      <3> QED BY <1>4, <2>1, <3>2, PlainTyped DEF CheckNative
    <2>2. CASE EndClaimed(t)
      BY <1>4, <2>2, PlainTyped DEF CheckNative, EndClaimed
    <2> QED BY <1>4, <2>1, <2>2 DEF CheckNative
  <1>5. CASE Fail(t)
    BY <1>5, PlainTyped DEF Fail, EndClaimed
  <1> QED BY <1>1, <1>2, <1>3, <1>4, <1>5

\* The steps that begin a call.
LEMMA StartTyped == TypeOK /\ (\E t \in Tasks : Start(t)) => TypeOK'
  <1> SUFFICES ASSUME TypeOK, NEW t \in Tasks, Start(t) PROVE TypeOK'
    OBVIOUS
  <1> USE DEF Labels, Claimed
  <1>1. ASSUME NEW r \in DirectIds, NEW a \in Asked, NEW w \in OrNone(Credits), StartDirect(t, r, a, w)
        PROVE  TypeOK'
    <2>1. SharedTyped'
      BY <1>1 DEF StartDirect, TypeOK, SharedTyped, Rows, upstream, leases, ledger
    <2>2. a \in Accounts /\ r \in Requests
      BY CreditConstants DEF Requests
    <2>3. CallsTyped'
      BY <1>1, <2>2 DEF StartDirect, Goto, TypeOK, CallsTyped, OrNone
    <2>4. OthersKept(t)
      BY <1>1 DEF StartDirect, Goto, TypeOK, OthersKept
    <2>5. pc'[t] = "look" /\ req'[t] \in Requests /\ acct'[t] \in Accounts
      BY <1>1, <2>2 DEF StartDirect, Goto, TypeOK
    <2> QED BY <2>1, <2>3, <2>4, <2>5, TypeAfter DEF CallSound
  <1>2. ASSUME NEW r \in NativeIds, NEW w \in OrNone(Credits), StartNative(t, r, w)
        PROVE  TypeOK'
    <2>1. SharedTyped'
      BY <1>2 DEF StartNative, TypeOK, SharedTyped, Rows, upstream, leases, ledger
    <2>2. CallsTyped'
      BY <1>2 DEF StartNative, Goto, TypeOK, CallsTyped, OrNone, Requests
    <2>3. OthersKept(t)
      BY <1>2 DEF StartNative, Goto, TypeOK, OthersKept
    <2>4. pc'[t] = "native" /\ req'[t] \in NativeIds /\ req'[t] \in Requests
      BY <1>2 DEF StartNative, Goto, TypeOK, Requests
    <2> QED BY <2>1, <2>2, <2>3, <2>4, TypeAfter DEF CallSound
  <1> QED BY <1>1, <1>2, CreditConstants DEF Start, OrNone

\* Taking the lease, and the steps that select a credit.
LEMMA SelectingTyped ==
    ASSUME TypeOK, NEW t \in Tasks, Claim(t) \/ ReadPin(t) \/ Fetch(t)
    PROVE  TypeOK'
  <1> USE DEF Labels, Claimed
  <1>1. CASE Claim(t)
    <2>1. SharedTyped'
      BY <1>1 DEF Claim, TypeOK, SharedTyped, Rows, upstream, ledger
    <2>2. CallsTyped' /\ OthersKept(t) /\ pc'[t] = "recheck"
      BY <1>1, GotoTyped DEF Claim
    <2>3. CallSound(t)'
      BY <1>1, <2>2 DEF Claim, CallSound, TypeOK, call
    <2> QED BY <2>1, <2>2, <2>3, TypeAfter
  <1>2. CASE ReadPin(t)
    <2>1. SharedTyped'
      BY <1>2 DEF ReadPin, TypeOK, SharedTyped, Rows, upstream, leases, ledger
    <2>2. acct[t] \in Accounts /\ req[t] \in Requests
      BY <1>2 DEF ReadPin, TypeOK
    <2>3. pin[acct[t]][req[t]] \in OrNone(Credits)
      BY <2>2 DEF TypeOK
    <2>4. CallsTyped'
      BY <1>2, <2>3 DEF ReadPin, Goto, TypeOK, CallsTyped
    <2>5. OthersKept(t)
      BY <1>2 DEF ReadPin, Goto, TypeOK, OthersKept
    <2>6. CallSound(t)'
      BY <1>2, <2>2 DEF ReadPin, Goto, TypeOK, CallSound, IsNative
    <2> QED BY <2>1, <2>4, <2>5, <2>6, TypeAfter
  <1>3. CASE Fetch(t)
    <2>1. CASE Goto(t, "pin") /\ UNCHANGED <<call, leases>> /\ sel[t] # None
      <3>1. pc'[t] = "pin" BY <2>1, GotoTyped
      <3>2. CallSound(t)' BY <1>3, <2>1, <3>1 DEF Fetch, CallSound, TypeOK, call, OrNone
      <3> QED BY <1>3, <2>1, <3>2, PlainTyped DEF Fetch
    <2>2. ASSUME NEW c \in Available(t), sel' = [sel EXCEPT ![t] = c], Goto(t, "pin"),
                 UNCHANGED <<req, acct, want, code, leases>>
          PROVE  TypeOK'
      <3>1. c \in Credits
        BY DEF Available, TypeOK
      <3>2. SharedTyped'
        BY <1>3, <2>2 DEF Fetch, TypeOK, SharedTyped, Rows, upstream, leases, ledger
      <3>3. CallsTyped'
        BY <2>2, <3>1 DEF Goto, TypeOK, CallsTyped, OrNone
      <3>4. OthersKept(t)
        BY <2>2 DEF Goto, TypeOK, OthersKept
      <3>5. CallSound(t)'
        BY <1>3, <2>2, <3>1 DEF Fetch, Goto, TypeOK, CallSound
      <3> QED BY <3>2, <3>3, <3>4, <3>5, TypeAfter
    <2>3. CASE IsNative(t) /\ Goto(t, "nocredit") /\ UNCHANGED <<call, leases>>
      <3>1. pc'[t] = "nocredit" BY <2>3, GotoTyped
      <3>2. CallSound(t)' BY <1>3, <2>3, <3>1 DEF Fetch, CallSound, TypeOK, call, IsNative
      <3> QED BY <1>3, <2>3, <3>2, PlainTyped DEF Fetch
    <2>4. CASE EndClaimed(t)
      BY <1>3, <2>4, PlainTyped DEF Fetch, EndClaimed
    <2> QED BY <1>3, <2>1, <2>2, <2>3, <2>4 DEF Fetch
  <1> QED BY <1>1, <1>2, <1>3

\* The steps that write the ledger, and the provider's.
LEMMA WritingTyped ==
    ASSUME TypeOK, NEW t \in Tasks, NoCredit(t) \/ Pin(t) \/ Consume(t) \/ Complete(t)
    PROVE  TypeOK'
  <1> USE DEF Labels, Claimed
  <1>0. acct[t] \in Accounts /\ req[t] \in Requests
    BY DEF NoCredit, Pin, Consume, Complete, TypeOK
  <1>1. CASE NoCredit(t)
    <2>1. req[t] \in NativeIds
      BY <1>1 DEF NoCredit, TypeOK
    <2>2. Settled(native[req[t]], "no_credit") \in Rows
      BY <2>1, SettledTyped DEF TypeOK, Rows, Codes
    <2>3. End(t) /\ Release(t)
      BY <1>1 DEF NoCredit, EndClaimed
    <2>4. native' \in [NativeIds -> Rows]
      BY <1>1, <2>1, <2>2 DEF NoCredit, TypeOK, Rows
    <2>5. SharedTyped'
      BY <1>1, <2>3, <2>4, ReleaseTyped DEF NoCredit, TypeOK, SharedTyped, upstream
    <2> QED BY <2>3, <2>5, EndTyped, TypeAfter
  <1>2. CASE Pin(t)
    <2>1. PICK c \in Credits : /\ pin' = [pin EXCEPT ![acct[t]] = [pin[acct[t]] EXCEPT ![req[t]] = c]]
                               /\ sel' = [sel EXCEPT ![t] = c]
      <3> DEFINE c == IF pin[acct[t]][req[t]] = None THEN sel[t] ELSE pin[acct[t]][req[t]]
      <3>1. /\ pin' = [pin EXCEPT ![acct[t]] = [pin[acct[t]] EXCEPT ![req[t]] = c]]
            /\ sel' = [sel EXCEPT ![t] = c]
        BY <1>2 DEF Pin
      <3>2. sel[t] \in Credits /\ pin[acct[t]][req[t]] \in OrNone(Credits)
        BY <1>0, <1>2 DEF Pin, TypeOK
      <3>3. c \in Credits
        BY <3>2 DEF OrNone
      <3> HIDE DEF c
      <3> QED BY <3>1, <3>3
    <2>2. pin' \in [Accounts -> [Requests -> OrNone(Credits)]]
      BY <1>0, <2>1 DEF TypeOK, OrNone
    <2>3. SharedTyped'
      BY <1>2, <2>2 DEF Pin, TypeOK, SharedTyped, Rows, upstream, leases
    <2>4. CallsTyped'
      BY <1>2, <2>1 DEF Pin, Goto, TypeOK, CallsTyped, OrNone
    <2>5. OthersKept(t)
      BY <1>2, <2>1 DEF Pin, Goto, TypeOK, OthersKept
    <2>6. CallSound(t)'
      BY <1>0, <1>2, <2>1 DEF Pin, Goto, TypeOK, CallSound
    <2> QED BY <2>3, <2>4, <2>5, <2>6, TypeAfter
  <1>3. CASE Consume(t)
    <2>1. PICK answer \in Codes :
            /\ Provider(t, answer)
            /\ \/ code' = [code EXCEPT ![t] = answer] /\ Goto(t, "complete")
                  /\ UNCHANGED <<req, acct, want, sel, leases>>
               \/ EndClaimed(t)
      BY <1>3 DEF Consume
    <2>2. stock' \subseteq Credits /\ spentBy' \in [Credits -> OrNone(Requests)]
      BY <1>0, <2>1 DEF Provider, TypeOK, OrNone, upstream
    <2>3. CASE EndClaimed(t)
      <3>1. SharedTyped'
        BY <1>3, <2>2, <2>3, ReleaseTyped DEF Consume, EndClaimed, TypeOK, SharedTyped, Rows, ledger
      <3> QED BY <2>3, <3>1, EndTyped, TypeAfter DEF EndClaimed
    <2>4. CASE code' = [code EXCEPT ![t] = answer] /\ Goto(t, "complete")
               /\ UNCHANGED <<req, acct, want, sel, leases>>
      <3>1. SharedTyped'
        BY <1>3, <2>2, <2>4 DEF Consume, TypeOK, SharedTyped, Rows, ledger, leases
      <3>2. CallsTyped'
        BY <2>4 DEF Goto, TypeOK, CallsTyped, OrNone
      <3>3. OthersKept(t)
        BY <2>4 DEF Goto, TypeOK, OthersKept
      <3>4. CallSound(t)'
        BY <1>0, <1>3, <2>4 DEF Consume, Goto, TypeOK, CallSound
      <3> QED BY <3>1, <3>2, <3>3, <3>4, TypeAfter
    <2> QED BY <2>1, <2>3, <2>4
  <1>4. CASE Complete(t)
    <2>1. End(t) /\ Release(t)
      BY <1>4 DEF Complete, EndClaimed
    <2>2. PICK terminal \in Codes :
            /\ result' = [result EXCEPT ![acct[t]] = [result[acct[t]] EXCEPT ![req[t]] = terminal]]
            /\ native' = IF IsNative(t) /\ native[req[t]].account = acct[t]
                            /\ native[req[t]].code = None
                         THEN [native EXCEPT ![req[t]] = Settled(native[req[t]], terminal)] ELSE native
      <3> DEFINE c == IF result[acct[t]][req[t]] = None THEN code[t] ELSE result[acct[t]][req[t]]
      <3>1. /\ result' = [result EXCEPT ![acct[t]] = [result[acct[t]] EXCEPT ![req[t]] = c]]
            /\ native' = IF IsNative(t) /\ native[req[t]].account = acct[t]
                            /\ native[req[t]].code = None
                         THEN [native EXCEPT ![req[t]] = Settled(native[req[t]], c)] ELSE native
        BY <1>4 DEF Complete
      <3>2. code[t] \in Codes /\ result[acct[t]][req[t]] \in OrNone(Codes)
        BY <1>0, <1>4 DEF Complete, TypeOK
      <3>3. c \in Codes
        BY <3>2 DEF OrNone
      <3> HIDE DEF c
      <3> QED BY <3>1, <3>3
    <2>3. result' \in [Accounts -> [Requests -> OrNone(Codes)]]
      BY <1>0, <2>2 DEF TypeOK, OrNone
    <2>4. native' \in [NativeIds -> Rows]
      <3>1. CASE IsNative(t)
        <4>1. Settled(native[req[t]], terminal) \in Rows
          BY <3>1, SettledTyped DEF IsNative, TypeOK, Rows
        <4> QED BY <2>2, <3>1, <4>1 DEF TypeOK, Rows, IsNative
      <3>2. CASE ~IsNative(t)
        BY <2>2, <3>2 DEF TypeOK, Rows
      <3> QED BY <3>1, <3>2
    <2>5. SharedTyped'
      BY <1>4, <2>1, <2>3, <2>4, ReleaseTyped DEF Complete, TypeOK, SharedTyped, upstream
    <2> QED BY <2>1, <2>5, EndTyped, TypeAfter
  <1> QED BY <1>1, <1>2, <1>3, <1>4

\* A dropped call, and the steps of the world.
LEMMA WorldTyped ==
    ASSUME TypeOK, \/ \E t \in Tasks : Drop(t)
                   \/ \E a \in Accounts : World(a)
                   \/ \E c \in Credits : Grant(c)
    PROVE  TypeOK'
  <1>1. ASSUME NEW t \in Tasks, Drop(t) PROVE TypeOK'
    <2>1. SharedTyped'
      BY <1>1 DEF Drop, TypeOK, SharedTyped, Rows, upstream, ledger
    <2> QED BY <1>1, <2>1, EndTyped, TypeAfter DEF Drop
  <1>2. ASSUME NEW a \in Accounts, OrphanLapses(a) \/ Suspend(a) \/ Renew(a) PROVE TypeOK'
    BY <1>2 DEF OrphanLapses, Suspend, Renew, TypeOK, upstream, ledger, call
  <1>3. ASSUME NEW a \in Accounts, Delete(a) PROVE TypeOK'
    <2>1. pin' \in [Accounts -> [Requests -> OrNone(Credits)]]
      BY <1>3 DEF Delete, TypeOK, OrNone
    <2>2. /\ present' \subseteq Accounts /\ lapsed' \subseteq Accounts
          /\ claim' \in [Accounts -> Tasks \cup {None, Orphan}]
      BY <1>3 DEF Delete, TypeOK
    <2> QED BY <1>3, <2>1, <2>2 DEF Delete, TypeOK, upstream, call
  <1>4. ASSUME NEW c \in Credits, Grant(c) PROVE TypeOK'
    BY <1>4 DEF Grant, TypeOK, leases, ledger, call
  <1> QED BY <1>1, <1>2, <1>3, <1>4 DEF World

\* The initial state is well typed.
LEMMA TypeInit == Init => TypeOK
  <1> SUFFICES ASSUME Init PROVE TypeOK
    OBVIOUS
  <1>1. /\ pin \in [Accounts -> [Requests -> OrNone(Credits)]]
        /\ result \in [Accounts -> [Requests -> OrNone(Codes)]]
    BY DEF Init, OrNone
  <1>2. native \in [NativeIds -> Rows]
    BY NoRowTyped DEF Init
  <1>3. CallsTyped
    BY DEF Init, CallsTyped, Labels, OrNone
  <1>4. \A t \in Tasks : pc[t] = "idle"
    BY DEF Init
  <1>5. \A t \in Tasks : CallSound(t)
    BY <1>4 DEF CallSound, Claimed
  <1>6. SharedTyped
    BY <1>1, <1>2 DEF Init, SharedTyped, OrNone
  <1> QED BY <1>3, <1>5, <1>6 DEF TypeOK, CallsTyped, CallSound, SharedTyped, Rows, Labels

\* Every step keeps the state well typed.
LEMMA TypeStep == TypeOK /\ [Next]_vars => TypeOK'
  <1>1. TypeOK /\ UNCHANGED vars => TypeOK'
    BY DEF TypeOK, vars, upstream, leases, ledger, call
  <1> QED
    BY <1>1, NativeTyped, ReadingTyped, StartTyped, SelectingTyped, WritingTyped, WorldTyped
    DEF Next, Step

\* TypeOK holds in every reachable state.
THEOREM TypeCorrect == Spec => []TypeOK
  BY TypeInit, TypeStep, PTL DEF Spec

(***************************************************************************)
(* Whoever holds a lease is a call under way.                              *)
(***************************************************************************)
\* A step of t keeps HolderUnderWay if what it takes is its own and what it had, it keeps or frees.
LEMMA HolderAfter ==
    ASSUME TypeOK, HolderUnderWay, NEW t \in Tasks, OthersKept(t),
           \A a \in Accounts : claim'[a] = claim[a] \/ claim'[a] \notin Tasks \/ claim'[a] = t,
           \A a \in Accounts : claim'[a] = t => pc'[t] \in Claimed /\ acct'[t] = a
    PROVE  HolderUnderWay'
  BY DEF HolderUnderWay, OthersKept

\* A call that ends or moves on without the lease.
LEMMA HolderBefore ==
    ASSUME TypeOK, HolderUnderWay, NEW t \in Tasks, OthersKept(t), pc[t] \notin Claimed,
           UNCHANGED claim
    PROVE  HolderUnderWay'
  <1>1. \A a \in Accounts : claim'[a] # t
    BY DEF HolderUnderWay
  <1> QED BY <1>1, HolderAfter

\* A call that ends under the lease frees it.
LEMMA HolderEnds ==
    ASSUME TypeOK, HolderUnderWay, NEW t \in Tasks, EndClaimed(t)
    PROVE  HolderUnderWay'
  <1>1. OthersKept(t)
    BY EndTyped DEF EndClaimed
  <1>2. \A a \in Accounts : claim[a] = t => a = acct[t]
    BY DEF HolderUnderWay
  <1>3. \A a \in Accounts : claim'[a] = claim[a] \/ claim'[a] = None
    BY DEF EndClaimed, Release, leases, TypeOK
  <1>4. \A a \in Accounts : claim'[a] # t
    BY <1>2, <1>3, CreditConstants DEF EndClaimed, Release, leases, TypeOK
  <1> QED BY <1>1, <1>3, <1>4, CreditConstants, HolderAfter

\* A call that goes on under the lease keeps it.
LEMMA HolderGoesOn ==
    ASSUME TypeOK, HolderUnderWay, NEW t \in Tasks, OthersKept(t), UNCHANGED claim,
           pc'[t] \in Claimed, acct'[t] = acct[t]
    PROVE  HolderUnderWay'
  <1>1. \A a \in Accounts : claim'[a] = t => acct'[t] = a
    BY DEF HolderUnderWay
  <1> QED BY <1>1, HolderAfter

\* What a step of a call may do to its lease.
LEMMA HolderStep ==
    ASSUME TypeOK, HolderUnderWay, NEW t \in Tasks, Start(t) \/ Step(t) \/ Drop(t)
    PROVE  HolderUnderWay'
  <1> USE DEF Claimed
  <1>1. CASE Start(t)
    <2>1. OthersKept(t)
      BY <1>1 DEF Start, StartDirect, StartNative, Goto, TypeOK, OthersKept
    <2> QED BY <1>1, <2>1, HolderBefore DEF Start, StartDirect, StartNative, leases
  <1>2. CASE ReadNative(t) \/ PinNative(t) \/ NoCandidate(t) \/ Look(t) \/ Busy(t)
    <2>1. OthersKept(t)
      BY <1>2 DEF ReadNative, PinNative, NoCandidate, Look, Busy, FollowPin, End, Goto, call,
                  TypeOK, OthersKept
    <2> QED BY <1>2, <2>1, HolderBefore
            DEF ReadNative, PinNative, NoCandidate, Look, Busy, leases
  <1>3. CASE Claim(t)
    <2>1. OthersKept(t) /\ pc'[t] = "recheck" /\ acct'[t] = acct[t] /\ acct[t] \in Accounts
      BY <1>3 DEF Claim, Goto, call, TypeOK, OthersKept
    <2>2. \A a \in Accounts : a # acct[t] => claim'[a] = claim[a] /\ claim[a] # t
      BY <1>3 DEF Claim, TypeOK, HolderUnderWay
    <2>3. claim'[acct[t]] = t
      BY <1>3, <2>1 DEF Claim, TypeOK
    <2> QED BY <2>1, <2>2, <2>3, HolderAfter
  <1>4. CASE EndClaimed(t)
    BY <1>4, HolderEnds
  <1>5. CASE /\ ~EndClaimed(t)
             /\ \/ Recheck(t) \/ ReadPin(t) \/ CheckNative(t) \/ Fetch(t)
                \/ Pin(t) \/ Consume(t)
    <2>1. /\ UNCHANGED claim /\ acct' = acct
          /\ \E label \in Claimed : Goto(t, label)
          /\ \E c : sel' = sel \/ sel' = [sel EXCEPT ![t] = c]
          /\ \E k : code' = code \/ code' = [code EXCEPT ![t] = k]
          /\ UNCHANGED <<req, want>>
      BY <1>5 DEF Recheck, ReadPin, CheckNative, Fetch, Pin, Consume, call, leases
    <2>2. OthersKept(t) /\ pc'[t] \in Claimed
      BY <2>1 DEF Goto, TypeOK, OthersKept
    <2> QED BY <2>1, <2>2, HolderGoesOn
  <1>6. CASE ~EndClaimed(t) /\ Fail(t)
    BY <1>6, EndTyped, HolderBefore DEF Fail, leases
  <1>7. CASE Drop(t)
    <2>1. OthersKept(t)
      BY <1>7, EndTyped DEF Drop
    <2>2. \A a \in Accounts : claim[a] = t => pc[t] \in Claimed /\ a = acct[t]
      BY DEF HolderUnderWay
    <2>3. \A a \in Accounts : claim'[a] = claim[a] \/ claim'[a] = Orphan
      BY <1>7 DEF Drop, TypeOK
    <2>4. \A a \in Accounts : claim'[a] # t
      BY <1>7, <2>2, <2>3, CreditConstants DEF Drop, TypeOK
    <2> QED BY <2>1, <2>3, <2>4, CreditConstants, HolderAfter
  <1> QED BY <1>1, <1>2, <1>3, <1>4, <1>5, <1>6, <1>7 DEF Step, NoCredit, Complete

\* "Dropping/cancelling the request must never detach a task that renews the lease forever"
\* (reset_credits.rs): in every reachable state, whoever could renew a lease is a call under way.
THEOREM HoldersUnderWay == Spec => []HolderUnderWay
  <1>1. Init => HolderUnderWay
    BY CreditConstants DEF Init, HolderUnderWay
  <1>2. TypeOK /\ HolderUnderWay /\ [Next]_vars => HolderUnderWay'
    <2> SUFFICES ASSUME TypeOK, HolderUnderWay, [Next]_vars PROVE HolderUnderWay'
      OBVIOUS
    <2>1. CASE \E t \in Tasks : Start(t) \/ Step(t) \/ Drop(t)
      BY <2>1, HolderStep
    <2>2. CASE \E a \in Accounts : World(a)
      <3>1. UNCHANGED <<pc, acct>> /\ \A a \in Accounts : claim'[a] = claim[a] \/ claim'[a] = None
        BY <2>2 DEF World, OrphanLapses, Suspend, Renew, Delete, call, TypeOK
      <3> QED BY <3>1, CreditConstants DEF HolderUnderWay
    <2>3. CASE (\E c \in Credits : Grant(c)) \/ UNCHANGED vars
      BY <2>3 DEF Grant, HolderUnderWay, leases, call, vars
    <2> QED BY <2>1, <2>2, <2>3 DEF Next
  <1> QED BY <1>1, <1>2, TypeCorrect, PTL DEF Spec

(***************************************************************************)
(* The inductive invariant behind OneShot.                                 *)
(***************************************************************************)
\* Where a call may have selected a credit.
Selected == {"check", "fetch", "nocredit", "pin", "consume", "complete"}

\* Between the ledger and the provider: a spent credit is gone; a pin is a credit of its account;
\* a spent credit is pinned to the request that spent it, as long as its account is there; and a
\* native request that spent one is pinned to the account of it.
LedgerSound ==
    /\ \A c \in Credits : spentBy[c] # None => c \notin stock
    /\ \A a \in Accounts, r \in Requests : pin[a][r] # None => Owner[pin[a][r]] = a
    /\ \A c \in Credits :
        spentBy[c] # None /\ Owner[c] \in present => pin[Owner[c]][spentBy[c]] = c
    /\ \A c \in Credits : spentBy[c] \in NativeIds => native[spentBy[c]].account = Owner[c]

\* Between a call and the ledger: its credit is one of its account; whoever asks the provider
\* asks for the pinned credit, and for the one its request has spent, if any, whatever was
\* deleted since; and it is on the account its request is pinned to.
CallBound(t) ==
    /\ pc[t] \in Selected /\ sel[t] # None => Owner[sel[t]] = acct[t]
    /\ pc[t] = "consume" /\ acct[t] \in present => pin[acct[t]][req[t]] = sel[t]
    /\ \A c \in Credits :
        pc[t] = "consume" /\ spentBy[c] = req[t] /\ Owner[c] = acct[t] => sel[t] = c
    /\ pc[t] \in Claimed \cup {"look", "claim"} /\ req[t] \in NativeIds
        => native[req[t]].account = acct[t]

\* Calls that ask the provider for the same operation ask for the same credit.
SameCredit ==
    \A t, u \in Tasks :
        pc[t] = "consume" /\ pc[u] = "consume" /\ acct[t] = acct[u] /\ req[t] = req[u]
        => sel[t] = sel[u]

Bound == TypeOK /\ LedgerSound /\ (\A t \in Tasks : CallBound(t)) /\ SameCredit

\* The account of a native row, once there is one, stays.
AccountsKept ==
    \A r \in NativeIds :
        native[r].account # None => native'[r].account = native[r].account

\* A step of t that does not touch the provider, the pins and the accounts, and does not take t
\* to the provider.
LEMMA BoundAfter ==
    ASSUME Bound, TypeOK', NEW t \in Tasks, UNCHANGED <<upstream, present, pin>>, AccountsKept,
           OthersKept(t), pc'[t] # "consume", CallBound(t)'
    PROVE  Bound'
  <1>1. LedgerSound'
    <2>1. \A c \in Credits : Owner[c] \in Accounts /\ Owner[c] # None
      BY CreditConstants
    <2>2. \A c \in Credits : spentBy[c] \in NativeIds => native'[spentBy[c]].account = Owner[c]
      BY <2>1 DEF Bound, LedgerSound, AccountsKept
    <2> QED BY <2>2 DEF Bound, LedgerSound, upstream
  <1>2. ASSUME NEW u \in Tasks, u # t PROVE CallBound(u)'
    <2>1. /\ pc'[u] = pc[u] /\ req'[u] = req[u] /\ acct'[u] = acct[u] /\ sel'[u] = sel[u]
          /\ CallBound(u)
      BY <1>2 DEF OthersKept, Bound
    <2>2. pc[u] \in Claimed \cup {"look", "claim"} => acct[u] \in Accounts /\ acct[u] # None
      BY CreditConstants DEF Bound, TypeOK
    <2>3. pc'[u] \in Claimed \cup {"look", "claim"} /\ req'[u] \in NativeIds
            => native'[req'[u]].account = acct'[u]
      BY <2>1, <2>2 DEF AccountsKept, CallBound
    <2> QED BY <2>1, <2>3 DEF CallBound, upstream
  <1>3. SameCredit'
    BY DEF OthersKept, Bound, SameCredit
  <1> QED BY <1>1, <1>2, <1>3 DEF Bound

\* A call that is over is bound to nothing.
LEMMA EndBound ==
    ASSUME TypeOK, NEW t \in Tasks, End(t)
    PROVE  OthersKept(t) /\ pc'[t] # "consume" /\ CallBound(t)'
  <1>1. OthersKept(t) /\ pc'[t] = "idle"
    BY EndTyped
  <1> QED BY <1>1 DEF CallBound, Selected, Claimed

\* The steps that end a call, or begin one.
LEMMA StartBound ==
    ASSUME Bound, TypeOK', NEW t \in Tasks, Start(t)
    PROVE  Bound'
  <1>1. UNCHANGED <<upstream, present, pin>> /\ AccountsKept
    BY DEF Start, StartDirect, StartNative, ledger, AccountsKept
  <1>2. OthersKept(t)
    BY DEF Start, StartDirect, StartNative, Goto, Bound, TypeOK, OthersKept
  <1>3. \/ pc'[t] = "look" /\ req'[t] \notin NativeIds
        \/ pc'[t] = "native"
    BY CreditConstants DEF Start, StartDirect, StartNative, Goto, Bound, TypeOK
  <1> QED BY <1>1, <1>2, <1>3, BoundAfter DEF CallBound, Selected, Claimed

\* A call that follows a pin is on the account of it.
LEMMA FollowBound ==
    ASSUME Bound, TypeOK', NEW t \in Tasks, NEW row \in Rows, FollowPin(t, row),
           req[t] \in NativeIds, native'[req[t]] = row,
           UNCHANGED <<upstream, present, pin>>, AccountsKept
    PROVE  Bound'
  <1>1. CASE End(t)
    BY <1>1, EndBound, BoundAfter DEF Bound
  <1>2. CASE ~End(t)
    <2>1. OthersKept(t) /\ pc'[t] = "look" /\ acct'[t] = row.account /\ req'[t] = req[t]
      BY <1>2 DEF FollowPin, Goto, Bound, TypeOK, OthersKept
    <2> QED BY <2>1, BoundAfter DEF CallBound, Selected, Claimed
  <1> QED BY <1>1, <1>2

\* The steps before the lease.
LEMMA NativeBound ==
    ASSUME Bound, TypeOK', NEW t \in Tasks, ReadNative(t) \/ PinNative(t) \/ NoCandidate(t)
    PROVE  Bound'
  <1>0. TypeOK /\ req[t] \in NativeIds /\ native[req[t]] \in Rows
    BY DEF Bound, TypeOK, Rows, ReadNative, PinNative, NoCandidate
  <1>1. CASE ReadNative(t)
    <2>1. UNCHANGED <<upstream, present, pin, native>> /\ AccountsKept
      BY <1>1 DEF ReadNative, ledger, AccountsKept
    <2>2. CASE Goto(t, "select") /\ UNCHANGED call
      <3>1. OthersKept(t) /\ pc'[t] = "select"
        BY <1>0, <2>2, GotoTyped DEF Labels
      <3> QED BY <2>1, <3>1, BoundAfter DEF CallBound, Selected, Claimed
    <2>3. CASE End(t)
      BY <1>0, <2>1, <2>3, EndBound, BoundAfter
    <2>4. CASE FollowPin(t, native[req[t]])
      BY <1>0, <2>1, <2>4, FollowBound
    <2> QED BY <1>1, <2>2, <2>3, <2>4 DEF ReadNative
  <1>2. CASE PinNative(t)
    <2>1. PICK row \in Rows : /\ native' = [native EXCEPT ![req[t]] = row] /\ FollowPin(t, row)
                              /\ native[req[t]] # NoRow => row = native[req[t]]
      <3>1. PICK a \in IF want[t] = None THEN present ELSE present \cap {Owner[want[t]]} :
              LET row == IF native[req[t]] = NoRow
                         THEN [account |-> a, credit |-> want[t], code |-> None]
                         ELSE native[req[t]]
              IN native' = [native EXCEPT ![req[t]] = row] /\ FollowPin(t, row)
        BY <1>2 DEF PinNative
      <3>2. [account |-> a, credit |-> want[t], code |-> None] \in Rows
        BY <1>0 DEF TypeOK, Rows, OrNone
      <3> QED BY <1>0, <3>1, <3>2
    <2>2. AccountsKept /\ native'[req[t]] = row
      BY <1>0, <2>1 DEF AccountsKept, TypeOK, NoRow
    <2> QED BY <1>0, <1>2, <2>1, <2>2, FollowBound DEF PinNative
  <1>3. CASE NoCandidate(t)
    <2>1. AccountsKept
      BY <1>0, <1>3 DEF NoCandidate, AccountsKept, TypeOK, NoRow
    <2> QED BY <1>0, <1>3, <2>1, EndBound, BoundAfter DEF NoCandidate
  <1> QED BY <1>1, <1>2, <1>3

\* The steps under the lease that keep off the provider and the pins.
LEMMA ReadingBound ==
    ASSUME Bound, TypeOK', NEW t \in Tasks,
           \/ Look(t) \/ Claim(t) \/ Busy(t) \/ Recheck(t) \/ ReadPin(t) \/ CheckNative(t)
           \/ Fetch(t) \/ NoCredit(t) \/ Complete(t) \/ Fail(t) \/ Drop(t)
    PROVE  Bound'
  <1> USE DEF Claimed
  <1>0. TypeOK
    BY DEF Bound
  <1>1. UNCHANGED <<upstream, present, pin>>
    BY DEF Look, Claim, Busy, Recheck, ReadPin, CheckNative, Fetch, NoCredit, Complete, Fail, Drop,
           ledger
  <1>2. AccountsKept
    <2>1. CASE NoCredit(t)
      BY <1>0, <2>1 DEF NoCredit, AccountsKept, Settled, TypeOK
    <2>2. CASE Complete(t)
      BY <1>0, <2>2 DEF Complete, AccountsKept, Settled, TypeOK, IsNative
    <2> QED BY <2>1, <2>2 DEF Look, Claim, Busy, Recheck, ReadPin, CheckNative, Fetch, Fail, Drop,
                              ledger, AccountsKept
  <1>3. CASE End(t)
    BY <1>0, <1>1, <1>2, <1>3, EndBound, BoundAfter
  <1>4. CASE ~End(t) /\ (Look(t) \/ Claim(t) \/ Recheck(t) \/ CheckNative(t))
    <2>1. /\ \E label \in {"claim", "recheck", "read", "fetch"} : Goto(t, label)
          /\ UNCHANGED <<call, native>>
      BY <1>4 DEF Look, Claim, Recheck, CheckNative, EndClaimed, ledger
    <2>2. OthersKept(t) /\ pc'[t] \in {"claim", "recheck", "read", "fetch"}
      BY <1>0, <2>1 DEF Goto, call, TypeOK, OthersKept
    <2>3. pc[t] \in {"look", "claim", "recheck", "check"}
      BY <1>4 DEF Look, Claim, Recheck, CheckNative
    <2>4. pc'[t] = "fetch" => pc[t] = "check"
      BY <1>0, <1>4, <2>2 DEF Look, Claim, Recheck, CheckNative, Goto, TypeOK, EndClaimed
    <2>5. CallBound(t)'
      BY <2>1, <2>2, <2>3, <2>4 DEF CallBound, Bound, Selected, call
    <2> QED BY <1>1, <1>2, <2>2, <2>5, BoundAfter
  <1>5. CASE ReadPin(t)
    <2>1. OthersKept(t) /\ pc'[t] \in {"check", "fetch"} /\ sel'[t] = pin[acct[t]][req[t]]
      BY <1>0, <1>5 DEF ReadPin, Goto, TypeOK, OthersKept
    <2>2. acct[t] \in Accounts /\ req[t] \in Requests
      BY <1>0, <1>5 DEF ReadPin, TypeOK
    <2>3. sel'[t] # None => Owner[sel'[t]] = acct[t]
      BY <2>1, <2>2 DEF Bound, LedgerSound
    <2>4. CallBound(t)'
      BY <1>5, <2>1, <2>3 DEF ReadPin, CallBound, Bound, ledger
    <2> QED BY <1>1, <1>2, <2>1, <2>4, BoundAfter
  <1>6. CASE ~End(t) /\ Fetch(t)
    <2>1. /\ \E label \in {"pin", "nocredit"} : Goto(t, label)
          /\ \/ sel' = sel
             \/ \E c \in Available(t) : sel' = [sel EXCEPT ![t] = c]
          /\ UNCHANGED <<req, acct, want, code, native>>
      BY <1>6 DEF Fetch, EndClaimed, call, ledger
    <2>2. OthersKept(t) /\ pc'[t] \in {"pin", "nocredit"}
      BY <1>0, <2>1 DEF Goto, TypeOK, OthersKept
    <2>3. sel'[t] # None => Owner[sel'[t]] = acct[t]
      <3>1. CASE sel' = sel
        BY <1>6, <3>1 DEF Fetch, Bound, CallBound, Selected
      <3>2. ASSUME NEW c \in Available(t), sel' = [sel EXCEPT ![t] = c]
            PROVE  Owner[sel'[t]] = acct[t]
        BY <1>0, <3>2 DEF Available, TypeOK
      <3> QED BY <2>1, <3>1, <3>2
    <2>4. CallBound(t)'
      BY <1>6, <2>1, <2>2, <2>3 DEF Fetch, CallBound, Bound
    <2> QED BY <1>1, <1>2, <2>2, <2>4, BoundAfter
  <1> QED BY <1>3, <1>4, <1>5, <1>6 DEF Busy, NoCredit, Complete, EndClaimed, Fail, Drop

\* A call pins its credit, or finds the credit its request was pinned to.
LEMMA PinBound ==
    ASSUME Bound, TypeOK', NEW t \in Tasks, Pin(t)
    PROVE  Bound'
  <1> DEFINE a == acct[t]
             r == req[t]
             c == IF pin[a][r] = None THEN sel[t] ELSE pin[a][r]
  <1>1. TypeOK /\ a \in Accounts /\ r \in Requests /\ sel[t] \in Credits /\ a \in present
    BY DEF Bound, TypeOK, Pin, Claimed
  <1>2. c \in Credits /\ Owner[c] = a /\ c # None
    BY <1>1, CreditConstants DEF Bound, TypeOK, LedgerSound, CallBound, Pin, Selected, OrNone
  <1>3. /\ pin' = [pin EXCEPT ![a] = [pin[a] EXCEPT ![r] = c]]
        /\ sel' = [sel EXCEPT ![t] = c]
    BY DEF Pin
  <1>4. pin[a][r] # None => c = pin[a][r]
    OBVIOUS
  <1> HIDE DEF c
  <1>5. pin'[a][r] = c
    BY <1>1, <1>3 DEF TypeOK
  <1>6. \A b \in Accounts, q \in Requests : pin[b][q] # None => pin'[b][q] = pin[b][q]
    BY <1>1, <1>3, <1>4 DEF TypeOK
  <1>7. \A b \in Accounts, q \in Requests : <<b, q>> # <<a, r>> => pin'[b][q] = pin[b][q]
    BY <1>1, <1>3 DEF TypeOK
  <1>8. /\ OthersKept(t) /\ pc'[t] = "consume" /\ sel'[t] = c /\ req'[t] = r /\ acct'[t] = a
        /\ UNCHANGED <<upstream, present, native>>
    BY <1>1, <1>3 DEF Pin, Goto, TypeOK, OthersKept
  <1>9. LedgerSound'
    <2>1. \A b \in Accounts, q \in Requests : pin'[b][q] # None => Owner[pin'[b][q]] = b
      BY <1>2, <1>5, <1>7 DEF Bound, LedgerSound
    <2>2. ASSUME NEW d \in Credits, spentBy[d] # None, Owner[d] \in present
          PROVE  pin'[Owner[d]][spentBy[d]] = d
      <3>1. pin[Owner[d]][spentBy[d]] = d /\ d # None
        BY <2>2, CreditConstants DEF Bound, LedgerSound
      <3>2. Owner[d] \in Accounts /\ spentBy[d] \in Requests
        BY <1>1, <2>2, CreditConstants DEF TypeOK, OrNone
      <3> QED BY <1>6, <3>1, <3>2
    <2> QED BY <1>8, <2>1, <2>2 DEF Bound, LedgerSound, upstream
  <1>10. CallBound(t)'
    <2>1. ASSUME NEW d \in Credits, spentBy[d] = r, Owner[d] = a PROVE c = d
      <3>1. pin[a][r] = d /\ d # None
        BY <1>1, <2>1, CreditConstants DEF Bound, LedgerSound
      <3> QED BY <1>4, <3>1
    <2>2. r \in NativeIds => native[r].account = a
      BY DEF Pin, Bound, CallBound, Claimed
    <2> QED BY <1>2, <1>5, <1>8, <2>1, <2>2 DEF CallBound, upstream
  <1>11. ASSUME NEW u \in Tasks, u # t PROVE CallBound(u)'
    <2>1. /\ pc'[u] = pc[u] /\ req'[u] = req[u] /\ acct'[u] = acct[u] /\ sel'[u] = sel[u]
          /\ CallBound(u)
      BY <1>8, <1>11 DEF OthersKept, Bound
    <2>2. pc[u] = "consume" => acct[u] \in Accounts /\ req[u] \in Requests /\ sel[u] # None
      BY <1>1, CreditConstants DEF TypeOK, Claimed
    <2>3. pc'[u] = "consume" /\ acct'[u] \in present => pin'[acct'[u]][req'[u]] = sel'[u]
      BY <1>6, <2>1, <2>2 DEF CallBound
    <2> QED BY <1>8, <2>1, <2>3 DEF CallBound, upstream
  <1>12. SameCredit'
    <2>1. ASSUME NEW u \in Tasks, u # t, pc'[u] = "consume", acct'[u] = a, req'[u] = r
          PROVE  sel'[u] = c
      <3>1. /\ pc[u] = "consume" /\ acct[u] = a /\ req[u] = r /\ sel'[u] = sel[u]
            /\ sel[u] \in Credits
        BY <1>1, <1>8, <2>1 DEF OthersKept, TypeOK
      <3>2. pin[a][r] = sel[u] /\ sel[u] # None
        BY <1>1, <3>1, CreditConstants DEF Bound, CallBound
      <3> QED BY <1>4, <3>1, <3>2
    <2> QED BY <1>8, <2>1 DEF SameCredit, OthersKept, Bound
  <1> QED BY <1>9, <1>10, <1>11, <1>12 DEF Bound

\* What the provider does with a call's request: nothing, or it spends the call's credit.
SpendsFor(t) ==
    /\ sel[t] \in stock /\ stock' = stock \ {sel[t]}
    /\ spentBy' = [spentBy EXCEPT ![sel[t]] = req[t]]

\* The provider answers, or spends a credit, whose request is then bound to it.
LEMMA ConsumeBound ==
    ASSUME Bound, TypeOK', NEW t \in Tasks, Consume(t)
    PROVE  Bound'
  <1>1. TypeOK /\ acct[t] \in Accounts /\ req[t] \in Requests /\ sel[t] \in Credits
    BY DEF Bound, TypeOK, Consume, Claimed
  <1>2. UNCHANGED upstream \/ SpendsFor(t)
    BY DEF Consume, Provider, SpendsFor
  <1>3. UNCHANGED <<present, pin, native>> /\ AccountsKept
    BY DEF Consume, ledger, AccountsKept
  <1>4. /\ OthersKept(t)
        /\ \/ pc'[t] = "complete" /\ sel'[t] = sel[t] /\ req'[t] = req[t] /\ acct'[t] = acct[t]
           \/ pc'[t] = "idle"
    <2>1. CASE End(t)
      BY <1>1, <2>1, EndTyped
    <2>2. CASE ~End(t)
      BY <1>1, <2>2 DEF Consume, EndClaimed, Goto, TypeOK, OthersKept
    <2> QED BY <2>1, <2>2
  <1>5. sel[t] # None /\ Owner[sel[t]] = acct[t] /\ (req[t] \in NativeIds => native[req[t]].account = acct[t])
    BY <1>1, CreditConstants DEF Consume, Bound, CallBound, Selected, Claimed
  <1>6. CASE UNCHANGED upstream
    <2>1. CallBound(t)'
      BY <1>3, <1>4, <1>5 DEF CallBound, Selected, Claimed
    <2> QED BY <1>3, <1>4, <1>6, <2>1, BoundAfter
  <1>7. CASE SpendsFor(t)
    <2>1. /\ spentBy'[sel[t]] = req[t] /\ stock' = stock \ {sel[t]}
          /\ \A c \in Credits : c # sel[t] => spentBy'[c] = spentBy[c]
      BY <1>1, <1>7 DEF SpendsFor, TypeOK
    <2>2. LedgerSound'
      <3>1. \A c \in Credits : spentBy'[c] # None => c \notin stock'
        BY <2>1 DEF Bound, LedgerSound
      <3>2. \A c \in Credits :
              spentBy'[c] # None /\ Owner[c] \in present => pin[Owner[c]][spentBy'[c]] = c
        BY <1>5, <2>1 DEF Bound, LedgerSound, CallBound, Consume
      <3>3. \A c \in Credits : spentBy'[c] \in NativeIds => native[spentBy'[c]].account = Owner[c]
        BY <1>5, <2>1 DEF Bound, LedgerSound
      <3> QED BY <1>3, <3>1, <3>2, <3>3 DEF Bound, LedgerSound
    <2>3. CallBound(t)'
      BY <1>3, <1>4, <1>5 DEF CallBound, Selected, Claimed
    <2>4. ASSUME NEW u \in Tasks, u # t PROVE CallBound(u)'
      <3>1. /\ pc'[u] = pc[u] /\ req'[u] = req[u] /\ acct'[u] = acct[u] /\ sel'[u] = sel[u]
            /\ CallBound(u)
        BY <1>4, <2>4 DEF OthersKept, Bound
      <3>2. pc[u] = "consume" /\ req[u] = req[t] /\ acct[u] = acct[t] => sel[u] = sel[t]
        BY DEF Consume, Bound, SameCredit
      <3>3. ASSUME NEW c \in Credits, pc[u] = "consume", spentBy'[c] = req[u], Owner[c] = acct[u]
            PROVE  sel[u] = c
        BY <1>5, <2>1, <3>1, <3>2, <3>3 DEF CallBound
      <3> QED BY <1>3, <3>1, <3>3 DEF CallBound
    <2>5. SameCredit'
      BY <1>4 DEF OthersKept, Bound, SameCredit
    <2> QED BY <2>2, <2>3, <2>4, <2>5 DEF Bound
  <1> QED BY <1>2, <1>6, <1>7

\* Leases lapse and are renewed, an account goes, a credit comes.
LEMMA WorldBound ==
    ASSUME Bound, TypeOK', \/ \E a \in Accounts : World(a)
                           \/ \E c \in Credits : Grant(c)
                           \/ UNCHANGED vars
    PROVE  Bound'
  <1>1. TypeOK /\ UNCHANGED <<pc, call, spentBy, native>>
    BY DEF Bound, World, OrphanLapses, Suspend, Renew, Delete, Grant, vars, upstream, ledger
  <1>2. CASE UNCHANGED <<present, pin>>
    <2>1. \A c \in Credits : spentBy[c] # None => c \notin stock'
      BY <1>1 DEF Bound, LedgerSound, World, OrphanLapses, Suspend, Renew, Delete, Grant, vars,
                  upstream
    <2>2. LedgerSound'
      BY <1>1, <1>2, <2>1 DEF Bound, LedgerSound
    <2>3. (\A t \in Tasks : CallBound(t)') /\ SameCredit'
      BY <1>1, <1>2 DEF Bound, CallBound, SameCredit, call
    <2> QED BY <2>2, <2>3 DEF Bound
  <1>3. ASSUME NEW a \in Accounts, Delete(a) PROVE Bound'
    <2>1. /\ present' = present \ {a} /\ stock' = stock
          /\ pin' = [pin EXCEPT ![a] = [r \in Requests |-> None]]
      BY <1>3 DEF Delete, upstream
    <2>2. /\ \A r \in Requests : pin'[a][r] = None
          /\ \A b \in Accounts \ {a} : pin'[b] = pin[b]
      BY <1>1, <2>1 DEF TypeOK
    <2>3. LedgerSound'
      BY <1>1, <2>1, <2>2, CreditConstants DEF Bound, LedgerSound
    <2>4. ASSUME NEW t \in Tasks PROVE CallBound(t)'
      <3>1. pc[t] = "consume" => acct[t] \in Accounts
        BY <1>1 DEF TypeOK, Claimed
      <3>2. pc[t] = "consume" /\ acct[t] \in present' => pin'[acct[t]][req[t]] = sel[t]
        BY <2>1, <2>2, <3>1 DEF Bound, CallBound
      <3> QED BY <1>1, <3>2 DEF Bound, CallBound, call
    <2>5. SameCredit'
      BY <1>1 DEF Bound, SameCredit, call
    <2> QED BY <2>3, <2>4, <2>5 DEF Bound
  <1> QED BY <1>2, <1>3 DEF World, OrphanLapses, Suspend, Renew, Grant, vars, ledger

\* The invariant holds in every reachable state.
THEOREM LedgerBound == Spec => []Bound
  <1>1. Init => Bound
    <2> SUFFICES ASSUME Init PROVE Bound
      OBVIOUS
    <2>1. LedgerSound
      BY CreditConstants DEF Init, LedgerSound, Requests
    <2>2. \A t \in Tasks : pc[t] = "idle"
      BY DEF Init
    <2> QED BY <2>1, <2>2, TypeInit DEF Bound, CallBound, SameCredit, Selected, Claimed
  <1>2. Bound /\ [Next]_vars => Bound'
    <2> SUFFICES ASSUME Bound, [Next]_vars PROVE Bound'
      OBVIOUS
    <2>1. TypeOK'
      BY TypeStep DEF Bound
    <2>2. CASE \E t \in Tasks : Start(t) \/ Step(t) \/ Drop(t)
      BY <2>1, <2>2, StartBound, NativeBound, ReadingBound, PinBound, ConsumeBound DEF Step
    <2>3. CASE ~\E t \in Tasks : Start(t) \/ Step(t) \/ Drop(t)
      BY <2>1, <2>3, WorldBound DEF Next
    <2> QED BY <2>2, <2>3
  <1> QED BY <1>1, <1>2, PTL DEF Spec

(***************************************************************************)
(* The refinement: every step spends once, settles once, or stutters.      *)
(***************************************************************************)
Spent == [o \in Ops |-> SpentOn(o)]
Outcome == [o \in Ops |-> OutcomeOf(o)]

\* The code an operation's outcome is read from.
CodeOf(o) == IF o[1] = None THEN native[o[2]].code ELSE result[o[1]][o[2]]

\* An operation has a request, and an account unless the request is native.
LEMMA OpParts ==
    ASSUME NEW o \in Ops
    PROVE  /\ o[2] \in Requests /\ o[2] # None /\ o = <<o[1], o[2]>>
           /\ o[1] = None <=> o[2] \in NativeIds
           /\ o[1] # None => o[1] \in Accounts /\ o[2] \in DirectIds
  BY CreditConstants DEF Ops, Requests

\* Every native request is an operation, ...
LEMMA NativeOp ==
    ASSUME NEW r \in NativeIds
    PROVE  \E op \in Ops : op = <<None, r>> /\ op[1] = None /\ op[2] = r
  <1>1. <<None, r>> \in Ops
    BY DEF Ops
  <1> QED BY <1>1

\* ... and so is every other request at an account.
LEMMA DirectOp ==
    ASSUME NEW a \in Accounts, NEW r \in DirectIds
    PROVE  \E op \in Ops : op = <<a, r>> /\ op[1] = a /\ op[2] = r
  <1>1. <<a, r>> \in Ops
    BY DEF Ops
  <1> QED BY <1>1

\* The operation of a call.
OpOf(t) == IF IsNative(t) THEN <<None, req[t]>> ELSE <<acct[t], req[t]>>

\* A step that spends nothing and settles nothing.
LEMMA Stutter ==
    ASSUME UNCHANGED spentBy, \A o \in Ops : CodeOf(o)' = CodeOf(o)
    PROVE  UNCHANGED <<Spent, Outcome>>
  BY DEF Spent, Outcome, SpentOn, OutcomeOf, CodeOf

\* A step that gives one operation its first code, and spends nothing.
LEMMA Settles ==
    ASSUME UNCHANGED spentBy, NEW op \in Ops, NEW k \in Codes,
           CodeOf(op) = None, CodeOf(op)' = k,
           \A o \in Ops \ {op} : CodeOf(o)' = CodeOf(o)
    PROVE  Promise!Settle
  <1>1. UNCHANGED Spent
    BY DEF Spent, SpentOn
  <1>2. OutcomeOf(op) = {} /\ OutcomeOf(op)' = {k}
    BY CreditConstants DEF OutcomeOf, CodeOf
  <1>3. \A o \in Ops \ {op} : OutcomeOf(o)' = OutcomeOf(o)
    BY DEF OutcomeOf, CodeOf
  <1>4. Outcome' = [Outcome EXCEPT ![op] = {k}] /\ Outcome[op] = {} /\ Outcome' # Outcome
    <2>1. Outcome'[op] # Outcome[op] /\ Outcome[op] = {}
      BY <1>2 DEF Outcome
    <2>2. Outcome' = [Outcome EXCEPT ![op] = {k}]
      BY <1>2, <1>3 DEF Outcome
    <2> QED BY <2>1, <2>2
  <1> QED BY <1>1, <1>4 DEF Promise!Settle, Spent, Outcome

\* A step by which the provider spends the credit of a call.
LEMMA Spends ==
    ASSUME Bound, NEW t \in Tasks, pc[t] = "consume", SpendsFor(t),
           \A o \in Ops : CodeOf(o)' = CodeOf(o)
    PROVE  Promise!Spend
  <1>1. PICK c \in Credits : /\ c = sel[t] /\ Owner[c] = acct[t]
                             /\ acct[t] \in Accounts /\ req[t] \in Requests
    BY CreditConstants DEF Bound, TypeOK, CallBound, Claimed, Selected
  <1>2. PICK op \in Ops : op = OpOf(t) /\ op[2] = req[t] /\ (op[1] # None => op[1] = acct[t])
    BY <1>1, NativeOp, DirectOp DEF OpOf, IsNative, Requests
  <1>3. spentBy[c] = None
    BY <1>1 DEF Bound, LedgerSound, SpendsFor
  <1>4. /\ spentBy'[c] = req[t]
        /\ \A d \in Credits : d # c => spentBy'[d] = spentBy[d]
    BY <1>1 DEF SpendsFor, Bound, TypeOK
  <1>5. SpentOn(op) = {}
    <2>1. ASSUME NEW d \in Credits, d \in SpentOn(op) PROVE FALSE
      <3>1. spentBy[d] = req[t] /\ (op[1] # None => Owner[d] = op[1])
        BY <1>2, <2>1 DEF SpentOn
      <3>2. Owner[d] = acct[t]
        <4>1. CASE IsNative(t)
          BY <1>1, <3>1, <4>1 DEF Bound, LedgerSound, CallBound, IsNative, Claimed
        <4>2. CASE ~IsNative(t)
          BY <1>1, <1>2, <3>1, <4>2, CreditConstants DEF OpOf
        <4> QED BY <4>1, <4>2
      <3>3. c = d
        BY <1>1, <3>1, <3>2 DEF Bound, CallBound
      <3> QED BY <1>1, <1>3, <3>1, <3>3, CreditConstants
    <2> QED BY <2>1 DEF SpentOn
  <1>6. \A p \in Ops : c \notin SpentOn(p)
    BY <1>3, OpParts DEF SpentOn
  <1>7. SpentOn(op)' = {c}
    <2>1. c \in SpentOn(op)'
      BY <1>1, <1>2, <1>4 DEF SpentOn
    <2>2. ASSUME NEW d \in Credits, d # c PROVE d \notin SpentOn(op)'
      BY <1>4, <1>5, <2>2 DEF SpentOn
    <2> QED BY <2>1, <2>2 DEF SpentOn
  <1>8. \A p \in Ops : p # op => SpentOn(p)' = SpentOn(p)
    <2>1. ASSUME NEW p \in Ops, p # op PROVE c \notin SpentOn(p)'
      <3>1. CASE p[2] # req[t]
        BY <1>4, <3>1 DEF SpentOn
      <3>2. CASE p[2] = req[t]
        <4>1. p[1] # op[1]
          BY <1>2, <2>1, <3>2, OpParts
        <4>2. p[1] # None /\ p[1] # acct[t]
          BY <1>1, <1>2, <3>2, <4>1, OpParts DEF OpOf, IsNative
        <4> QED BY <1>1, <4>2 DEF SpentOn
      <3> QED BY <3>1, <3>2
    <2> QED BY <1>4, <1>6, <2>1 DEF SpentOn
  <1>9. /\ Spent' = [Spent EXCEPT ![op] = {c}] /\ Spent' # Spent
        /\ Spent[op] = {} /\ \A p \in Ops : c \notin Spent[p]
    <2>1. Spent' = [Spent EXCEPT ![op] = {c}]
      BY <1>2, <1>7, <1>8 DEF Spent
    <2>2. Spent[op] = {} /\ \A p \in Ops : c \notin Spent[p]
      BY <1>2, <1>5, <1>6 DEF Spent
    <2> QED BY <1>2, <2>1, <2>2 DEF Spent
  <1>10. UNCHANGED Outcome
    BY DEF Outcome, OutcomeOf, CodeOf
  <1> QED BY <1>1, <1>2, <1>9, <1>10 DEF Promise!Spend, Spent, Outcome

\* The steps that leave the native rows and the results alone, apart from new rows without a code.
LEMMA QuietCodes ==
    ASSUME TypeOK, UNCHANGED result,
           \A r \in NativeIds : native'[r].code = native[r].code
    PROVE  \A o \in Ops : CodeOf(o)' = CodeOf(o)
  BY OpParts DEF CodeOf

\* A step of a call that settles nothing.
LEMMA QuietStep ==
    ASSUME TypeOK, NEW t \in Tasks,
           \/ Start(t) \/ ReadNative(t) \/ PinNative(t) \/ Look(t) \/ Claim(t) \/ Busy(t)
           \/ Recheck(t) \/ ReadPin(t) \/ CheckNative(t) \/ Fetch(t) \/ Pin(t) \/ Fail(t)
           \/ Drop(t)
    PROVE  UNCHANGED <<Spent, Outcome>>
  <1>1. UNCHANGED <<spentBy, result>>
    BY DEF Start, StartDirect, StartNative, ReadNative, PinNative, Look, Claim, Busy, Recheck,
           ReadPin, CheckNative, Fetch, Pin, Fail, Drop, upstream, ledger
  <1>2. \A r \in NativeIds : native'[r].code = native[r].code
    <2>1. CASE PinNative(t)
      <3>1. req[t] \in NativeIds
        BY <2>1 DEF PinNative, TypeOK
      <3> QED BY <2>1, <3>1 DEF PinNative, TypeOK, NoRow
    <2>2. CASE UNCHANGED native
      BY <2>2
    <2> QED BY <2>1, <2>2 DEF Start, StartDirect, StartNative, ReadNative, Look, Claim, Busy,
                              Recheck, ReadPin, CheckNative, Fetch, Pin, Fail, Drop, ledger
  <1> QED BY <1>1, <1>2, QuietCodes, Stutter

\* "no_credit" settles a native request that has no answer yet.
LEMMA NoCreditSettles ==
    ASSUME TypeOK, NEW t \in Tasks, NoCandidate(t) \/ NoCredit(t)
    PROVE  Promise!Settle \/ UNCHANGED <<Spent, Outcome>>
  <1>1. UNCHANGED <<spentBy, result>> /\ req[t] \in NativeIds
    BY DEF NoCandidate, NoCredit, upstream, TypeOK
  <1>2. CASE UNCHANGED native
    BY <1>1, <1>2, QuietCodes, Stutter
  <1>3. CASE ~UNCHANGED native
    <2>1. PICK op \in Ops : op = <<None, req[t]>> /\ op[1] = None /\ op[2] = req[t]
      BY <1>1, NativeOp
    <2>2. /\ native[req[t]].code = None /\ native'[req[t]].code = "no_credit"
          /\ \A r \in NativeIds : r # req[t] => native'[r] = native[r]
      BY <1>1, <1>3 DEF NoCandidate, NoCredit, NoRow, Settled, TypeOK
    <2>3. CodeOf(op) = None /\ CodeOf(op)' = "no_credit"
      BY <2>1, <2>2 DEF CodeOf
    <2>4. \A o \in Ops \ {op} : CodeOf(o)' = CodeOf(o)
      BY <1>1, <2>1, <2>2, OpParts DEF CodeOf
    <2> QED BY <1>1, <2>3, <2>4, Settles DEF Codes
  <1> QED BY <1>2, <1>3

\* The first recorded answer settles the operation; a later one changes nothing.
LEMMA CompleteSettles ==
    ASSUME TypeOK, NEW t \in Tasks, Complete(t)
    PROVE  Promise!Settle \/ UNCHANGED <<Spent, Outcome>>
  <1> DEFINE a == acct[t]
             r == req[t]
             k == IF result[a][r] = None THEN code[t] ELSE result[a][r]
  <1>1. /\ a \in Accounts /\ r \in Requests /\ code[t] \in Codes /\ result[a][r] \in OrNone(Codes)
        /\ UNCHANGED spentBy
    BY DEF TypeOK, Complete, Claimed, upstream
  <1>2. /\ result' = [result EXCEPT ![a] = [result[a] EXCEPT ![r] = k]]
        /\ native' = IF IsNative(t) /\ native[r].account = a /\ native[r].code = None
                     THEN [native EXCEPT ![r] = Settled(native[r], k)] ELSE native
    BY DEF Complete
  <1>3. k \in Codes /\ (result[a][r] # None => k = result[a][r])
    BY <1>1 DEF OrNone
  <1> HIDE DEF k
  <1>4. CASE IsNative(t)
    <2>1. \A b \in Accounts, q \in DirectIds : result'[b][q] = result[b][q]
      BY <1>1, <1>2, <1>4, CreditConstants DEF IsNative, TypeOK, Requests
    <2>2. CASE UNCHANGED native
      <3>1. \A o \in Ops : CodeOf(o)' = CodeOf(o)
        BY <2>1, <2>2, OpParts DEF CodeOf
      <3> QED BY <1>1, <3>1, Stutter
    <2>3. CASE ~UNCHANGED native
      <3>1. PICK op \in Ops : op = <<None, r>> /\ op[1] = None /\ op[2] = r
        BY <1>4, NativeOp DEF IsNative
      <3>2. /\ native[r].code = None /\ native'[r].code = k
            /\ \A q \in NativeIds : q # r => native'[q] = native[q]
        BY <1>2, <1>4, <2>3 DEF Settled, TypeOK, IsNative
      <3>3. CodeOf(op) = None /\ CodeOf(op)' = k
        BY <3>1, <3>2 DEF CodeOf
      <3>4. \A o \in Ops \ {op} : CodeOf(o)' = CodeOf(o)
        BY <2>1, <3>1, <3>2, OpParts DEF CodeOf
      <3> QED BY <1>1, <1>3, <3>3, <3>4, Settles
    <2> QED BY <2>2, <2>3
  <1>5. CASE ~IsNative(t)
    <2>1. UNCHANGED native /\ r \in DirectIds
      BY <1>1, <1>2, <1>5 DEF IsNative, Requests
    <2>2. /\ result'[a][r] = k
          /\ \A b \in Accounts, q \in Requests : <<b, q>> # <<a, r>> => result'[b][q] = result[b][q]
      BY <1>1, <1>2 DEF TypeOK
    <2>3. CASE result[a][r] # None
      <3>1. \A o \in Ops : CodeOf(o)' = CodeOf(o)
        BY <1>3, <2>1, <2>2, <2>3, OpParts DEF CodeOf
      <3> QED BY <1>1, <3>1, Stutter
    <2>4. CASE result[a][r] = None
      <3>1. PICK op \in Ops : op = <<a, r>> /\ op[1] = a /\ op[2] = r
        BY <1>1, <2>1, DirectOp
      <3>2. a # None
        BY <1>1, CreditConstants
      <3>3. CodeOf(op) = None /\ CodeOf(op)' = k
        BY <2>2, <2>4, <3>1, <3>2 DEF CodeOf
      <3>4. \A o \in Ops \ {op} : CodeOf(o)' = CodeOf(o)
        BY <2>1, <2>2, <3>1, OpParts DEF CodeOf
      <3> QED BY <1>1, <1>3, <3>3, <3>4, Settles
    <2> QED BY <2>3, <2>4
  <1> QED BY <1>4, <1>5

\* Every step of the ledger is a step of the promise, or none.
LEMMA StepImplements ==
    Bound /\ [Next]_vars => Promise!Next \/ UNCHANGED <<Spent, Outcome>>
  <1> SUFFICES ASSUME Bound, [Next]_vars
               PROVE  Promise!Next \/ UNCHANGED <<Spent, Outcome>>
    OBVIOUS
  <1>0. TypeOK
    BY DEF Bound
  <1>1. ASSUME NEW t \in Tasks, Consume(t) PROVE Promise!Next \/ UNCHANGED <<Spent, Outcome>>
    <2>1. pc[t] = "consume" /\ UNCHANGED <<result, native>>
      BY <1>1 DEF Consume, ledger
    <2>2. \A o \in Ops : CodeOf(o)' = CodeOf(o)
      BY <1>0, <2>1, QuietCodes
    <2>3. UNCHANGED spentBy \/ SpendsFor(t)
      BY <1>1 DEF Consume, Provider, SpendsFor, upstream
    <2> QED BY <2>1, <2>2, <2>3, Spends, Stutter DEF Promise!Next
  <1>2. ASSUME NEW t \in Tasks, Start(t) \/ Step(t) \/ Drop(t), ~Consume(t)
        PROVE  Promise!Next \/ UNCHANGED <<Spent, Outcome>>
    BY <1>0, <1>2, QuietStep, NoCreditSettles, CompleteSettles DEF Step, Promise!Next
  <1>3. CASE \/ \E a \in Accounts : World(a)
             \/ \E c \in Credits : Grant(c)
             \/ UNCHANGED vars
    <2>1. UNCHANGED <<spentBy, result, native>>
      BY <1>3 DEF World, OrphanLapses, Suspend, Renew, Delete, Grant, vars, upstream, ledger
    <2> QED BY <1>0, <2>1, QuietCodes, Stutter
  <1> QED BY <1>1, <1>2, <1>3 DEF Next

\* The ledger implements the promise: whatever is repeated, lost, dropped, deleted or overslept,
\* an operation spends at most one credit and its outcome is final.
THEOREM Implements == Spec => OneShot
  <1>1. Init => Promise!Init
    <2> SUFFICES ASSUME Init PROVE Promise!Init
      OBVIOUS
    <2>1. ASSUME NEW o \in Ops PROVE SpentOn(o) = {} /\ OutcomeOf(o) = {}
      <3>1. SpentOn(o) = {}
        BY OpParts DEF Init, SpentOn
      <3>2. CodeOf(o) = None
        BY OpParts DEF Init, CodeOf, NoRow
      <3> QED BY <3>1, <3>2 DEF OutcomeOf, CodeOf
    <2> QED BY <2>1 DEF Promise!Init
  <1>2. Bound /\ [Next]_vars
          => [Promise!Next]_<<[o \in Ops |-> SpentOn(o)], [o \in Ops |-> OutcomeOf(o)]>>
    BY StepImplements DEF Spent, Outcome
  <1> QED BY <1>1, <1>2, LedgerBound, PTL DEF Spec, OneShot, Promise!Spec

(***************************************************************************)
(* One call at a time.  While no process sleeps through its heartbeats,    *)
(* the calls under the lease of an account follow one another, deletion of *)
(* the account included: no call takes the lease of one that is gone.      *)
(***************************************************************************)
LeaseInv ==
    /\ \A a \in lapsed : claim[a] \notin Tasks
    /\ \A t \in Tasks : pc[t] \in Claimed => claim[acct[t]] = t \/ acct[t] \notin present
    /\ \A t, u \in Tasks :
        pc[t] \in Claimed /\ pc[u] \in Claimed /\ acct[t] = acct[u] => t = u

\* The request of a call has spent no credit of its account.
Unspent(t) == \A c \in Credits : spentBy[c] = req[t] => Owner[c] # acct[t]

\* Where a call under the lease knows that its native request was not refused for good, ...
Accepted == {"fetch", "nocredit", "pin", "consume", "complete"}

\* ... and what it knows besides: its request has no result; and it has spent no credit, if the
\* call found no pin, or was denied one by the provider.
CallFresh(t) ==
    /\ pc[t] \in {"read"} \cup Selected => result[acct[t]][req[t]] = None
    /\ pc[t] \in {"check", "fetch"} /\ sel[t] = None /\ acct[t] \in present => Unspent(t)
    /\ pc[t] = "nocredit" => Unspent(t)
    /\ pc[t] = "complete" /\ code[t] = "no_credit" => Unspent(t)
    /\ pc[t] \in Accepted /\ IsNative(t) => native[req[t]].code # "no_credit"

\* A request whose result is "no_credit" has spent none on that account.
ResultsUnspent ==
    \A a \in Accounts, r \in Requests :
        result[a][r] = "no_credit" => \A c \in Credits : spentBy[c] = r => Owner[c] # a

Fresh ==
    LeaseInv /\ (\A t \in Tasks : CallFresh(t)) /\ ResultsUnspent /\ NoCreditIsUnspent
OneAtATime == ~suspended => Fresh

\* A step of a call changes the entries of no other.
LEMMA OthersAlways ==
    ASSUME TypeOK, NEW t \in Tasks, Start(t) \/ Step(t) \/ Drop(t)
    PROVE  OthersKept(t) /\ UNCHANGED <<present, suspended>>
  <1>1. UNCHANGED <<present, suspended>>
    BY DEF Start, StartDirect, StartNative, Step, ReadNative, PinNative, NoCandidate, Look, Claim,
           Busy, Recheck, ReadPin, CheckNative, Fetch, NoCredit, Pin, Consume, Complete, Fail, Drop
  <1>2. CASE End(t)
    BY <1>1, <1>2, EndTyped
  <1>3. CASE Start(t)
    BY <1>1, <1>3 DEF Start, StartDirect, StartNative, Goto, TypeOK, OthersKept
  <1>4. CASE ~End(t) /\ (ReadNative(t) \/ PinNative(t) \/ Look(t) \/ Claim(t))
    BY <1>1, <1>4 DEF ReadNative, PinNative, Look, Claim, FollowPin, Goto, call, TypeOK, OthersKept
  <1>5. CASE ~End(t) /\ (Recheck(t) \/ ReadPin(t) \/ CheckNative(t) \/ Fetch(t) \/ Pin(t) \/ Consume(t))
    BY <1>1, <1>5 DEF Recheck, ReadPin, CheckNative, Fetch, Pin, Consume, EndClaimed, Goto, call,
                      TypeOK, OthersKept
  <1> QED BY <1>2, <1>3, <1>4, <1>5
          DEF Step, NoCandidate, Busy, NoCredit, Complete, EndClaimed, Fail, Drop

\* A call that leaves the lease, or never had it.
LEMMA LeaseLeft ==
    ASSUME LeaseInv, NEW t \in Tasks, OthersKept(t), pc'[t] \notin Claimed, present' = present,
           \A a \in Accounts : claim'[a] = claim[a] \/ (claim[a] = t /\ claim'[a] \notin Tasks),
           lapsed' \subseteq lapsed, lapsed \subseteq Accounts,
           \A u \in Tasks : pc[u] \in Claimed => acct[u] \in Accounts
    PROVE  LeaseInv'
  <1>1. \A a \in lapsed' : claim'[a] \notin Tasks
    BY DEF LeaseInv
  <1>2. ASSUME NEW u \in Tasks, pc'[u] \in Claimed
        PROVE  u # t /\ pc[u] \in Claimed /\ acct'[u] = acct[u]
    BY <1>2 DEF OthersKept
  <1>3. ASSUME NEW u \in Tasks, pc'[u] \in Claimed
        PROVE  claim'[acct'[u]] = u \/ acct'[u] \notin present'
    BY <1>2, <1>3 DEF LeaseInv
  <1> QED BY <1>1, <1>2, <1>3 DEF LeaseInv

LEMMA LeaseStep ==
    ASSUME TypeOK, LeaseInv, NEW t \in Tasks, Start(t) \/ Step(t) \/ Drop(t)
    PROVE  LeaseInv'
  <1>0. /\ OthersKept(t) /\ present' = present /\ lapsed \subseteq Accounts
        /\ \A u \in Tasks : pc[u] \in Claimed \cup {"claim"} => acct[u] \in Accounts
        /\ None \notin Tasks /\ Orphan \notin Tasks
    BY OthersAlways, CreditConstants DEF TypeOK
  <1>1. CASE End(t)
    <2>1. pc'[t] \notin Claimed
      BY <1>1, EndTyped DEF Claimed
    <2>2. \A a \in Accounts : claim'[a] = claim[a] \/ (claim[a] = t /\ claim'[a] \notin Tasks)
      <3>1. ~Claim(t)
        BY <1>1 DEF Claim, End, Goto, TypeOK
      <3>2. UNCHANGED claim \/ Release(t) \/ Drop(t)
        BY <3>1 DEF Start, StartDirect, StartNative, Step, ReadNative, PinNative, NoCandidate, Look,
           Busy, Recheck, ReadPin, CheckNative, Fetch, NoCredit, Pin, Consume, Complete, Fail,
           EndClaimed, leases
      <3> QED BY <1>0, <3>2 DEF Release, Drop, leases, TypeOK
    <2>3. lapsed' \subseteq lapsed
      BY DEF Start, StartDirect, StartNative, Step, ReadNative, PinNative, NoCandidate, Look,
         Claim, Busy, Recheck, ReadPin, CheckNative, Fetch, NoCredit, Pin, Consume, Complete,
         Fail, Drop, EndClaimed, Release, leases
    <2> QED BY <1>0, <2>1, <2>2, <2>3, LeaseLeft
  <1>2. CASE Claim(t)
    <2>1. /\ pc[t] = "claim" /\ acct[t] \in present /\ acct'[t] = acct[t] /\ acct[t] \in Accounts
          /\ claim[acct[t]] \notin Tasks
          /\ claim' = [claim EXCEPT ![acct[t]] = t] /\ lapsed' = lapsed \ {acct[t]}
      BY <1>0, <1>2 DEF Claim, LeaseInv, call
    <2>2. \A u \in Tasks \ {t} : pc[u] \in Claimed => acct[u] # acct[t]
      BY <2>1 DEF LeaseInv
    <2>3. \A a \in Accounts : claim'[a] = IF a = acct[t] THEN t ELSE claim[a]
      BY <2>1 DEF TypeOK
    <2>4. \A a \in lapsed' : claim'[a] \notin Tasks
      BY <1>0, <2>1, <2>3 DEF LeaseInv
    <2>5. \A u \in Tasks : pc'[u] \in Claimed => claim'[acct'[u]] = u \/ acct'[u] \notin present'
      BY <1>0, <2>1, <2>2, <2>3 DEF LeaseInv, OthersKept
    <2>6. \A u, v \in Tasks :
            pc'[u] \in Claimed /\ pc'[v] \in Claimed /\ acct'[u] = acct'[v] => u = v
      BY <1>0, <2>1, <2>2 DEF LeaseInv, OthersKept
    <2> QED BY <2>4, <2>5, <2>6 DEF LeaseInv
  <1>3. CASE /\ ~End(t)
             /\ Recheck(t) \/ ReadPin(t) \/ CheckNative(t) \/ Fetch(t) \/ Pin(t) \/ Consume(t)
    <2>1. pc[t] \in Claimed /\ acct'[t] = acct[t] /\ UNCHANGED leases
      BY <1>3 DEF Recheck, ReadPin, CheckNative, Fetch, Pin, Consume, EndClaimed, call, Claimed
    <2> QED BY <1>0, <2>1 DEF LeaseInv, OthersKept, leases
  <1>4. CASE ~End(t) /\ (Start(t) \/ ReadNative(t) \/ PinNative(t) \/ Look(t))
    <2>1. pc'[t] \notin Claimed /\ UNCHANGED leases
      BY <1>4 DEF Start, StartDirect, StartNative, ReadNative, PinNative, Look, FollowPin, Goto,
                  TypeOK, Claimed
    <2> QED BY <1>0, <2>1, LeaseLeft DEF leases
  <1> QED BY <1>1, <1>2, <1>3, <1>4
          DEF Step, NoCandidate, Busy, NoCredit, Complete, EndClaimed, Fail, Drop

\* What a step of t does to a call u under the lease of another account: it records no result of
\* it, spends no credit of its account for it, and does not refuse its native request.
Apart(t, u) ==
    /\ result'[acct[u]][req[u]] = result[acct[u]][req[u]]
    /\ \A c \in Credits : Owner[c] = acct[u] /\ spentBy[c] # req[u] => spentBy'[c] # req[u]
    /\ IsNative(u) /\ native[req[u]].code # "no_credit" => native'[req[u]].code # "no_credit"

LEMMA ApartStep ==
    ASSUME Bound, LeaseInv, NEW t \in Tasks, Start(t) \/ Step(t) \/ Drop(t),
           NEW u \in Tasks, u # t, pc[u] \in Claimed
    PROVE  Apart(t, u)
  <1> USE DEF Apart
  <1>0. /\ TypeOK /\ acct[u] \in Accounts /\ req[u] \in Requests
        /\ pc[t] \in Claimed => acct[t] # acct[u] /\ acct[t] \in Accounts /\ req[t] \in Requests
        /\ IsNative(u) => native[req[u]].account = acct[u] /\ acct[u] # None
    BY CreditConstants DEF Bound, TypeOK, LeaseInv, CallBound, IsNative, Claimed
  <1>1. CASE Consume(t)
    <2>1. /\ pc[t] = "consume" /\ UNCHANGED <<result, native>>
          /\ UNCHANGED upstream \/ SpendsFor(t)
      BY <1>1 DEF Consume, Provider, SpendsFor, ledger
    <2>2. sel[t] \in Credits /\ Owner[sel[t]] = acct[t] /\ acct[t] # acct[u]
      BY <1>0, <2>1, CreditConstants DEF Bound, TypeOK, CallBound, Selected, Claimed
    <2>3. \A c \in Credits : c # sel[t] => spentBy'[c] = spentBy[c]
      BY <1>0, <2>1, <2>2 DEF SpendsFor, upstream, TypeOK
    <2> QED BY <2>1, <2>2, <2>3
  <1>2. CASE Complete(t)
    <2>1. /\ pc[t] = "complete" /\ UNCHANGED spentBy
          /\ acct[t] \in Accounts /\ req[t] \in Requests /\ acct[t] # acct[u]
      BY <1>0, <1>2 DEF Complete, upstream, Claimed
    <2>2. result'[acct[u]] = result[acct[u]]
      BY <1>0, <1>2, <2>1 DEF Complete, TypeOK
    <2>3. IsNative(u) => native'[req[u]] = native[req[u]]
      BY <1>0, <1>2, <2>1 DEF Complete, TypeOK, IsNative
    <2> QED BY <2>1, <2>2, <2>3
  <1>3. CASE NoCredit(t)
    <2>1. /\ pc[t] = "nocredit" /\ UNCHANGED <<spentBy, result>> /\ acct[t] # acct[u]
      BY <1>0, <1>3 DEF NoCredit, upstream, Claimed
    <2>2. IsNative(u) => native'[req[u]] = native[req[u]]
      BY <1>0, <1>3, <2>1 DEF NoCredit, TypeOK, IsNative
    <2> QED BY <2>1, <2>2
  <1>4. CASE NoCandidate(t) \/ PinNative(t)
    <2>1. UNCHANGED <<spentBy, result>>
      BY <1>4 DEF NoCandidate, PinNative, upstream
    <2>2. IsNative(u) => native[req[u]] # NoRow
      BY <1>0 DEF NoRow
    <2>3. IsNative(u) => native'[req[u]] = native[req[u]]
      BY <1>0, <1>4, <2>2 DEF NoCandidate, PinNative, TypeOK, IsNative
    <2> QED BY <2>1, <2>3
  <1>5. CASE UNCHANGED <<spentBy, result, native>>
    BY <1>5
  <1> QED BY <1>1, <1>2, <1>3, <1>4, <1>5
          DEF Start, StartDirect, StartNative, Step, ReadNative, Look, Claim, Busy, Recheck, ReadPin,
              CheckNative, Fetch, Pin, Fail, Drop, upstream, ledger

LEMMA OthersFresh ==
    ASSUME Bound, NEW t \in Tasks, OthersKept(t), present' = present,
           NEW u \in Tasks, u # t, CallFresh(u), pc[u] \in Claimed => Apart(t, u)
    PROVE  CallFresh(u)'
  <1>1. /\ pc'[u] = pc[u] /\ req'[u] = req[u] /\ acct'[u] = acct[u] /\ sel'[u] = sel[u]
        /\ code'[u] = code[u]
    BY DEF OthersKept
  <1>2. CASE pc[u] \in Claimed
    <2>1. Unspent(u) => Unspent(u)'
      BY <1>1, <1>2 DEF Unspent, Apart
    <2> QED BY <1>1, <1>2, <2>1 DEF CallFresh, Apart, IsNative, Claimed, Selected, Accepted
  <1>3. CASE pc[u] \notin Claimed
    BY <1>1, <1>3 DEF CallFresh, Claimed, Selected, Accepted
  <1> QED BY <1>2, <1>3

\* What a call learns in a step of its own.
LEMMA CallFreshStep ==
    ASSUME Bound, NEW t \in Tasks, CallFresh(t), Start(t) \/ Step(t) \/ Drop(t)
    PROVE  CallFresh(t)'
  <1> USE DEF CallFresh, Selected, Accepted
  <1>0. TypeOK
    BY DEF Bound
  <1>1. CASE pc'[t] \notin {"read"} \cup Selected
    BY <1>1
  <1>2. CASE ~End(t) /\ Recheck(t)
    <2>1. /\ result[acct[t]][req[t]] = None /\ pc'[t] = "read"
          /\ UNCHANGED <<result, acct, req>>
      BY <1>0, <1>2 DEF Recheck, EndClaimed, Goto, call, ledger, TypeOK
    <2> QED BY <2>1
  <1>3. CASE ReadPin(t)
    <2>1. /\ pc[t] = "read" /\ pc'[t] = (IF IsNative(t) THEN "check" ELSE "fetch")
          /\ sel'[t] = pin[acct[t]][req[t]]
          /\ UNCHANGED <<result, native, spentBy, present, acct, req>>
          /\ acct[t] \in Accounts /\ req[t] \in Requests
      BY <1>0, <1>3 DEF ReadPin, Goto, ledger, upstream, TypeOK, Claimed
    <2>2. ASSUME sel'[t] = None, acct[t] \in present PROVE Unspent(t)
      <3> SUFFICES ASSUME NEW c \in Credits, spentBy[c] = req[t], Owner[c] = acct[t] PROVE FALSE
        BY DEF Unspent
      <3>1. pin[acct[t]][req[t]] = c
        BY <2>1, <2>2, CreditConstants DEF Bound, LedgerSound
      <3> QED BY <2>1, <2>2, <3>1, CreditConstants
    <2> QED BY <2>1, <2>2 DEF Unspent, IsNative
  <1>4. CASE ~End(t) /\ CheckNative(t)
    <2>1. /\ pc[t] = "check" /\ pc'[t] = "fetch" /\ native[req[t]].code # "no_credit"
          /\ UNCHANGED <<result, native, spentBy, present, acct, req, sel>>
      BY <1>0, <1>4 DEF CheckNative, EndClaimed, Goto, call, ledger, upstream, TypeOK
    <2> QED BY <2>1 DEF Unspent
  <1>5. CASE ~End(t) /\ Fetch(t)
    <2>1. /\ pc[t] = "fetch" /\ acct[t] \in present
          /\ pc'[t] = "pin" \/ (pc'[t] = "nocredit" /\ sel[t] = None)
          /\ UNCHANGED <<result, native, spentBy, present, acct, req>>
      BY <1>0, <1>5 DEF Fetch, EndClaimed, Goto, call, ledger, upstream, TypeOK
    <2> QED BY <2>1 DEF Unspent, IsNative
  <1>6. CASE Pin(t)
    <2>1. /\ pc[t] = "pin" /\ pc'[t] = "consume" /\ UNCHANGED <<result, native, acct, req>>
      BY <1>0, <1>6 DEF Pin, Goto, TypeOK
    <2> QED BY <2>1 DEF IsNative
  <1>9. CASE ~End(t) /\ Consume(t)
    <2>1. /\ pc[t] = "consume" /\ pc'[t] = "complete"
          /\ UNCHANGED <<result, native, acct, req>>
      BY <1>0, <1>9 DEF Consume, EndClaimed, Goto, ledger, TypeOK
    <2>2. ASSUME code'[t] = "no_credit" PROVE Unspent(t)'
      <3>1. UNCHANGED spentBy /\ spentBy[sel[t]] # req[t]
        BY <1>0, <1>9, <2>2 DEF Consume, EndClaimed, Provider, upstream, TypeOK
      <3>2. \A c \in Credits : spentBy[c] = req[t] /\ Owner[c] = acct[t] => sel[t] = c
        BY <2>1 DEF Bound, CallBound
      <3> QED BY <2>1, <3>1, <3>2 DEF Unspent
    <2> QED BY <2>1, <2>2 DEF IsNative
  <1>7. CASE End(t)
    BY <1>0, <1>1, <1>7, EndTyped
  <1>8. CASE ~End(t) /\ (Start(t) \/ ReadNative(t) \/ PinNative(t) \/ Look(t) \/ Claim(t))
    BY <1>0, <1>1, <1>8 DEF Start, StartDirect, StartNative, ReadNative, PinNative, Look, Claim,
       FollowPin, Goto, TypeOK
  <1> QED BY <1>2, <1>3, <1>4, <1>5, <1>6, <1>7, <1>8, <1>9
          DEF Step, NoCandidate, Busy, NoCredit, Complete, EndClaimed, Fail, Drop

\* A result is recorded by a call that has spent nothing if it says so, and no credit is spent for
\* a request that has a result.
LEMMA ResultsStep ==
    ASSUME Bound, Fresh, NEW t \in Tasks, Start(t) \/ Step(t) \/ Drop(t)
    PROVE  ResultsUnspent'
  <1>0. TypeOK /\ CallBound(t) /\ CallFresh(t) /\ ResultsUnspent
    BY DEF Bound, Fresh
  <1> SUFFICES ASSUME NEW a \in Accounts, NEW r \in Requests, result'[a][r] = "no_credit",
                      NEW c \in Credits, spentBy'[c] = r, Owner[c] = a
               PROVE  FALSE
    BY DEF ResultsUnspent
  <1>1. CASE Complete(t)
    <2>1. /\ pc[t] = "complete" /\ UNCHANGED spentBy /\ acct[t] \in Accounts /\ req[t] \in Requests
          /\ result[acct[t]][req[t]] = None
      BY <1>0, <1>1 DEF Complete, upstream, TypeOK, Claimed, CallFresh, Selected
    <2>2. result' = [result EXCEPT ![acct[t]] = [result[acct[t]] EXCEPT ![req[t]] = code[t]]]
      BY <1>1, <2>1 DEF Complete
    <2>3. CASE a = acct[t] /\ r = req[t]
      <3>1. code[t] = "no_credit"
        BY <1>0, <2>1, <2>2, <2>3 DEF TypeOK
      <3> QED BY <1>0, <2>1, <2>3, <3>1 DEF CallFresh, Unspent
    <2>4. CASE ~(a = acct[t] /\ r = req[t])
      <3>1. result'[a][r] = result[a][r]
        BY <1>0, <2>1, <2>2, <2>4 DEF TypeOK
      <3> QED BY <1>0, <2>1, <3>1 DEF ResultsUnspent
    <2> QED BY <2>3, <2>4
  <1>2. CASE Consume(t)
    <2>1. /\ pc[t] = "consume" /\ UNCHANGED result /\ sel[t] \in Credits
          /\ UNCHANGED upstream \/ SpendsFor(t)
          /\ result[acct[t]][req[t]] = None
      BY <1>0, <1>2 DEF Consume, Provider, SpendsFor, ledger, TypeOK, CallFresh, Selected
    <2>2. Owner[sel[t]] = acct[t]
      BY <1>0, <2>1, CreditConstants DEF CallBound, Selected
    <2>3. spentBy[c] = r \/ (c = sel[t] /\ r = req[t])
      BY <1>0, <2>1 DEF SpendsFor, upstream, TypeOK
    <2>4. None # "no_credit"
      BY CreditConstants DEF Codes
    <2> QED BY <1>0, <2>1, <2>2, <2>3, <2>4 DEF ResultsUnspent
  <1>3. CASE UNCHANGED <<spentBy, result>>
    BY <1>0, <1>3 DEF ResultsUnspent
  <1> QED BY <1>1, <1>2, <1>3
          DEF Start, StartDirect, StartNative, Step, ReadNative, PinNative, NoCandidate, NoCredit,
              Look, Claim, Busy, Recheck, ReadPin, CheckNative, Fetch, Pin, Fail, Drop, upstream,
              ledger

\* A native request is refused for good when it has spent nothing, and spends nothing afterwards.
LEMMA RefusalStep ==
    ASSUME Bound, Fresh, ~suspended, NEW t \in Tasks, Start(t) \/ Step(t) \/ Drop(t)
    PROVE  NoCreditIsUnspent'
  <1>0. /\ TypeOK /\ LedgerSound /\ CallBound(t) /\ CallFresh(t)
        /\ \A r \in NativeIds : native[r].code = "no_credit" => \A c \in Credits : spentBy[c] # r
        /\ \A c \in Credits : Owner[c] \in Accounts /\ Owner[c] # None
    BY CreditConstants DEF Bound, Fresh, NoCreditIsUnspent
  <1> SUFFICES ASSUME NEW r \in NativeIds, native'[r].code = "no_credit",
                      NEW c \in Credits, spentBy'[c] = r
               PROVE  FALSE
    BY DEF NoCreditIsUnspent
  <1>1. CASE NoCandidate(t)
    <2>1. UNCHANGED spentBy /\ req[t] \in NativeIds
      BY <1>0, <1>1 DEF NoCandidate, upstream, TypeOK
    <2>2. native[r].account = Owner[c] /\ native[r] # NoRow
      BY <1>0, <2>1 DEF LedgerSound, NoRow
    <2>3. native'[r] = native[r]
      BY <1>0, <1>1, <2>1, <2>2 DEF NoCandidate, TypeOK
    <2> QED BY <1>0, <2>1, <2>3
  <1>2. CASE NoCredit(t)
    <2>1. UNCHANGED spentBy /\ req[t] \in NativeIds /\ Unspent(t) /\ native[req[t]].account = acct[t]
      BY <1>0, <1>2 DEF NoCredit, upstream, TypeOK, CallFresh, CallBound, Claimed
    <2>2. r # req[t]
      BY <1>0, <2>1 DEF LedgerSound, Unspent
    <2>3. native'[r] = native[r]
      BY <1>0, <1>2, <2>1, <2>2 DEF NoCredit, TypeOK
    <2> QED BY <1>0, <2>1, <2>3
  <1>3. CASE Complete(t)
    <2>1. /\ UNCHANGED spentBy /\ req[t] \in Requests /\ acct[t] \in Accounts
          /\ pc[t] = "complete" /\ result[acct[t]][req[t]] = None
      BY <1>0, <1>3 DEF Complete, upstream, TypeOK, CallFresh, Selected, Claimed
    <2>2. CASE native'[r] = native[r]
      BY <1>0, <2>1, <2>2
    <2>3. CASE native'[r] # native[r]
      <3>1. r = req[t] /\ native[r].account = acct[t] /\ native'[r].code = code[t]
        BY <1>0, <1>3, <2>1, <2>3 DEF Complete, Settled, TypeOK, IsNative
      <3>2. Unspent(t)
        BY <1>0, <2>1, <3>1 DEF CallFresh
      <3> QED BY <1>0, <2>1, <3>1, <3>2 DEF Unspent, LedgerSound
    <2> QED BY <2>2, <2>3
  <1>4. CASE Consume(t)
    <2>1. /\ UNCHANGED native /\ sel[t] \in Credits /\ native[r].code = "no_credit"
          /\ UNCHANGED upstream \/ SpendsFor(t)
          /\ IsNative(t) => native[req[t]].code # "no_credit"
      BY <1>0, <1>4 DEF Consume, Provider, SpendsFor, ledger, TypeOK, CallFresh, Accepted
    <2>2. spentBy[c] = r \/ req[t] = r
      BY <1>0, <2>1 DEF SpendsFor, upstream, TypeOK
    <2> QED BY <1>0, <2>1, <2>2 DEF IsNative
  <1>5. CASE PinNative(t)
    <2>1. UNCHANGED spentBy /\ req[t] \in NativeIds
      BY <1>0, <1>5 DEF PinNative, upstream, TypeOK
    <2>2. native[r].account = Owner[c] /\ native[r] # NoRow
      BY <1>0, <2>1 DEF LedgerSound, NoRow
    <2>3. native'[r] = native[r]
      BY <1>0, <1>5, <2>1, <2>2 DEF PinNative, TypeOK
    <2> QED BY <1>0, <2>1, <2>3
  <1>6. CASE UNCHANGED <<spentBy, native>>
    BY <1>0, <1>6
  <1> QED BY <1>1, <1>2, <1>3, <1>4, <1>5, <1>6
          DEF Start, StartDirect, StartNative, Step, ReadNative, Look, Claim, Busy, Recheck, ReadPin,
              CheckNative, Fetch, Pin, Fail, Drop, upstream, ledger

\* Deletions, and leases that lapse in time.
LEMMA FreshWorld ==
    ASSUME Bound, Fresh, ~suspended', ~suspended,
           \/ \E a \in Accounts : World(a)
           \/ \E c \in Credits : Grant(c)
           \/ UNCHANGED vars
    PROVE  Fresh'
  <1>1. /\ TypeOK /\ UNCHANGED <<pc, call, spentBy, native, result>> /\ present' \subseteq present
    BY DEF Bound, World, OrphanLapses, Suspend, Renew, Delete, Grant, vars, upstream, ledger
  <1>2. NoCreditIsUnspent' /\ ResultsUnspent'
    BY <1>1 DEF Fresh, NoCreditIsUnspent, ResultsUnspent
  <1>3. ASSUME NEW t \in Tasks PROVE CallFresh(t)'
    BY <1>1 DEF Fresh, CallFresh, Unspent, IsNative, call
  <1>4. LeaseInv'
    <2>1. CASE UNCHANGED <<claim, present>> /\ \A a \in lapsed' : claim[a] \notin Tasks
      BY <1>1, <2>1 DEF Fresh, LeaseInv, call
    <2>2. ASSUME NEW a \in Accounts, Delete(a) PROVE LeaseInv'
      <3>1. /\ lapsed' = lapsed \ {a} /\ present' = present \ {a}
            /\ \A b \in Accounts : b # a => claim'[b] = claim[b]
            /\ \A t \in Tasks : pc[t] \in Claimed => acct[t] \in Accounts
            /\ lapsed \subseteq Accounts
        BY <1>1, <2>2 DEF Delete, TypeOK
      <3>2. \A b \in lapsed' : claim'[b] \notin Tasks
        BY <3>1 DEF Fresh, LeaseInv
      <3>3. \A t \in Tasks : pc[t] \in Claimed => claim'[acct[t]] = t \/ acct[t] \notin present'
        BY <3>1 DEF Fresh, LeaseInv
      <3> QED BY <1>1, <3>2, <3>3 DEF Fresh, LeaseInv, call
    <2>3. ASSUME NEW a \in Accounts, OrphanLapses(a) \/ Renew(a)
          PROVE  UNCHANGED <<claim, present>> /\ \A b \in lapsed' : claim[b] \notin Tasks
      BY <2>3, CreditConstants DEF OrphanLapses, Renew, Fresh, LeaseInv
    <2>4. CASE (\E c \in Credits : Grant(c)) \/ UNCHANGED vars
      BY <2>1, <2>4 DEF Grant, vars, leases, Fresh, LeaseInv
    <2> QED BY <2>1, <2>2, <2>3, <2>4 DEF World, Suspend
  <1> QED BY <1>2, <1>3, <1>4 DEF Fresh

LEMMA OneAtATimeNext == Bound /\ OneAtATime /\ [Next]_vars => OneAtATime'
  <1> SUFFICES ASSUME Bound, OneAtATime, [Next]_vars PROVE OneAtATime'
    OBVIOUS
  <1>1. TypeOK
    BY DEF Bound
  <1>2. ASSUME NEW t \in Tasks, Start(t) \/ Step(t) \/ Drop(t), ~suspended' PROVE Fresh'
    <2>1. OthersKept(t) /\ UNCHANGED <<present, suspended>>
      BY <1>1, <1>2, OthersAlways
    <2>2. ~suspended /\ Fresh /\ LeaseInv /\ \A u \in Tasks : CallFresh(u)
      BY <1>2, <2>1 DEF OneAtATime, Fresh
    <2>3. LeaseInv'
      BY <1>1, <1>2, <2>2, LeaseStep
    <2>4. NoCreditIsUnspent'
      BY <1>1, <1>2, <2>2, RefusalStep
    <2>7. ResultsUnspent'
      BY <1>2, <2>2, ResultsStep
    <2>5. CallFresh(t)'
      BY <1>2, <2>2, CallFreshStep
    <2>6. ASSUME NEW u \in Tasks, u # t PROVE CallFresh(u)'
      BY <1>1, <1>2, <2>1, <2>2, <2>6, ApartStep, OthersFresh
    <2> QED BY <2>3, <2>4, <2>5, <2>6, <2>7 DEF Fresh
  <1>3. CASE ~(\E t \in Tasks : Start(t) \/ Step(t) \/ Drop(t)) /\ ~suspended'
    <2>1. ~suspended
      BY <1>1, <1>3 DEF Next, World, OrphanLapses, Suspend, Renew, Delete, Grant, vars, TypeOK
    <2>2. \/ \E a \in Accounts : World(a)
          \/ \E c \in Credits : Grant(c)
          \/ UNCHANGED vars
      BY <1>3 DEF Next
    <2> QED BY <1>1, <1>3, <2>1, <2>2, FreshWorld DEF OneAtATime
  <1> QED BY <1>1, <1>2, <1>3 DEF OneAtATime

LEMMA OneAtATimeInit == Init => OneAtATime
  <1> SUFFICES ASSUME Init PROVE OneAtATime
    OBVIOUS
  <1>1. \A t \in Tasks : pc[t] \notin {"read"} \cup Claimed /\ lapsed = {}
    BY DEF Init, Claimed
  <1>2. LeaseInv /\ \A t \in Tasks : CallFresh(t)
    BY <1>1 DEF Init, LeaseInv, CallFresh, Claimed, Selected, Accepted
  <1>3. NoCreditIsUnspent
    BY CreditConstants DEF Init, NoCreditIsUnspent, NoRow, Codes
  <1>4. ResultsUnspent
    BY CreditConstants DEF Init, ResultsUnspent, Codes
  <1> QED BY <1>2, <1>3, <1>4 DEF OneAtATime, Fresh

LEMMA OneAtATimeAlways == Spec => []OneAtATime
  BY OneAtATimeInit, OneAtATimeNext, LedgerBound, PTL DEF Spec

\* A native request is told "no_credit" for good only if it has spent none, for every set of calls
\* and ids, whatever is repeated, lost, dropped or deleted, while no process oversleeps a lease.
THEOREM RefusedIsUnspent == Spec => []NoCreditIsUnspent
  <1>1. OneAtATime => NoCreditIsUnspent
    BY DEF OneAtATime, Fresh, NoCreditIsUnspent
  <1> QED BY <1>1, OneAtATimeAlways, PTL

\* "concurrent_duplicate_redeems_make_one_upstream_consume_call": however many duplicates are under
\* way, none of them asks the provider once the request has its result.
THEOREM DuplicatesReplay == Spec => []AnsweredNotResent
  <1>1. OneAtATime => AnsweredNotResent
    BY DEF OneAtATime, Fresh, CallFresh, Selected, AnsweredNotResent
  <1> QED BY <1>1, OneAtATimeAlways, PTL
=============================================================================
