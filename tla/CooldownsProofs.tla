--------------------------- MODULE CooldownsProofs ---------------------------
(***************************************************************************)
(* What the queue of cooldowns keeps for every set of accounts, requests   *)
(* and refusals.  Two invariants over the types: `Attended' needs that a   *)
(* writer at rest is on no account, so that taking the next one abandons   *)
(* nobody; that a bench survives needs to know, for every account, which   *)
(* of row, queue and recording request holds the promised deadline.        *)
(***************************************************************************)
EXTENDS Cooldowns, TLAPS

\* Deadlines, and the accounts they are of.
Rows ==
    /\ present \subseteq Accounts /\ shortened \subseteq Accounts
    /\ row \in [Accounts -> Nat] /\ cooldown \in [Accounts -> Nat]
    /\ pending \in [Accounts -> Nat] /\ promised \in [Accounts -> Nat]
    /\ batch \in [Accounts -> Nat]

\* A request under way is on an account.
Recorders ==
    /\ pc \in [Requests -> {"idle", "direct", "bench", "insert", "wake"}]
    /\ acct \in [Requests -> Accounts \cup {NoAccount}] /\ until \in [Requests -> Nat]
    /\ due \in [Requests -> Nat]
    /\ path \in [Requests -> {"http", "quota", "stream"}]
    /\ \A r \in Requests : pc[r] # "idle" => acct[r] \in Accounts

\* A writer under way is on an account, and one at rest on none.
Scribes ==
    /\ step \in [Writers -> {"idle", "write", "finish", "sleep"}]
    /\ job \in [Writers -> Accounts \cup {NoAccount}] /\ write \in [Writers -> Nat]
    /\ \A x \in Writers : step[x] # "idle" => job[x] \in Accounts
    /\ \A x \in Writers : step[x] = "idle" => job[x] = NoAccount

Counts == faults \in 0..MaxFaults /\ restarts \in 0..MaxRestarts

QueueInv ==
    /\ Rows /\ Recorders /\ Scribes /\ Counts
    /\ wakes \in Seq(Accounts) /\ up \in BOOLEAN

-----------------------------------------------------------------------------
\* The parts give the type invariant.
LEMMA TypeParts == QueueInv => TypeOK
  BY DEF QueueInv, TypeOK, Rows, Recorders, Scribes, Counts

\* The process starts with nothing queued.
LEMMA InitQueue == Init => QueueInv
<1> SUFFICES ASSUME Init PROVE QueueInv
  OBVIOUS
<1> USE CooldownConstants DEF Init
<1>1. Rows /\ Counts
  BY DEF Rows, Counts
<1>2. Recorders /\ Scribes
  BY DEF Recorders, Scribes, Writers
<1> QED
  BY <1>1, <1>2 DEF QueueInv

\* The later of two deadlines is a deadline, and no earlier than either.
LEMMA LaterType == \A d, e \in Nat : Later(d, e) \in Nat /\ Later(d, e) >= d /\ Later(d, e) >= e
  BY DEF Later

\* A refusal, and the steps that record it, keep the types.
LEMMA RecordTypes ==
  ASSUME QueueInv, NEW r \in Requests, Limited(r) \/ DirectWrite(r) \/ Cancelled(r) \/ Recording(r)
  PROVE  QueueInv'
<1> USE CooldownConstants DEF QueueInv, durable, queue, requests, writers, ghosts, bounds, Done
<1>1. CASE Limited(r)
  <2>1. Rows'
    BY <1>1 DEF Limited, Rows, Recorders, Scribes, Upsert, Later
  <2>2. Recorders'
    <3>1. PICK f \in Refusals[r] :
            /\ acct' = [acct EXCEPT ![r] = f.acct] /\ until' = [until EXCEPT ![r] = f.until]
            /\ path' = [path EXCEPT ![r] = f.path]
            /\ pc' = [pc EXCEPT ![r] = IF f.path = "http" THEN "direct" ELSE "bench"]
      BY <1>1 DEF Limited
    <3>2. f.acct \in Accounts /\ f.until \in Nat /\ f.path \in {"http", "quota", "stream"}
      <4>1. Refusals[r] \subseteq [acct : Accounts, until : Deadlines, path : {"http", "quota", "stream"}]
        BY CooldownConstants
      <4> QED
        BY <3>1, <4>1
    <3> DEFINE p == IF f.path = "http" THEN "direct" ELSE "bench"
               a == f.acct
               d == f.until
               h == f.path
    <3>3. p \in {"direct", "bench"} /\ due' = due
      BY <1>1 DEF Limited
    <3>4. /\ acct' = [acct EXCEPT ![r] = a] /\ until' = [until EXCEPT ![r] = d]
          /\ path' = [path EXCEPT ![r] = h] /\ pc' = [pc EXCEPT ![r] = p]
      BY <3>1
    <3>5. a \in Accounts /\ d \in Nat /\ h \in {"http", "quota", "stream"}
      BY <3>2
    <3> HIDE DEF p, a, d, h
    <3> QED
      BY <3>3, <3>4, <3>5 DEF Recorders
  <2>3. Scribes'
    BY <1>1 DEF Limited, Scribes, Writers, Rows
  <2>4. Counts'
    BY <1>1 DEF Limited, Counts
  <2>5. wakes' \in Seq(Accounts) /\ up' \in BOOLEAN
    BY <1>1 DEF Limited, Rows, Recorders, Scribes, Writers
  <2> QED
    BY <2>1, <2>2, <2>3, <2>4, <2>5
<1>2. CASE DirectWrite(r)
  <2>1. Rows'
    <3>1. acct[r] \in Accounts /\ until[r] \in Nat
      BY <1>2 DEF DirectWrite, Recorders
    <3>2. row' \in [Accounts -> Nat]
      <4>1. row \in [Accounts -> Nat] /\ Later(row[acct[r]], until[r]) \in Nat
        BY <3>1, LaterType DEF Rows
      <4>2. row' = row \/ row' = [row EXCEPT ![acct[r]] = Later(row[acct[r]], until[r])]
        BY <1>2 DEF DirectWrite, Upsert
      <4> QED
        BY <3>1, <4>1, <4>2
    <3> QED
      BY <1>2, <3>2 DEF DirectWrite, Rows
  <2>2. Recorders'
    <3>1. CASE path[r] = "http"
      BY <1>2, <3>1 DEF DirectWrite, Wrote, Recorders
    <3>2. CASE path[r] # "http"
      <4>1. Done(r)
        BY <1>2, <3>2 DEF DirectWrite, Wrote
      <4> QED
        BY <4>1 DEF Recorders
    <3> QED
      BY <3>1, <3>2
  <2>3. Scribes'
    BY <1>2 DEF DirectWrite, Wrote, Scribes, Writers, Rows
  <2>4. Counts'
    BY <1>2 DEF DirectWrite, Wrote, Counts
  <2>5. wakes' \in Seq(Accounts) /\ up' \in BOOLEAN
    BY <1>2 DEF DirectWrite, Wrote, Rows, Recorders, Scribes, Writers
  <2> QED
    BY <2>1, <2>2, <2>3, <2>4, <2>5
<1>3. CASE Cancelled(r)
  <2>1. Rows'
    BY <1>3 DEF Cancelled, Rows, Recorders, Scribes, Upsert, Later
  <2>2. Recorders'
    BY <1>3 DEF Cancelled, Recorders, Rows, Later
  <2>3. Scribes'
    BY <1>3 DEF Cancelled, Scribes, Writers, Rows
  <2>4. Counts'
    BY <1>3 DEF Cancelled, Counts
  <2>5. wakes' \in Seq(Accounts) /\ up' \in BOOLEAN
    BY <1>3 DEF Cancelled, Rows, Recorders, Scribes, Writers
  <2> QED
    BY <2>1, <2>2, <2>3, <2>4, <2>5
<1>4. CASE Bench(r)
  <2>1. Rows'
    BY <1>4 DEF Bench, Rows, Recorders, Scribes, Upsert, Later
  <2>2. Recorders'
    BY <1>4 DEF Bench, Recorders, Rows, Later
  <2>3. Scribes'
    BY <1>4 DEF Bench, Scribes, Writers, Rows
  <2>4. Counts'
    BY <1>4 DEF Bench, Counts
  <2>5. wakes' \in Seq(Accounts) /\ up' \in BOOLEAN
    BY <1>4 DEF Bench, Rows, Recorders, Scribes, Writers
  <2> QED
    BY <2>1, <2>2, <2>3, <2>4, <2>5
<1>5. CASE Insert(r)
  <2>1. Rows'
    BY <1>5 DEF Insert, AfterQueued, Rows, Recorders, Scribes, Upsert, Later
  <2>2. Recorders'
    <3>1. CASE pending[acct[r]] = 0
      BY <1>5, <3>1 DEF Insert, Recorders
    <3>2. CASE pending[acct[r]] # 0 /\ path[r] = "quota"
      <4>1. /\ pc' = [pc EXCEPT ![r] = "direct"] /\ due' = [due EXCEPT ![r] = 0]
            /\ acct' = acct /\ until' = until /\ path' = path
        BY <1>5, <3>2 DEF Insert, AfterQueued
      <4>2. acct[r] \in Accounts
        BY <1>5 DEF Insert, Recorders
      <4> QED
        BY <4>1, <4>2 DEF Recorders
    <3>3. CASE pending[acct[r]] # 0 /\ path[r] # "quota"
      <4>1. Done(r) /\ acct[r] \in Accounts
        BY <1>5, <3>3 DEF Insert, AfterQueued, Recorders
      <4> QED
        BY <4>1 DEF Recorders
    <3> QED
      BY <3>1, <3>2, <3>3
  <2>3. Scribes'
    BY <1>5 DEF Insert, AfterQueued, Scribes, Writers, Rows
  <2>4. Counts'
    BY <1>5 DEF Insert, AfterQueued, Counts
  <2>5. wakes' \in Seq(Accounts) /\ up' \in BOOLEAN
    BY <1>5 DEF Insert, AfterQueued, Rows, Recorders, Scribes, Writers
  <2> QED
    BY <2>1, <2>2, <2>3, <2>4, <2>5
<1>6. CASE Wake(r)
  <2>1. Rows'
    BY <1>6 DEF Wake, AfterQueued, Rows, Recorders, Scribes, Upsert, Later
  <2>2. Recorders'
    <3>1. CASE path[r] = "quota"
      <4>1. /\ pc' = [pc EXCEPT ![r] = "direct"] /\ due' = [due EXCEPT ![r] = 0]
            /\ acct' = acct /\ until' = until /\ path' = path
        BY <1>6, <3>1 DEF Wake, AfterQueued
      <4>2. acct[r] \in Accounts
        BY <1>6 DEF Wake, Recorders
      <4> QED
        BY <4>1, <4>2 DEF Recorders
    <3>2. CASE path[r] # "quota"
      <4>1. Done(r) /\ acct[r] \in Accounts
        BY <1>6, <3>2 DEF Wake, AfterQueued, Recorders
      <4> QED
        BY <4>1 DEF Recorders
    <3> QED
      BY <3>1, <3>2
  <2>3. Scribes'
    BY <1>6 DEF Wake, AfterQueued, Scribes, Writers, Rows
  <2>4. Counts'
    BY <1>6 DEF Wake, AfterQueued, Counts
  <2>5. wakes' \in Seq(Accounts) /\ up' \in BOOLEAN
    BY <1>6 DEF Wake, AfterQueued, Rows, Recorders, Scribes, Writers
  <2> QED
    BY <2>1, <2>2, <2>3, <2>4, <2>5
<1> QED
  BY <1>1, <1>2, <1>3, <1>4, <1>5, <1>6 DEF Recording

\* So do the writers, ...
LEMMA WriterTypes ==
  ASSUME QueueInv, Working \/ Stored("flush") \/ FlushSnapshot \/ FlushTake \/ FlushDone
  PROVE  QueueInv'
<1> USE CooldownConstants DEF QueueInv, durable, queue, requests, writers, ghosts, bounds, Done
<1>1. CASE Receive
  <2>1. Rows'
    BY <1>1 DEF Receive, Take, Rows, Recorders, Scribes, Upsert, Later
  <2>2. Recorders'
    BY <1>1 DEF Receive, Take, Recorders, Rows, Later
  <2>3. Scribes'
    <3>1. CASE pending[Head(wakes)] = 0
      BY <1>1, <3>1 DEF Receive, Scribes
    <3>2. CASE pending[Head(wakes)] # 0
      <4>1. Take("worker", Head(wakes), pending[Head(wakes)])
        BY <1>1, <3>2 DEF Receive
      <4>2. Head(wakes) \in Accounts /\ pending[Head(wakes)] \in Nat
        BY <1>1 DEF Receive, Rows
      <4> QED
        BY <4>1, <4>2 DEF Take, Scribes, Writers
    <3> QED
      BY <3>1, <3>2
  <2>4. Counts'
    BY <1>1 DEF Receive, Take, Counts
  <2>5. wakes' \in Seq(Accounts) /\ up' \in BOOLEAN
    BY <1>1 DEF Receive, Take, Rows, Recorders, Scribes, Writers
  <2> QED
    BY <2>1, <2>2, <2>3, <2>4, <2>5
<1>2. CASE Stored("worker") \/ Stored("flush")
  <2>1. Rows'
    <3>1. PICK x \in Writers : Stored(x)
      BY <1>2 DEF Writers
    <3>2. row' = [row EXCEPT ![job[x]] = Later(row[job[x]], write[x])] /\ job[x] \in Accounts
      BY <3>1 DEF Stored, Upsert, Rows
    <3>3. Later(row[job[x]], write[x]) \in Nat
      BY <3>2, LaterType DEF Rows, Scribes
    <3> QED
      BY <3>1, <3>2, <3>3 DEF Stored, Rows
  <2>2. Recorders'
    BY <1>2 DEF Stored, Recorders, Rows, Later
  <2>3. Scribes'
    BY <1>2 DEF Stored, Scribes, Writers, Rows
  <2>4. Counts'
    BY <1>2 DEF Stored, Counts
  <2>5. wakes' \in Seq(Accounts) /\ up' \in BOOLEAN
    BY <1>2 DEF Stored, Rows, Recorders, Scribes, Writers
  <2> QED
    BY <2>1, <2>2, <2>3, <2>4, <2>5
<1>3. CASE WorkerDone
  <2>1. Rows'
    BY <1>3 DEF WorkerDone, Finished, Rest, Rows, Recorders, Scribes, Upsert, Later
  <2>2. Recorders'
    BY <1>3 DEF WorkerDone, Finished, Rest, Recorders, Rows, Later
  <2>3. Scribes'
    BY <1>3 DEF WorkerDone, Finished, Rest, Scribes, Writers, Rows
  <2>4. Counts'
    BY <1>3 DEF WorkerDone, Finished, Rest, Counts
  <2>5. wakes' \in Seq(Accounts) /\ up' \in BOOLEAN
    BY <1>3 DEF WorkerDone, Finished, Rest, Rows, Recorders, Scribes, Writers
  <2> QED
    BY <2>1, <2>2, <2>3, <2>4, <2>5
<1>4. CASE WorkerFails
  <2>1. Rows'
    BY <1>4 DEF WorkerFails, Failing, Rows, Recorders, Scribes, Upsert, Later
  <2>2. Recorders'
    BY <1>4 DEF WorkerFails, Failing, Recorders, Rows, Later
  <2>3. Scribes'
    BY <1>4 DEF WorkerFails, Failing, Scribes, Writers, Rows
  <2>4. Counts'
    BY <1>4 DEF WorkerFails, Failing, Counts
  <2>5. wakes' \in Seq(Accounts) /\ up' \in BOOLEAN
    BY <1>4 DEF WorkerFails, Failing, Rows, Recorders, Scribes, Writers
  <2> QED
    BY <2>1, <2>2, <2>3, <2>4, <2>5
<1>5. CASE Retry
  <2>1. Rows'
    BY <1>5 DEF Retry, Rest, Rows, Recorders, Scribes, Upsert, Later
  <2>2. Recorders'
    BY <1>5 DEF Retry, Rest, Recorders, Rows, Later
  <2>3. Scribes'
    BY <1>5 DEF Retry, Rest, Scribes, Writers, Rows
  <2>4. Counts'
    BY <1>5 DEF Retry, Rest, Counts
  <2>5. wakes' \in Seq(Accounts) /\ up' \in BOOLEAN
    BY <1>5 DEF Retry, Rest, Rows, Recorders, Scribes, Writers
  <2> QED
    BY <2>1, <2>2, <2>3, <2>4, <2>5
<1>6. CASE FlushTake
  <2>1. Rows'
    BY <1>6 DEF FlushTake, Take, Rows, Recorders, Scribes, Upsert, Later
  <2>2. Recorders'
    BY <1>6 DEF FlushTake, Take, Recorders, Rows, Later
  <2>3. Scribes'
    BY <1>6 DEF FlushTake, Take, Scribes, Writers, Rows
  <2>4. Counts'
    BY <1>6 DEF FlushTake, Take, Counts
  <2>5. wakes' \in Seq(Accounts) /\ up' \in BOOLEAN
    BY <1>6 DEF FlushTake, Take, Rows, Recorders, Scribes, Writers
  <2> QED
    BY <2>1, <2>2, <2>3, <2>4, <2>5
<1>8. CASE FlushSnapshot
  BY <1>8 DEF FlushSnapshot, Rows, Recorders, Scribes, Counts
<1>7. CASE FlushDone
  <2>1. Rows'
    BY <1>7 DEF FlushDone, Finished, Rest, Rows, Recorders, Scribes, Upsert, Later
  <2>2. Recorders'
    BY <1>7 DEF FlushDone, Finished, Rest, Recorders, Rows, Later
  <2>3. Scribes'
    BY <1>7 DEF FlushDone, Finished, Rest, Scribes, Writers, Rows
  <2>4. Counts'
    BY <1>7 DEF FlushDone, Finished, Rest, Counts
  <2>5. wakes' \in Seq(Accounts) /\ up' \in BOOLEAN
    BY <1>7 DEF FlushDone, Finished, Rest, Rows, Recorders, Scribes, Writers
  <2> QED
    BY <2>1, <2>2, <2>3, <2>4, <2>5
<1> QED
  BY <1>1, <1>2, <1>3, <1>4, <1>5, <1>6, <1>7, <1>8 DEF Working

\* ... and what begins, ends or is administered.
LEMMA LifeTypes ==
  ASSUME QueueInv, Flushed \/ FlushFails \/ Crash \/ Stop \/ \E a \in Accounts : Delete(a)
  PROVE  QueueInv'
<1> USE CooldownConstants DEF QueueInv, durable, queue, requests, writers, ghosts, bounds, Done
<1>1. CASE Flushed
  <2>1. Rows'
    BY <1>1 DEF Flushed, Restart, Rows, Recorders, Scribes, Upsert, Later
  <2>2. Recorders'
    BY <1>1 DEF Flushed, Restart, Recorders, Rows, Later
  <2>3. Scribes'
    BY <1>1 DEF Flushed, Restart, Scribes, Writers, Rows
  <2>4. Counts'
    BY <1>1 DEF Flushed, Restart, Counts
  <2>5. wakes' \in Seq(Accounts) /\ up' \in BOOLEAN
    BY <1>1 DEF Flushed, Restart, Rows, Recorders, Scribes, Writers
  <2> QED
    BY <2>1, <2>2, <2>3, <2>4, <2>5
<1>2. CASE FlushFails
  <2>1. Rows'
    BY <1>2 DEF FlushFails, Restart, Failing, Rows, Recorders, Scribes, Upsert, Later
  <2>2. Recorders'
    BY <1>2 DEF FlushFails, Restart, Failing, Recorders, Rows, Later
  <2>3. Scribes'
    BY <1>2 DEF FlushFails, Restart, Failing, Scribes, Writers, Rows
  <2>4. Counts'
    BY <1>2 DEF FlushFails, Restart, Failing, Counts
  <2>5. wakes' \in Seq(Accounts) /\ up' \in BOOLEAN
    BY <1>2 DEF FlushFails, Restart, Failing, Rows, Recorders, Scribes, Writers
  <2> QED
    BY <2>1, <2>2, <2>3, <2>4, <2>5
<1>3. CASE Crash
  <2>1. Rows'
    BY <1>3 DEF Crash, Restart, Rows, Recorders, Scribes, Upsert, Later
  <2>2. Recorders'
    BY <1>3 DEF Crash, Restart, Recorders, Rows, Later
  <2>3. Scribes'
    BY <1>3 DEF Crash, Restart, Scribes, Writers, Rows
  <2>4. Counts'
    BY <1>3 DEF Crash, Restart, Counts
  <2>5. wakes' \in Seq(Accounts) /\ up' \in BOOLEAN
    BY <1>3 DEF Crash, Restart, Rows, Recorders, Scribes, Writers
  <2> QED
    BY <2>1, <2>2, <2>3, <2>4, <2>5
<1>4. CASE Stop
  <2>1. Rows'
    BY <1>4 DEF Stop, Rows, Recorders, Scribes, Upsert, Later
  <2>2. Recorders'
    BY <1>4 DEF Stop, Recorders, Rows, Later
  <2>3. Scribes'
    BY <1>4 DEF Stop, Scribes, Writers, Rows
  <2>4. Counts'
    BY <1>4 DEF Stop, Counts
  <2>5. wakes' \in Seq(Accounts) /\ up' \in BOOLEAN
    BY <1>4 DEF Stop, Rows, Recorders, Scribes, Writers
  <2> QED
    BY <2>1, <2>2, <2>3, <2>4, <2>5
<1>5. CASE \E a \in Accounts : Delete(a)
  <2>1. Rows'
    BY <1>5 DEF Delete, Rows, Recorders, Scribes, Upsert, Later
  <2>2. Recorders'
    BY <1>5 DEF Delete, Recorders, Rows, Later
  <2>3. Scribes'
    BY <1>5 DEF Delete, Scribes, Writers, Rows
  <2>4. Counts'
    BY <1>5 DEF Delete, Counts
  <2>5. wakes' \in Seq(Accounts) /\ up' \in BOOLEAN
    BY <1>5 DEF Delete, Rows, Recorders, Scribes, Writers
  <2> QED
    BY <2>1, <2>2, <2>3, <2>4, <2>5
<1> QED
  BY <1>1, <1>2, <1>3, <1>4, <1>5

\* Every step keeps them.
LEMMA StepQueue == ASSUME QueueInv, [Next]_vars PROVE QueueInv'
<1>1. CASE UNCHANGED vars
  BY <1>1 DEF QueueInv, Rows, Recorders, Scribes, Counts, vars, durable, queue, requests, writers,
              ghosts, bounds
<1> QED
  BY <1>1, RecordTypes, WriterTypes, LifeTypes DEF Next, Flushing, Working

\* Types, and what is under way is under way for an account.
THEOREM QueueInvariant == Spec => []QueueInv
<1>1. Init => QueueInv
  BY InitQueue
<1>2. QueueInv /\ [Next]_vars => QueueInv'
  BY StepQueue
<1> QED
  BY <1>1, <1>2, PTL DEF Spec

\* Types of the variables, for every instance.
THEOREM TypeCorrect == Spec => []TypeOK
<1>1. QueueInv => TypeOK
  BY TypeParts
<1> QED
  BY <1>1, QueueInvariant, PTL

\* A queued deadline is never forgotten, because whoever takes it out of the channel is at rest
\* until then, and puts it back unless it is done.
THEOREM NeverForgotten == Spec => []NoForgottenDeadline
<1>1. Init => NoForgottenDeadline
  BY DEF Init, NoForgottenDeadline
<1>2. ASSUME QueueInv, NoForgottenDeadline, [Next]_vars, NEW a \in Accounts, pending'[a] # 0
      PROVE  Attended(a)'
  <2> USE <1>2 DEF NoForgottenDeadline, Attended, durable, queue, requests, writers, ghosts, bounds
  <2>0. /\ Recorders /\ pending \in [Accounts -> Nat] /\ wakes \in Seq(Accounts)
        /\ step \in [Writers -> {"idle", "write", "finish", "sleep"}]
        /\ job \in [Writers -> Accounts \cup {NoAccount}]
        /\ step["worker"] = "idle" => job["worker"] = NoAccount
    BY DEF QueueInv, Rows, Scribes, Writers
  <2>1. ASSUME NEW r \in Requests, Limited(r) \/ DirectWrite(r) \/ Cancelled(r) \/ Bench(r)
        PROVE  Attended(a)'
    <3>1. UNCHANGED wakes /\ UNCHANGED job /\ UNCHANGED pending
      BY <2>1 DEF Limited, DirectWrite, Cancelled, Bench
    <3>2. pc[r] # "wake" /\ \A q \in Requests \ {r} : pc'[q] = pc[q] /\ acct'[q] = acct[q]
      BY <2>0, <2>1 DEF Limited, DirectWrite, Wrote, Cancelled, Bench, Done, Recorders
    <3> QED
      BY <1>2, <3>1, <3>2
  <2>2. ASSUME NEW r \in Requests, Insert(r) PROVE Attended(a)'
    <3>0. UNCHANGED <<wakes, job>>
      BY <2>2 DEF Insert
    <3>1. CASE acct[r] = a /\ pending[a] = 0
      <4>1. pc' = [pc EXCEPT ![r] = "wake"] /\ acct' = acct
        BY <2>2, <3>1 DEF Insert
      <4> QED
        BY <2>0, <3>1, <4>1 DEF Recorders
    <3>2. CASE ~(acct[r] = a /\ pending[a] = 0)
      <4>1. pending[a] # 0
        BY <1>2, <2>0, <2>2, <3>2 DEF Insert
      <4>2. \A q \in Requests : pc[q] = "wake" => pc'[q] = "wake" /\ acct'[q] = acct[q]
        BY <2>0, <2>2 DEF Insert, AfterQueued, Done, Recorders
      <4> QED
        BY <1>2, <3>0, <4>1, <4>2
    <3> QED
      BY <3>1, <3>2
  <2>3. ASSUME NEW r \in Requests, Wake(r) PROVE Attended(a)'
    <3>0. pending[a] # 0 /\ wakes' = Append(wakes, acct[r]) /\ UNCHANGED job /\ acct[r] \in Accounts
      BY <1>2, <2>0, <2>3 DEF Wake, Recorders
    <3>1. wakes'[Len(wakes)+1] = acct[r] /\ Len(wakes') = Len(wakes) + 1
          /\ \A i \in 1..Len(wakes) : wakes'[i] = wakes[i]
      BY <2>0, <3>0
    <3>2. \A q \in Requests \ {r} : pc'[q] = pc[q] /\ acct'[q] = acct[q]
      BY <2>0, <2>3 DEF Wake, AfterQueued, Done, Recorders
    <3>3. CASE acct[r] = a
      BY <2>0, <3>1, <3>3
    <3>4. CASE acct[r] # a
      <4>1. Len(wakes) \in Nat /\ 1..Len(wakes) \subseteq 1..Len(wakes')
        BY <2>0, <3>1
      <4>2. CASE \E i \in 1..Len(wakes) : wakes[i] = a
        BY <3>1, <4>1, <4>2
      <4>3. CASE job["worker"] = a
        BY <3>0, <4>3
      <4>4. CASE \E q \in Requests : pc[q] = "wake" /\ acct[q] = a
        BY <3>2, <3>4, <4>4
      <4> QED
        BY <1>2, <3>0, <4>2, <4>3, <4>4
    <3> QED
      BY <3>3, <3>4
  <2>4. CASE Receive
    <3>1. pending[a] # 0 /\ job["worker"] # a /\ wakes # <<>> /\ UNCHANGED <<pc, acct>>
      BY <1>2, <2>0, <2>4, CooldownConstants DEF Receive
    <3>2. CASE Head(wakes) = a
      BY <2>0, <2>4, <3>1, <3>2 DEF Receive, Take, Writers
    <3>3. CASE Head(wakes) # a
      <4>1. Len(wakes') = Len(wakes) - 1 /\ \A i \in 1..Len(wakes') : wakes'[i] = wakes[i + 1]
        BY <2>0, <2>4, <3>1 DEF Receive
      <4>2. ASSUME NEW i \in 1..Len(wakes), wakes[i] = a PROVE \E j \in 1..Len(wakes') : wakes'[j] = a
        <5>1. i # 1 /\ i - 1 \in 1..Len(wakes')
          BY <2>0, <3>1, <3>3, <4>1, <4>2
        <5>2. wakes'[i - 1] = wakes[(i - 1) + 1] /\ (i - 1) + 1 = i
          BY <4>1, <5>1
        <5> QED
          BY <4>2, <5>1, <5>2
      <4> QED
        BY <1>2, <3>1, <4>2
    <3> QED
      BY <3>2, <3>3
  <2>5. ASSUME NEW x \in Writers, Stored(x) PROVE Attended(a)'
    BY <2>0, <2>5 DEF Stored
  <2>6. CASE WorkerDone
    BY <2>0, <2>6 DEF WorkerDone, Finished, Rest, Writers
  <2>7. CASE WorkerFails
    BY <2>0, <2>7 DEF WorkerFails
  <2>8. CASE Retry
    BY <2>0, <2>8 DEF Retry, Rest, Writers
  <2>9. CASE FlushSnapshot \/ FlushTake \/ FlushDone
    BY <2>0, <2>9 DEF FlushSnapshot, FlushTake, FlushDone, Take, Finished, Rest, Writers
  <2>10. CASE Flushed \/ FlushFails \/ Crash
    BY <2>10 DEF Flushed, FlushFails, Crash, Restart
  <2>11. CASE Stop \/ \E b \in Accounts : Delete(b)
    BY <2>11 DEF Stop, Delete
  <2>12. CASE UNCHANGED vars
    BY <2>12 DEF vars
  <2> QED
    BY <2>1, <2>2, <2>3, <2>4, <2>5, <2>6, <2>7, <2>8, <2>9, <2>10, <2>11, <2>12, <1>2
       DEF Next, Recording, Working, Flushing, Writers
<1>3. QueueInv /\ NoForgottenDeadline /\ [Next]_vars => NoForgottenDeadline'
  BY <1>2 DEF NoForgottenDeadline
<1> QED
  BY <1>1, <1>3, QueueInvariant, PTL DEF Spec

-----------------------------------------------------------------------------
\* A promise is not longer than what is in force, or the row has it already.
InForce(a) == promised[a] <= cooldown[a] \/ promised[a] <= row[a]

\* Row, queue or a request on its way to the queue has what was promised.
Carried(a) ==
    \/ row[a] >= promised[a] \/ pending[a] >= promised[a]
    \/ \E r \in Requests : pc[r] = "insert" /\ acct[r] = a /\ due[r] >= promised[a]

\* A writer that is done with an account has stored what it took.
Committed == \A x \in Writers :
    step[x] = "finish" => job[x] \notin present \/ row[job[x]] >= write[x]

Owed ==
    /\ Committed
    /\ \A a \in present : InForce(a) /\ (a \notin shortened => Carried(a))

\* What is owed to accounts nothing is under way for is in their rows.
LEMMA OwedSuffices == QueueInv /\ Owed => BenchSurvives
<1> SUFFICES ASSUME QueueInv, Owed, NEW a \in present \cap Settled, pending[a] = 0, a \notin shortened
             PROVE  row[a] >= promised[a]
  BY DEF BenchSurvives
<1>1. row[a] \in Nat /\ promised[a] \in Nat /\ \A r \in Requests : acct[r] # a
  BY DEF QueueInv, Rows, Settled
<1> QED
  BY <1>1 DEF Owed, Carried

\* An upsert shortens no row.
LEMMA UpsertGrows ==
  ASSUME QueueInv, NEW b \in Accounts, NEW d \in Nat, Upsert(b, d)
  PROVE  /\ row' \in [Accounts -> Nat] /\ row'[b] >= d
         /\ \A a \in Accounts : row'[a] >= row[a]
<1>1. row \in [Accounts -> Nat]
  BY DEF QueueInv, Rows
<1>2. row' = [row EXCEPT ![b] = Later(row[b], d)]
  BY DEF Upsert
<1>3. Later(row[b], d) \in Nat /\ Later(row[b], d) >= row[b] /\ Later(row[b], d) >= d
  BY <1>1, LaterType
<1> QED
  BY <1>1, <1>2, <1>3

\* Every step keeps what is owed.
LEMMA StepOwed == ASSUME QueueInv, Owed, [Next]_vars PROVE Owed'
<1> USE DEF durable, queue, requests, writers, ghosts, bounds
<1>0. /\ present \subseteq Accounts /\ row \in [Accounts -> Nat] /\ cooldown \in [Accounts -> Nat]
      /\ pending \in [Accounts -> Nat] /\ promised \in [Accounts -> Nat]
      /\ Recorders /\ Scribes
  BY DEF QueueInv, Rows
<1>1. ASSUME NEW r \in Requests, pc[r] # "insert", pc'[r] # "insert",
             \A q \in Requests \ {r} : pc'[q] = pc[q] /\ acct'[q] = acct[q] /\ due'[q] = due[q],
             row' \in [Accounts -> Nat], \A a \in Accounts : row'[a] >= row[a],
             UNCHANGED <<present, cooldown, pending, promised, shortened, step, job, write>>
      PROVE  Owed'
  <2>1. Committed'
    BY <1>0, <1>1 DEF Owed, Committed, Scribes
  <2>2. ASSUME NEW a \in present PROVE InForce(a)' /\ (a \notin shortened => Carried(a)')
    <3>1. InForce(a)'
      BY <1>0, <1>1 DEF Owed, InForce
    <3>2. ASSUME a \notin shortened PROVE Carried(a)'
      BY <1>0, <1>1, <3>2 DEF Owed, Carried
    <3> QED
      BY <3>1, <3>2
  <2> QED
    BY <1>1, <2>1, <2>2 DEF Owed
<1>2. ASSUME NEW r \in Requests, Limited(r) PROVE Owed'
  BY <1>0, <1>1, <1>2 DEF Limited, Recorders
<1>3. ASSUME NEW r \in Requests, DirectWrite(r) PROVE Owed'
  <2>1. row' \in [Accounts -> Nat] /\ \A a \in Accounts : row'[a] >= row[a]
    BY <1>0, <1>3, UpsertGrows DEF DirectWrite, Recorders
  <2>2. /\ pc[r] # "insert" /\ pc'[r] # "insert"
        /\ \A q \in Requests \ {r} : pc'[q] = pc[q] /\ acct'[q] = acct[q] /\ due'[q] = due[q]
    BY <1>0, <1>3 DEF DirectWrite, Wrote, Done, Recorders
  <2>3. UNCHANGED <<present, cooldown, pending, promised, shortened, step, job, write>>
    BY <1>3 DEF DirectWrite
  <2> QED
    BY <1>1, <2>1, <2>2, <2>3
<1>4. ASSUME NEW r \in Requests, Cancelled(r) PROVE Owed'
  BY <1>0, <1>1, <1>4 DEF Cancelled, Done, Recorders
<1>5. ASSUME NEW r \in Requests, Wake(r) PROVE Owed'
  <2>1. /\ pc[r] # "insert" /\ pc'[r] # "insert"
        /\ \A q \in Requests \ {r} : pc'[q] = pc[q] /\ acct'[q] = acct[q] /\ due'[q] = due[q]
    BY <1>0, <1>5 DEF Wake, AfterQueued, Done, Recorders
  <2>2. UNCHANGED <<row, present, cooldown, pending, promised, shortened, step, job, write>>
    BY <1>5 DEF Wake
  <2>3. row' \in [Accounts -> Nat] /\ \A a \in Accounts : row'[a] >= row[a]
    BY <1>0, <2>2
  <2> QED
    BY <1>1, <2>1, <2>2, <2>3
<1>6. ASSUME NEW r \in Requests, Bench(r) PROVE Owed'
  <2> DEFINE b == acct[r]
             d == Later(cooldown[b], until[r])
  <2>1. b \in Accounts /\ d \in Nat /\ d >= cooldown[b]
    BY <1>0, <1>6, LaterType DEF Bench, Recorders
  <2>2. Later(promised[b], d) \in Nat /\ Later(promised[b], d) \in {promised[b], d}
        /\ Later(promised[b], d) >= promised[b] /\ Later(promised[b], d) >= d
    BY <1>0, <2>1, LaterType DEF Later
  <2>3. /\ cooldown' = [cooldown EXCEPT ![b] = d] /\ due' = [due EXCEPT ![r] = d]
        /\ promised' = [promised EXCEPT ![b] = Later(promised[b], d)]
        /\ pc' = [pc EXCEPT ![r] = "insert"] /\ pc[r] = "bench"
        /\ UNCHANGED <<present, row, pending, acct, shortened, step, job, write>>
    BY <1>6 DEF Bench
  <2> HIDE DEF d
  <2>4. Committed'
    BY <2>3 DEF Owed, Committed
  <2>5. ASSUME NEW a \in present PROVE InForce(a)' /\ (a \notin shortened => Carried(a)')
    <3>1. CASE a # b
      <4>1. InForce(a)'
        BY <1>0, <2>1, <2>3, <3>1 DEF Owed, InForce
      <4>2. ASSUME a \notin shortened PROVE Carried(a)'
        BY <1>0, <2>1, <2>3, <3>1, <4>2 DEF Owed, Carried, Recorders
      <4> QED
        BY <4>1, <4>2
    <3>2. CASE a = b
      <4>0. promised'[a] = Later(promised[a], d) /\ cooldown'[a] = d
            /\ pc'[r] = "insert" /\ acct'[r] = a /\ due'[r] = d
        BY <1>0, <2>3, <3>2 DEF Recorders
      <4>1. CASE Later(promised[a], d) = d
        BY <1>0, <2>1, <2>2, <3>2, <4>0, <4>1 DEF InForce, Carried
      <4>2. CASE Later(promised[a], d) = promised[a] /\ promised[a] # d
        <5>1. promised[a] > d
          BY <1>0, <2>1, <2>2, <3>2, <4>2
        <5>2. row[a] >= promised[a]
          BY <1>0, <2>1, <3>2, <5>1 DEF Owed, InForce
        <5> QED
          BY <1>0, <2>3, <4>0, <4>2, <5>2 DEF InForce, Carried
      <4> QED
        BY <2>2, <3>2, <4>1, <4>2
    <3> QED
      BY <3>1, <3>2
  <2> QED
    BY <2>3, <2>4, <2>5 DEF Owed
<1>7. ASSUME NEW r \in Requests, Insert(r) PROVE Owed'
  <2>0. /\ pc[r] = "insert" /\ acct[r] \in Accounts /\ due[r] \in Nat
        /\ pending' = [pending EXCEPT ![acct[r]] = due[r]]
        /\ shortened' = IF pending[acct[r]] > due[r] THEN shortened \cup {acct[r]} ELSE shortened
        /\ UNCHANGED <<present, row, cooldown, promised, step, job, write>>
    BY <1>0, <1>7 DEF Insert, Recorders
  <2>1. \A q \in Requests \ {r} : pc'[q] = pc[q] /\ acct'[q] = acct[q] /\ due'[q] = due[q]
    BY <1>0, <1>7 DEF Insert, AfterQueued, Done, Recorders
  <2>2. Committed'
    BY <2>0 DEF Owed, Committed
  <2>3. ASSUME NEW a \in present PROVE InForce(a)' /\ (a \notin shortened' => Carried(a)')
    <3>1. InForce(a)'
      BY <2>0 DEF Owed, InForce
    <3>2. ASSUME a \notin shortened' PROVE Carried(a)'
      <4>1. a \notin shortened /\ (a = acct[r] => ~(pending[a] > due[r]))
        BY <1>0, <2>0, <3>2
      <4>2. Carried(a)
        BY <4>1 DEF Owed
      <4>3. pending'[a] >= pending[a] /\ (a = acct[r] => pending'[a] = due[r])
        BY <1>0, <2>0, <4>1
      <4>4. pending'[a] \in Nat /\ pending[a] \in Nat /\ promised[a] \in Nat /\ row[a] \in Nat
        BY <1>0, <2>0
      <4>5. CASE row[a] >= promised[a] \/ pending[a] >= promised[a]
        BY <2>0, <4>3, <4>4, <4>5 DEF Carried
      <4>6. CASE \E q \in Requests : pc[q] = "insert" /\ acct[q] = a /\ due[q] >= promised[a]
        BY <2>0, <2>1, <4>3, <4>6 DEF Carried
      <4> QED
        BY <4>2, <4>5, <4>6 DEF Carried
    <3> QED
      BY <3>1, <3>2
  <2> QED
    BY <2>0, <2>2, <2>3 DEF Owed
<1>8. ASSUME NEW x \in Writers, Stored(x) PROVE Owed'
  <2>0. /\ job[x] \in present /\ Upsert(job[x], write[x]) /\ step' = [step EXCEPT ![x] = "finish"]
        /\ UNCHANGED <<present, cooldown, pending, pc, acct, due, promised, shortened, job, write>>
    BY <1>8 DEF Stored
  <2>1. /\ row' \in [Accounts -> Nat] /\ row'[job[x]] >= write[x]
        /\ \A a \in Accounts : row'[a] >= row[a]
    BY <1>0, <2>0, UpsertGrows DEF Scribes
  <2>2. Committed'
    BY <1>0, <2>0, <2>1 DEF Owed, Committed, Scribes
  <2>3. ASSUME NEW a \in present PROVE InForce(a)' /\ (a \notin shortened => Carried(a)')
    <3>1. row'[a] >= row[a] /\ row'[a] \in Nat /\ row[a] \in Nat /\ promised[a] \in Nat
      BY <1>0, <2>1
    <3>2. InForce(a)'
      BY <2>0, <3>1 DEF Owed, InForce
    <3>3. ASSUME a \notin shortened PROVE Carried(a)'
      BY <2>0, <3>1, <3>3 DEF Owed, Carried
    <3> QED
      BY <3>2, <3>3
  <2> QED
    BY <2>0, <2>2, <2>3 DEF Owed
<1>9. ASSUME NEW x \in Writers, step[x] = "finish", Finished(x), Rest(x),
             UNCHANGED <<durable, cooldown, requests, promised, shortened>>
      PROVE  Owed'
  <2>1. Committed'
    BY <1>0, <1>9 DEF Owed, Committed, Rest, Scribes
  <2>2. ASSUME NEW a \in present PROVE InForce(a)' /\ (a \notin shortened => Carried(a)')
    <3>1. InForce(a)'
      BY <1>9 DEF Owed, InForce
    <3>2. ASSUME a \notin shortened PROVE Carried(a)'
      <4>1. CASE pending'[a] = pending[a]
        BY <1>9, <3>2, <4>1 DEF Owed, Carried
      <4>2. CASE pending'[a] # pending[a]
        <5>1. job[x] = a /\ pending[a] = write[x]
          BY <1>0, <1>9, <4>2 DEF Finished
        <5>2. row[a] >= write[x]
          BY <1>9, <5>1 DEF Owed, Committed
        <5>3. row[a] \in Nat /\ promised[a] \in Nat /\ pending[a] \in Nat
          BY <1>0
        <5> QED
          BY <1>9, <3>2, <5>1, <5>2, <5>3 DEF Owed, Carried
      <4> QED
        BY <4>1, <4>2
    <3> QED
      BY <3>1, <3>2
  <2> QED
    BY <1>9, <2>1, <2>2 DEF Owed
<1>10. ASSUME NEW x \in Writers,
              \/ Rest(x)
              \/ step' = [step EXCEPT ![x] = "sleep"] /\ UNCHANGED <<job, write>>
              \/ \E a \in Accounts, d \in Nat : Take(x, a, d),
              UNCHANGED <<durable, cooldown, pending, requests, promised, shortened>>
       PROVE  Owed'
  <2>1. Committed'
    BY <1>0, <1>10 DEF Owed, Committed, Rest, Take, Scribes
  <2> QED
    BY <1>10, <2>1 DEF Owed, InForce, Carried
<1>11. CASE Receive
  <2>1. CASE pending[Head(wakes)] = 0
    BY <1>11, <2>1 DEF Receive, Owed, Committed, InForce, Carried
  <2>2. CASE pending[Head(wakes)] # 0
    BY <1>0, <1>10, <1>11, <2>2 DEF Receive, QueueInv, Writers
  <2> QED
    BY <2>1, <2>2
<1>12. CASE WorkerDone \/ FlushDone
  BY <1>9, <1>12 DEF WorkerDone, FlushDone, Writers
<1>13. CASE WorkerFails \/ Retry
  BY <1>10, <1>13 DEF WorkerFails, Retry, Writers
<1>14a. CASE FlushTake
  BY <1>10, <1>14a DEF FlushTake, Writers, QueueInv, Rows
<1>14b. CASE FlushSnapshot
  BY <1>14b DEF FlushSnapshot, Owed, Committed, InForce, Carried
<1>14. ASSUME NEW kept \in SUBSET present, \A a \in kept : row[a] >= promised[a], Restart(kept)
       PROVE  Owed'
  <2>1. Committed'
    BY <1>14 DEF Restart, Committed
  <2>2. ASSUME NEW a \in present PROVE row'[a] >= promised'[a] /\ promised'[a] <= row'[a]
    BY <1>0, <1>14 DEF Restart
  <2> QED
    BY <1>14, <2>1, <2>2 DEF Owed, InForce, Carried, Restart
<1>15. CASE Flushed
  <2> DEFINE kept == (Settled \cap present) \ shortened
  <2>1. Restart(kept) /\ \A a \in Accounts : pending[a] = 0
    BY <1>15 DEF Flushed
  <2>2. \A a \in kept : row[a] >= promised[a]
    BY <1>0, <2>1, OwedSuffices DEF BenchSurvives
  <2> HIDE DEF kept
  <2>3. kept \in SUBSET present
    BY DEF kept
  <2> QED
    BY <1>14, <2>1, <2>2, <2>3
<1>16. CASE FlushFails \/ Crash
  BY <1>14, <1>16 DEF FlushFails, Crash
<1>17. CASE Stop
  BY <1>17 DEF Stop, Owed, Committed, InForce, Carried
<1>18. ASSUME NEW b \in Accounts, Delete(b) PROVE Owed'
  <2>1. Committed'
    BY <1>0, <1>18 DEF Delete, Owed, Committed, Scribes
  <2>2. ASSUME NEW a \in present' PROVE InForce(a)' /\ (a \notin shortened => Carried(a)')
    BY <1>0, <1>18 DEF Delete, Owed, InForce, Carried
  <2> QED
    BY <1>18, <2>1, <2>2 DEF Delete, Owed
<1>19. CASE UNCHANGED vars
  BY <1>19 DEF vars, Owed, Committed, InForce, Carried
<1> QED
  BY <1>2, <1>3, <1>4, <1>5, <1>6, <1>7, <1>8, <1>11, <1>12, <1>13, <1>15, <1>16, <1>17, <1>18, <1>19,
     <1>14a, <1>14b
     DEF Next, Recording, Working, Flushing, Writers

\* What an account was benched for is in its row once nothing is under way for it: at every moment
\* somebody carries the longest deadline towards the row, whose writes never shorten it.
THEOREM BenchesSurvive == Spec => []BenchSurvives
<1>1. Init => Owed
  BY DEF Init, Owed, Committed, InForce, Carried
<1>2. QueueInv /\ Owed /\ [Next]_vars => Owed'
  BY StepOwed
<1> QED
  BY <1>1, <1>2, QueueInvariant, OwedSuffices, PTL DEF Spec
=============================================================================
