------------------------- MODULE TokenRefreshProofs -------------------------
(***************************************************************************)
(* Theorems about TokenRefresh, for every set of nodes and tasks, every    *)
(* number of pairs and every bound on the faults: the state is well typed; *)
(* refreshes of one process never overlap, cancellations and crashes       *)
(* included; an account is never marked while its pair works, unless an    *)
(* answer was unreadable; the cache serves no replaced pair, but for       *)
(* writes of the row that no bump in this process follows; and while       *)
(* nothing interrupts a refresh of the master, no refresh token is spent   *)
(* twice and a spent one that could not be replaced is marked.             *)
(***************************************************************************)
EXTENDS TokenRefresh, TLAPS

(***************************************************************************)
(* Type correctness.                                                       *)
(***************************************************************************)
\* The master is a node.
LEMMA MasterType == Master \in Nodes
BY TokenConstants DEF Master

\* A refresh that waits for its result to be stored has a result: the answer of the server.
Answered == \A t \in Tasks : pc[t] \in {"minted", "bump"} => reply[t] # None

\* The type invariant with what it rests on.
Typed == TypeOK /\ Answered

LEMMA TypeInit == Init => Typed
BY TokenConstants DEF Init, Typed, TypeOK, Answered, PCs, Refreshing, Flows, Statuses, Usable,
   None, NoStatus

\* The parts of the state that a group of actions leaves alone.
LEMMA TypeRequestPath ==
    ASSUME Typed, NEW t \in Tasks,
           \/ StartRequest(t) \/ CacheGet(t) \/ LoadRow(t) \/ CacheInsert(t)
           \/ Answer(t) \/ Rejected(t) \/ StartSweep(t)
    PROVE  Typed'
<1> USE DEF Typed, TypeOK, Answered, PCs, Refreshing, Flows, AfterToken, taskVars, nodeVars,
            rowVars, cacheVars, pullVars, statusVars, faults
<1>1. CASE StartRequest(t)
  BY <1>1 DEF StartRequest
<1>2. CASE CacheGet(t)
  <2>0. gen[t] \in Nat /\ cached[home[t]] \in Nat \cup {None}
    BY DEF Typed
  <2>1. /\ cacheGen' \in [Nodes -> Nat] /\ cached' \in [Nodes -> Nat \cup {None}]
        /\ tok' \in [Tasks -> Nat \cup {None}]
    <3>1. cacheGen' \in [Nodes -> Nat]
      BY <1>2, <2>0 DEF CacheGet
    <3>2. cached' \in [Nodes -> Nat \cup {None}]
      BY <1>2, <2>0 DEF CacheGet
    <3>3. tok' \in [Tasks -> Nat \cup {None}]
      BY <1>2, <2>0 DEF CacheGet
    <3> QED
      BY <3>1, <3>2, <3>3
  <2>2. pc' = [pc EXCEPT ![t] = "want"] \/ pc' = [pc EXCEPT ![t] = "serving"]
          \/ pc' = [pc EXCEPT ![t] = "load"]
    BY <1>2 DEF CacheGet
  <2> QED
    BY <1>2, <2>1, <2>2 DEF CacheGet
<1>3. CASE LoadRow(t)
  <2>1. tok' \in [Tasks -> Nat \cup {None}] /\ pc' = [pc EXCEPT ![t] = "insert"]
    BY <1>3 DEF LoadRow
  <2> QED
    BY <1>3, <2>1 DEF LoadRow
<1>4. CASE CacheInsert(t)
  <2>1. gen[t] \in Nat /\ tok[t] \in Nat \cup {None}
    OBVIOUS
  <2>2. /\ \/ UNCHANGED <<cacheGen, cached>>
           \/ /\ cacheGen' = [cacheGen EXCEPT ![home[t]] = gen[t]]
              /\ cached' = [cached EXCEPT ![home[t]] = tok[t]]
        /\ pc' = [pc EXCEPT ![t] = "want"] \/ pc' = [pc EXCEPT ![t] = "serving"]
    BY <1>4 DEF CacheInsert
  <2>3. cacheGen' \in [Nodes -> Nat] /\ cached' \in [Nodes -> Nat \cup {None}]
    BY <2>1, <2>2
  <2> QED
    BY <1>4, <2>2, <2>3 DEF CacheInsert
<1>5. CASE Answer(t)
  BY <1>5 DEF Answer
<1>6. CASE Rejected(t)
  BY <1>6 DEF Rejected
<1>7. CASE StartSweep(t)
  BY <1>7 DEF StartSweep
<1> QED
  BY <1>1, <1>2, <1>3, <1>4, <1>5, <1>6, <1>7

LEMMA TypeRefresh ==
    ASSUME Typed, NEW t \in Tasks, Refresh(t) PROVE Typed'
<1> USE DEF Typed, TypeOK, Answered, PCs, Refreshing, Flows, taskVars, nodeVars, rowVars,
    cacheVars, pullVars, statusVars, faults,
            Finish, Release
<1>1. CASE TakeLock(t)
  BY <1>1 DEF TakeLock
<1>2. CASE ReadUnderLock(t)
  <2>0. db[home[t]] \in Nat
    BY DEF Typed
  <2>1. /\ tok' \in [Tasks -> Nat \cup {None}] /\ presented' \in [Tasks -> Nat \cup {None}]
        /\ reply' \in [Tasks -> Nat \cup {None}] /\ tries' \in [Tasks -> Nat]
        /\ lock' \in [Nodes -> SUBSET Tasks]
    <3>1. tok' \in [Tasks -> Nat \cup {None}]
      BY <1>2, <2>0 DEF ReadUnderLock
    <3>2. presented' \in [Tasks -> Nat \cup {None}]
      <4>1. presented' = presented \/ presented' = [presented EXCEPT ![t] = db[home[t]]]
        BY <1>2 DEF ReadUnderLock
      <4> QED
        BY <2>0, <4>1
    <3>3. reply' \in [Tasks -> Nat \cup {None}] /\ tries' \in [Tasks -> Nat]
      <4>1. /\ reply' = reply \/ reply' = [reply EXCEPT ![t] = None]
            /\ tries' = tries \/ tries' = [tries EXCEPT ![t] = 0]
        BY <1>2 DEF ReadUnderLock
      <4> QED
        BY <4>1
    <3>4. lock' \in [Nodes -> SUBSET Tasks]
      BY <1>2 DEF ReadUnderLock
    <3> QED
      BY <3>1, <3>2, <3>3, <3>4
  <2>2. /\ pc' = [pc EXCEPT ![t] = "idle"] \/ pc' = [pc EXCEPT ![t] = "serving"]
             \/ pc' = [pc EXCEPT ![t] = "exchange"]
        /\ reply' = reply \/ reply' = [reply EXCEPT ![t] = None]
    BY <1>2 DEF ReadUnderLock, Resume
  <2>3. Answered'
    BY <2>2 DEF Typed
  <2>4. TypeOK'
    BY <1>2, <2>1, <2>2 DEF ReadUnderLock
  <2> QED
    BY <2>3, <2>4
<1>3. CASE ServerAnswers(t)
  <2>1. /\ grant' \in Nat
        /\ \/ reply' = [reply EXCEPT ![t] = grant + 1] /\ pc' = [pc EXCEPT ![t] = "minted"]
           \/ reply' = [reply EXCEPT ![t] = None] /\ pc' = [pc EXCEPT ![t] = "reused"]
    <3>1. CASE presented[t] = grant
      BY <1>3, <3>1 DEF ServerAnswers
    <3>2. CASE presented[t] # grant
      BY <1>3, <3>2 DEF ServerAnswers
    <3> QED
      BY <3>1, <3>2
  <2>2. grant + 1 \in Nat /\ grant + 1 # None
    BY DEF None
  <2>3. Answered'
    BY <2>1, <2>2
  <2>4. TypeOK'
    BY <1>3, <2>1, <2>2 DEF ServerAnswers
  <2> QED
    BY <2>3, <2>4
<1>4. CASE TransportError(t)
  BY <1>4 DEF TransportError, Answering
<1>10. CASE Unreadable(t)
  BY <1>10 DEF Unreadable, Answering
<1>5. CASE Commit(t)
  BY <1>5 DEF Commit
<1>6. CASE CommitFails(t)
  BY <1>6 DEF CommitFails
<1>7. CASE Bump(t)
  BY <1>7 DEF Bump, Resume
<1>8. CASE Mark(t)
  BY <1>8 DEF Mark, Statuses
<1>9. CASE MarkFails(t)
  BY <1>9 DEF MarkFails
<1> QED
  BY <1>1, <1>2, <1>3, <1>4, <1>5, <1>6, <1>7, <1>8, <1>9, <1>10 DEF Refresh

LEMMA TypeNode ==
    ASSUME Typed, NEW n \in Nodes,
           \/ ReadForPoll(n) \/ PollUsage(n) \/ CacheExpire(n) \/ Crash(n)
           \/ Pull(n)
    PROVE  Typed'
<1> USE DEF Typed, TypeOK, Answered, PCs, taskVars, nodeVars, rowVars, cacheVars, pullVars,
    statusVars, faults
<1>1. CASE ReadForPoll(n)
  BY <1>1 DEF ReadForPoll
<1>2. CASE PollUsage(n)
  BY <1>2 DEF PollUsage, Statuses
<1>3. CASE CacheExpire(n)
  BY <1>3 DEF CacheExpire
<1>4. CASE Crash(n)
  BY <1>4 DEF Crash
<1>5. CASE PullFetch(n)
  BY <1>5, MasterType DEF PullFetch, None
<1>6. CASE PullCompare(n)
  BY <1>6 DEF PullCompare
<1>7. CASE PullWrite(n)
  BY <1>7 DEF PullWrite, None
<1> QED
  BY <1>1, <1>2, <1>3, <1>4, <1>5, <1>6, <1>7 DEF Pull

LEMMA TypeNext == Typed /\ [Next]_vars => Typed'
<1> SUFFICES ASSUME Typed, [Next]_vars PROVE Typed'
  OBVIOUS
<1>1. ASSUME NEW t \in Tasks, Step(t) PROVE Typed'
  <2>1. CASE Cancel(t)
    BY <2>1 DEF Cancel, Typed, TypeOK, Answered, PCs, nodeVars, rowVars, cacheVars, pullVars,
        statusVars
  <2> QED
    BY <1>1, <2>1, TypeRequestPath, TypeRefresh DEF Step
<1>2. ASSUME NEW g \in Pairs, Expire(g) PROVE Typed'
  BY <1>2, TokenConstants
     DEF Expire, Pairs, Typed, TypeOK, Answered, taskVars, nodeVars, rowVars, cacheVars, pullVars,
         statusVars, faults
<1>3. CASE UNCHANGED vars
  BY <1>3 DEF vars, Typed, TypeOK, Answered, taskVars, nodeVars, rowVars, cacheVars, pullVars,
      statusVars, faults
<1> QED
  BY <1>1, <1>2, <1>3, TypeNode DEF Next

\* In every reachable state each variable has its type: in particular the stored pair is a pair,
\* never an answer that did not come.
THEOREM TypeCorrect == Spec => []TypeOK
<1>1. Typed => TypeOK
  BY DEF Typed
<1> QED
  BY TypeInit, TypeNext, <1>1, PTL DEF Spec

(***************************************************************************)
(* Single flight.                                                          *)
(***************************************************************************)
LEMMA SingleFlightInit == Init => SingleFlight
BY DEF Init, SingleFlight, Refreshing

\* The end of a refresh frees its own lock, which nobody else can be under.
LEMMA FinishKeeps ==
    ASSUME Typed, SingleFlight, NEW t \in Tasks, pc[t] \in Refreshing,
           NEW w, w \notin Refreshing, Finish(t, w), home' = home
    PROVE  SingleFlight'
<1> SUFFICES ASSUME NEW u \in Tasks, pc'[u] \in Refreshing
             PROVE  lock'[home[u]] = {u}
  BY DEF SingleFlight
<1>1. u # t /\ pc[u] \in Refreshing
  BY DEF Finish, Typed, TypeOK
<1>2. lock[home[u]] = {u} /\ lock[home[t]] = {t}
  BY <1>1 DEF SingleFlight
<1>3. home[u] # home[t]
  BY <1>1, <1>2
<1> QED
  BY <1>2, <1>3 DEF Finish, Release, Typed, TypeOK

\* The lock of a node is changed by its holder, by TakeLock when it is free, by Cancel for the
\* cancelled task only, and by Crash, which ends every task of the node.
LEMMA SingleFlightStep ==
    ASSUME Typed, SingleFlight, NEW t \in Tasks, Step(t) PROVE SingleFlight'
<1> USE DEF SingleFlight, Refreshing, Typed, TypeOK
<1>1. CASE \/ StartRequest(t) \/ CacheGet(t) \/ LoadRow(t) \/ CacheInsert(t)
           \/ Answer(t) \/ Rejected(t) \/ StartSweep(t)
  BY <1>1 DEF StartRequest, CacheGet, LoadRow, CacheInsert, Answer, Rejected, StartSweep,
     AfterToken
<1>2. CASE TakeLock(t)
  BY <1>2 DEF TakeLock
<1>3. CASE \/ TransportError(t) \/ Bump(t) \/ Mark(t) \/ MarkFails(t)
  BY <1>3, FinishKeeps DEF TransportError, Unreadable, Answering, Bump, Mark, MarkFails, Resume
<1>4. CASE ReadUnderLock(t)
  <2>1. CASE \E w \in {"idle", "serving"} : Finish(t, w)
    BY <1>4, <2>1, FinishKeeps DEF ReadUnderLock
  <2>2. CASE pc' = [pc EXCEPT ![t] = "exchange"] /\ lock' = lock
    BY <1>4, <2>2 DEF ReadUnderLock
  <2> QED
    BY <1>4, <2>1, <2>2 DEF ReadUnderLock, Resume
<1>5. CASE ServerAnswers(t) \/ Unreadable(t) \/ Commit(t) \/ CommitFails(t)
  BY <1>5 DEF ServerAnswers, Unreadable, Answering, Commit, CommitFails
<1>6. CASE Cancel(t)
  BY <1>6 DEF Cancel
<1> QED
  BY <1>1, <1>2, <1>3, <1>4, <1>5, <1>6 DEF Step, Refresh

LEMMA SingleFlightNext == Typed /\ SingleFlight /\ [Next]_vars => SingleFlight'
<1> SUFFICES ASSUME Typed, SingleFlight, [Next]_vars PROVE SingleFlight'
  OBVIOUS
<1>1. ASSUME NEW n \in Nodes, Crash(n) PROVE SingleFlight'
  BY <1>1 DEF Crash, SingleFlight, Refreshing, Typed, TypeOK
<1>2. ASSUME NEW n \in Nodes,
             \/ ReadForPoll(n) \/ PollUsage(n) \/ CacheExpire(n)
             \/ Pull(n)
      PROVE  SingleFlight'
  BY <1>2 DEF ReadForPoll, PollUsage, CacheExpire, Pull, PullFetch, PullCompare, PullWrite,
      SingleFlight, taskVars
<1>3. ASSUME NEW g \in Pairs, Expire(g) PROVE SingleFlight'
  BY <1>3 DEF Expire, SingleFlight, taskVars
<1>4. CASE UNCHANGED vars
  BY <1>4 DEF vars, SingleFlight, taskVars
<1> QED
  BY <1>1, <1>2, <1>3, <1>4, SingleFlightStep DEF Next

\* No two refreshes of a process overlap: whoever is between the lock and its release holds the
\* lock alone, whatever is cancelled or crashes.
THEOREM RefreshesExclusive == Spec => []SingleFlight
<1>1. Init => Typed /\ SingleFlight
  BY TypeInit, SingleFlightInit
<1>2. (Typed /\ SingleFlight) /\ [Next]_vars => (Typed /\ SingleFlight)'
  BY TypeNext, SingleFlightNext
<1> QED
  BY <1>1, <1>2, PTL DEF Spec

(***************************************************************************)
(* No false mark.  What a refresh of the master presents is the stored     *)
(* pair, its own under the lock; a pair that comes back rejected, or whose *)
(* replacement could not be stored, is therefore one that works no more.   *)
(***************************************************************************)
Underway == {"exchange", "minted", "reused", "mark"}

\* Nothing is newer than the newest pair, and the master installs nothing from elsewhere.
Bounded ==
    /\ \A n \in Nodes : db[n] <= grant /\ pulled[n] <= grant
    /\ \A t \in Tasks : reply[t] <= grant /\ presented[t] <= grant
    /\ pulled[Master] = None

\* The refreshes of the master between the lock and its release.
ExchangedAt(t) ==
    /\ pc[t] \in Underway => presented[t] = db[Master]
    /\ pc[t] \in {"minted", "reused", "mark"} => presented[t] # grant
    /\ pc[t] \in {"exchange", "minted", "bump"} => status[Master] # "reauth_required"
Exchanged == \A t \in Tasks : home[t] = Master => ExchangedAt(t)

MarkInv == Typed /\ SingleFlight /\ Bounded /\ Exchanged /\ NoFalseReauth

LEMMA MarkInit == Init => Bounded /\ Exchanged /\ NoFalseReauth
BY MasterType DEF Init, Bounded, Exchanged, ExchangedAt, Underway, NoFalseReauth, None

\* A step that leaves the server, the rows, the master's status and the refreshes alone.
LEMMA MarkStutter ==
    ASSUME MarkInv, UNCHANGED <<grant, db, pulled, status, blind, home, presented, reply>>,
           \A t \in Tasks : pc'[t] = pc[t] \/ pc'[t] \notin Underway \cup {"bump"}
    PROVE  Bounded' /\ Exchanged' /\ NoFalseReauth'
<1>1. Master' = Master
  BY DEF Master
<1> QED
  BY <1>1 DEF MarkInv, Bounded, Exchanged, ExchangedAt, Underway, NoFalseReauth

\* While t refreshes the master's account nobody else does.
LEMMA OthersIdle ==
    ASSUME MarkInv, NEW t \in Tasks, pc[t] \in Refreshing, home[t] = Master,
           NEW u \in Tasks, u # t, home[u] = Master
    PROVE  pc[u] \notin Underway \cup {"bump"}
BY DEF MarkInv, SingleFlight, Refreshing, Underway

LEMMA MarkRead ==
    ASSUME MarkInv, NEW t \in Tasks, ReadUnderLock(t)
    PROVE  Bounded' /\ Exchanged' /\ NoFalseReauth'
<1> USE DEF MarkInv, Typed, TypeOK
<1>1. /\ UNCHANGED <<grant, stale, db, pulled, status, blind, home>>
      /\ pc[t] = "locked"
  BY DEF ReadUnderLock, nodeVars, rowVars, cacheVars, pullVars, statusVars
<1>2. CASE \E w \in {"idle", "serving"} : Finish(t, w) /\ UNCHANGED <<presented, reply>>
  BY <1>1, <1>2, MarkStutter DEF Finish, Underway
<1>3. CASE /\ presented' = [presented EXCEPT ![t] = db[home[t]]]
           /\ reply' = [reply EXCEPT ![t] = None]
           /\ pc' = [pc EXCEPT ![t] = "exchange"]
           /\ Allowed(t)
  <2>1. status[home[t]] # "reauth_required"
    BY <1>3 DEF Allowed, Usable
  <2>2. Bounded'
    BY <1>1, <1>3 DEF Bounded, None
  <2>3. Exchanged'
    BY <1>1, <1>3, <2>1 DEF Exchanged, ExchangedAt, Underway
  <2> QED
    BY <1>1, <2>2, <2>3 DEF NoFalseReauth
<1> QED
  BY <1>2, <1>3 DEF ReadUnderLock, Resume

LEMMA MarkServer ==
    ASSUME MarkInv, NEW t \in Tasks, ServerAnswers(t)
    PROVE  Bounded' /\ Exchanged' /\ NoFalseReauth'
<1> USE DEF MarkInv, Typed, TypeOK
<1>0. UNCHANGED <<db, pulled, status, blind, home, presented>>
  BY DEF ServerAnswers, nodeVars, rowVars, pullVars, statusVars
<1>1. /\ UNCHANGED <<db, pulled, status, blind, home, presented>>
      /\ pc[t] = "exchange"
      /\ grant' \in Nat /\ grant <= grant' /\ grant' <= grant + 1
      /\ grant' # grant => presented[t] = grant
  BY <1>0 DEF ServerAnswers
<1>2. Bounded'
  <2>1. reply'[t] <= grant' /\ \A u \in Tasks \ {t} : reply'[u] = reply[u]
    BY <1>1 DEF ServerAnswers, None
  <2>2. \A u \in Tasks : reply[u] \in Int /\ presented[u] \in Int
    BY DEF None
  <2>3. \A n \in Nodes : db[n] \in Int /\ pulled[n] \in Int
    BY DEF None
  <2> QED
    BY <1>1, <2>1, <2>2, <2>3, MasterType DEF Bounded
<1>3. NoFalseReauth'
  BY <1>1, MasterType DEF NoFalseReauth, Bounded
<1>4. ASSUME NEW u \in Tasks, home[u] = Master PROVE ExchangedAt(u)'
  <2>1. ExchangedAt(u) /\ presented[u] <= grant
    BY <1>4 DEF Exchanged, Bounded
  <2>2. CASE u = t
    BY <1>1, <2>1, <2>2 DEF ServerAnswers, ExchangedAt, Underway, Bounded
  <2>3. CASE u # t
    BY <1>1, <2>1, <2>3, MasterType DEF ServerAnswers, ExchangedAt, Underway
  <2> QED
    BY <2>2, <2>3
<1> QED
  BY <1>1, <1>2, <1>3, <1>4 DEF Exchanged

LEMMA MarkCommit ==
    ASSUME MarkInv, NEW t \in Tasks, Commit(t)
    PROVE  Bounded' /\ Exchanged' /\ NoFalseReauth'
<1> USE DEF MarkInv, Typed, TypeOK
<1>1. /\ UNCHANGED <<grant, pulled, status, blind, home, presented, reply>>
      /\ pc[t] = "minted" /\ pc' = [pc EXCEPT ![t] = "bump"]
      /\ db' = [db EXCEPT ![home[t]] = reply[t]]
  BY DEF Commit, statusVars, pullVars
<1>2. Bounded'
  BY <1>1 DEF Bounded
<1>3. CASE home[t] = Master
  <2>1. status[Master] # "reauth_required"
    BY <1>1, <1>3 DEF Exchanged, ExchangedAt
  <2>2. Exchanged'
    BY <1>1, <1>3, <2>1, OthersIdle DEF Exchanged, ExchangedAt, Underway, Refreshing
  <2> QED
    BY <1>1, <1>2, <2>1, <2>2 DEF NoFalseReauth
<1>4. CASE home[t] # Master
  BY <1>1, <1>2, <1>4, MasterType DEF Exchanged, ExchangedAt, NoFalseReauth
<1> QED
  BY <1>3, <1>4

LEMMA MarkMark ==
    ASSUME MarkInv, NEW t \in Tasks, Mark(t)
    PROVE  Bounded' /\ Exchanged' /\ NoFalseReauth'
<1> USE DEF MarkInv, Typed, TypeOK
<1>1. /\ UNCHANGED <<grant, db, pulled, home, presented, reply>>
      /\ pc[t] \in {"mark", "reused", "unreadable"} /\ pc' = [pc EXCEPT ![t] = "idle"]
      /\ status' = [status EXCEPT ![home[t]] = "reauth_required"]
      /\ blind' = [blind EXCEPT ![home[t]] = pc[t] = "unreadable"]
  BY DEF Mark, Finish, rowVars, cacheVars, pullVars, statusVars
<1>2. Bounded'
  BY <1>1 DEF Bounded
<1>3. CASE home[t] = Master
  <2>1. db[Master] # grant \/ blind'[Master]
    BY <1>1, <1>3 DEF Exchanged, ExchangedAt, Underway
  <2>2. Exchanged'
    BY <1>1, <1>3, OthersIdle DEF Exchanged, ExchangedAt, Underway, Refreshing
  <2> QED
    BY <1>1, <1>2, <2>1, <2>2 DEF NoFalseReauth
<1>4. CASE home[t] # Master
  BY <1>1, <1>2, <1>4, MasterType DEF Exchanged, ExchangedAt, Underway, NoFalseReauth
<1> QED
  BY <1>3, <1>4

LEMMA MarkStep ==
    ASSUME MarkInv, NEW t \in Tasks, Step(t)
    PROVE  Bounded' /\ Exchanged' /\ NoFalseReauth'
<1> USE DEF nodeVars, rowVars, cacheVars, pullVars, statusVars, taskVars
<1>1. CASE \/ StartRequest(t) \/ CacheGet(t) \/ LoadRow(t) \/ CacheInsert(t)
           \/ Answer(t) \/ Rejected(t) \/ StartSweep(t) \/ TakeLock(t)
           \/ TransportError(t) \/ Unreadable(t) \/ MarkFails(t) \/ Cancel(t)
  <2>1. /\ UNCHANGED <<grant, db, pulled, status, blind, home, presented, reply>>
        /\ \E w : pc' = [pc EXCEPT ![t] = w] /\ w \notin Underway \cup {"bump"}
    BY <1>1 DEF StartRequest, CacheGet, LoadRow, CacheInsert, Answer, Rejected, StartSweep,
       TakeLock, TransportError, Unreadable, Answering, MarkFails, Cancel, Finish, AfterToken,
       Underway
  <2> QED
    BY <2>1, MarkStutter DEF MarkInv, Typed, TypeOK
<1>2. CASE CommitFails(t)
  BY <1>2, MasterType DEF CommitFails, MarkInv, Typed, TypeOK, Bounded, Exchanged, ExchangedAt,
     Underway, NoFalseReauth
<1>3. CASE Bump(t)
  BY <1>3, MarkStutter DEF Bump, Finish, Resume, Underway, MarkInv, Typed, TypeOK
<1> QED
  BY <1>1, <1>2, <1>3, MarkRead, MarkServer, MarkCommit, MarkMark DEF Step, Refresh

LEMMA MarkNext == MarkInv /\ [Next]_vars => (Bounded /\ Exchanged /\ NoFalseReauth)'
<1> SUFFICES ASSUME MarkInv, [Next]_vars PROVE (Bounded /\ Exchanged /\ NoFalseReauth)'
  OBVIOUS
<1> USE DEF nodeVars, rowVars, cacheVars, pullVars, statusVars, taskVars
<1>1. ASSUME NEW n \in Nodes, ReadForPoll(n) \/ CacheExpire(n)
      PROVE  (Bounded /\ Exchanged /\ NoFalseReauth)'
  BY <1>1, MarkStutter DEF ReadForPoll, CacheExpire
<1>2. ASSUME NEW n \in Nodes, PollUsage(n)
      PROVE  (Bounded /\ Exchanged /\ NoFalseReauth)'
  <2>1. /\ UNCHANGED <<grant, db, pulled, blind, pc, home, presented, reply>>
        /\ \A k \in Nodes : status'[k] = "reauth_required" => status[k] = "reauth_required"
    BY <1>2 DEF PollUsage, Usable, MarkInv, Typed, TypeOK
  <2> QED
    BY <2>1, MasterType DEF MarkInv, Bounded, Exchanged, ExchangedAt, NoFalseReauth
<1>3. ASSUME NEW n \in Nodes, Crash(n)
      PROVE  (Bounded /\ Exchanged /\ NoFalseReauth)'
  <2>1. /\ UNCHANGED <<grant, db, status, blind, pulled, home, presented, reply>>
        /\ \A t \in Tasks : pc'[t] = pc[t] \/ pc'[t] = "idle"
    BY <1>3 DEF Crash
  <2>2. Bounded'
    BY <2>1, MasterType DEF MarkInv, Typed, TypeOK, Bounded, None
  <2> QED
    BY <2>1, <2>2 DEF MarkInv, Exchanged, ExchangedAt, Underway, NoFalseReauth
<1>4. ASSUME NEW n \in Nodes, PullFetch(n)
      PROVE  (Bounded /\ Exchanged /\ NoFalseReauth)'
  <2>1. n # Master
    BY <1>4, TokenConstants DEF PullFetch, Master
  <2> QED
    BY <1>4, <2>1, MasterType
       DEF PullFetch, MarkInv, Typed, TypeOK, Bounded, Exchanged, ExchangedAt, NoFalseReauth
<1>5. ASSUME NEW n \in Nodes, PullCompare(n) \/ PullWrite(n)
      PROVE  (Bounded /\ Exchanged /\ NoFalseReauth)'
  <2>1. n # Master
    BY <1>5 DEF PullCompare, PullWrite, MarkInv, Typed, TypeOK, Bounded
  <2>2. /\ UNCHANGED <<grant, status, blind, pc, home, presented, reply>>
        /\ db' = db \/ db' = [db EXCEPT ![n] = pulled[n]]
        /\ pulled' = pulled \/ pulled' = [pulled EXCEPT ![n] = None]
    BY <1>5 DEF PullCompare, PullWrite
  <2>3. Bounded'
    BY <2>1, <2>2, MasterType DEF MarkInv, Typed, TypeOK, Bounded, None
  <2> QED
    BY <2>1, <2>2, <2>3, MasterType
       DEF MarkInv, Typed, TypeOK, Exchanged, ExchangedAt, NoFalseReauth
<1>6. ASSUME NEW g \in Pairs, Expire(g)
      PROVE  (Bounded /\ Exchanged /\ NoFalseReauth)'
  BY <1>6, MarkStutter DEF Expire
<1>7. CASE UNCHANGED vars
  BY <1>7, MarkStutter DEF vars
<1> QED
  BY <1>1, <1>2, <1>3, <1>4, <1>5, <1>6, <1>7, MarkStep DEF Next, Pull

\* The master's account is marked reauth_required while its stored pair still works only on an
\* unreadable answer, for any number of tasks, replicas, cancellations, crashes, lost answers and
\* failing writes.
THEOREM NeverFalselyMarked == Spec => []NoFalseReauth
<1>1. Init => MarkInv
  BY TypeInit, SingleFlightInit, MarkInit DEF MarkInv
<1>2. MarkInv /\ [Next]_vars => MarkInv'
  BY TypeNext, SingleFlightNext, MarkNext DEF MarkInv
<1>3. MarkInv => NoFalseReauth
  BY DEF MarkInv
<1> QED
  BY <1>1, <1>2, <1>3, PTL DEF Spec

(***************************************************************************)
(* The cache.                                                              *)
(***************************************************************************)
\* The cache of node n has not been told of the row: a commit waits for its bump, or the last
\* write is one that no bump of this process follows.
AtBump(n) == \E t \in Tasks : home[t] = n /\ pc[t] = "bump"
Excused(n) == unannounced[n] \/ AtBump(n)

\* Nobody is ahead of the generation of the store.
GenerationsBounded ==
    /\ \A n \in Nodes : cacheGen[n] <= storeGen[n]
    /\ \A t \in Tasks : pc[t] \in {"lookup", "load", "insert"} => gen[t] <= storeGen[home[t]]

\* A row read and not cached yet is the stored one, or was replaced under a later generation.
InsertHoldsStored ==
    \A t \in Tasks : pc[t] = "insert" /\ gen[t] = storeGen[home[t]] /\ tok[t] # db[home[t]]
                        => Excused(home[t])

CacheInv == GenerationsBounded /\ InsertHoldsStored /\ CacheHoldsStored

LEMMA CacheMeans ==
    CacheHoldsStored <=>
        \A n \in Nodes :
            cached[n] # None /\ cacheGen[n] = storeGen[n] /\ cached[n] # db[n]
                => Excused(n)
BY DEF CacheHoldsStored, Excused, AtBump

LEMMA CacheMeansNext ==
    CacheHoldsStored' <=>
        \A n \in Nodes :
            cached'[n] # None /\ cacheGen'[n] = storeGen'[n] /\ cached'[n] # db'[n] => Excused(n)'
BY DEF CacheHoldsStored, Excused, AtBump

LEMMA CacheInit == Init => CacheInv
BY DEF Init, CacheInv, GenerationsBounded, InsertHoldsStored, CacheHoldsStored

\* A step that leaves rows, generations and caches alone, starts no read and ends no commit.
LEMMA CacheStutter ==
    ASSUME Typed, CacheInv, UNCHANGED <<db, storeGen, cacheGen, cached, home, gen>>,
           \A n \in Nodes : unannounced[n] => unannounced'[n],
           \A t \in Tasks : /\ pc'[t] \in {"lookup", "load", "insert"} =>
                                  pc'[t] = pc[t] /\ tok'[t] = tok[t]
                            /\ pc[t] = "bump" => pc'[t] = "bump" \/ unannounced'[home[t]]
    PROVE  CacheInv'
<1>2. \A n \in Nodes : Excused(n) => Excused(n)'
  BY DEF Excused, Excused, AtBump
<1>3. GenerationsBounded'
  BY DEF CacheInv, GenerationsBounded
<1>4. InsertHoldsStored'
  BY <1>2 DEF CacheInv, InsertHoldsStored, Typed, TypeOK
<1>5. CacheHoldsStored'
  BY <1>2, CacheMeans, CacheMeansNext, Zenon DEF CacheInv
<1> QED
  BY <1>3, <1>4, <1>5 DEF CacheInv

LEMMA CacheRequestPath ==
    ASSUME Typed, CacheInv, NEW t \in Tasks,
           \/ StartRequest(t) \/ CacheGet(t) \/ LoadRow(t) \/ CacheInsert(t)
    PROVE  CacheInv'
<1> USE DEF Typed, TypeOK
<1> DEFINE n == home[t]
<1>1. UNCHANGED <<db, storeGen, home, unannounced>>
  BY DEF StartRequest, CacheGet, LoadRow, CacheInsert, nodeVars, rowVars, cacheVars, pullVars,
      statusVars, faults
<1>2. /\ pc[t] # "bump" /\ \A u \in Tasks \ {t} : pc'[u] = pc[u] /\ gen'[u] = gen[u] /\ tok'[u] = tok[u]
  BY DEF StartRequest, CacheGet, LoadRow, CacheInsert
<1>3. \A k \in Nodes : Excused(k) => Excused(k)'
  BY <1>1, <1>2 DEF Excused, Excused, AtBump
<1>4. gen[t] \in Nat /\ n \in Nodes /\ storeGen[n] \in Nat /\ cacheGen[n] \in Nat
  OBVIOUS
<1>5. CASE StartRequest(t)
  <2>1. /\ UNCHANGED <<cacheGen, cached>> /\ pc'[t] = "lookup" /\ gen'[t] = storeGen[n]
    BY <1>5 DEF StartRequest, nodeVars, rowVars, cacheVars, pullVars, statusVars
  <2>2. GenerationsBounded'
    BY <1>1, <1>2, <1>4, <2>1 DEF CacheInv, GenerationsBounded
  <2>3. InsertHoldsStored'
    BY <1>1, <1>2, <1>3, <2>1 DEF CacheInv, InsertHoldsStored
  <2>4. CacheHoldsStored'
    BY <1>1, <1>3, <2>1 DEF CacheInv, CacheHoldsStored, Excused, AtBump
  <2> QED
    BY <2>2, <2>3, <2>4 DEF CacheInv
<1>6. CASE CacheGet(t)
  <2>1. /\ pc[t] = "lookup" /\ pc'[t] # "insert" /\ gen' = gen
        /\ \/ /\ gen[t] > cacheGen[n]
              /\ cacheGen' = [cacheGen EXCEPT ![n] = gen[t]] /\ cached' = [cached EXCEPT ![n] = None]
           \/ UNCHANGED <<cacheGen, cached>>
    BY <1>6 DEF CacheGet, AfterToken
  <2>2. GenerationsBounded'
    BY <1>1, <1>2, <1>4, <2>1 DEF CacheInv, GenerationsBounded
  <2>3. InsertHoldsStored'
    BY <1>1, <1>2, <1>3, <2>1 DEF CacheInv, InsertHoldsStored
  <2>4. CacheHoldsStored'
    BY <1>1, <1>3, <1>4, <2>1 DEF CacheInv, CacheHoldsStored, Excused, AtBump
  <2> QED
    BY <2>2, <2>3, <2>4 DEF CacheInv
<1>7. CASE LoadRow(t)
  <2>1. /\ UNCHANGED <<cacheGen, cached, gen>> /\ pc[t] = "load" /\ tok'[t] = db[n]
    BY <1>7 DEF LoadRow, nodeVars, rowVars, cacheVars, pullVars, statusVars
  <2> QED
    BY <1>1, <1>2, <1>3, <1>4, <2>1
       DEF CacheInv, GenerationsBounded, InsertHoldsStored, CacheHoldsStored, Excused, AtBump
<1>8. CASE CacheInsert(t)
  <2>1. /\ pc[t] = "insert" /\ pc'[t] \in {"want", "serving"} /\ gen' = gen /\ tok' = tok
        /\ \/ /\ cacheGen' = [cacheGen EXCEPT ![n] = gen[t]]
              /\ cached' = [cached EXCEPT ![n] = tok[t]]
           \/ UNCHANGED <<cacheGen, cached>>
    BY <1>8 DEF CacheInsert, AfterToken
  <2>2. GenerationsBounded'
    BY <1>1, <1>2, <1>4, <2>1 DEF CacheInv, GenerationsBounded
  <2>3. InsertHoldsStored'
    BY <1>1, <1>2, <1>3, <2>1 DEF CacheInv, InsertHoldsStored
  <2>4. CacheHoldsStored'
    <3> SUFFICES ASSUME NEW k \in Nodes, cached'[k] # None,
                        cacheGen'[k] = storeGen[k], cached'[k] # db[k]
                 PROVE  Excused(k)'
      BY <1>1 DEF CacheHoldsStored, Excused, AtBump
    <3>1. CASE cacheGen'[k] = cacheGen[k] /\ cached'[k] = cached[k]
      BY <1>3, <3>1, CacheMeans DEF CacheInv
    <3>2. CASE k = n /\ cacheGen'[k] = gen[t] /\ cached'[k] = tok[t]
      BY <1>3, <2>1, <3>2 DEF CacheInv, InsertHoldsStored
    <3> QED
      BY <2>1, <3>1, <3>2
  <2> QED
    BY <2>2, <2>3, <2>4 DEF CacheInv
<1> QED
  BY <1>5, <1>6, <1>7, <1>8

\* A commit is announced, a bump leaves every older reading behind.
LEMMA CacheCommit ==
    ASSUME Typed, CacheInv, NEW t \in Tasks, Commit(t) \/ Bump(t) PROVE CacheInv'
<1> USE DEF Typed, TypeOK
<1> DEFINE n == home[t]
<1>1. UNCHANGED <<cacheGen, cached, home, gen>> /\ n \in Nodes
  BY DEF Commit, Bump, cacheVars
<1>2. CASE Commit(t)
  <2>1. /\ UNCHANGED <<storeGen, tok, unannounced>> /\ pc[t] = "minted" /\ pc' = [pc EXCEPT ![t] = "bump"]
        /\ db' = [db EXCEPT ![n] = reply[t]]
    BY <1>2 DEF Commit, cacheVars
  <2>2. \A k \in Nodes : k = n \/ Excused(k) => Excused(k)'
    BY <1>1, <2>1 DEF Excused, Excused, AtBump
  <2>3. GenerationsBounded'
    BY <1>1, <2>1 DEF CacheInv, GenerationsBounded
  <2>4. InsertHoldsStored'
    BY <1>1, <2>1, <2>2 DEF CacheInv, InsertHoldsStored
  <2>5. CacheHoldsStored'
    <3> SUFFICES ASSUME NEW k \in Nodes, cached[k] # None,
                        cacheGen[k] = storeGen[k], cached[k] # db'[k]
                 PROVE  Excused(k)'
      BY <1>1, <2>1 DEF CacheHoldsStored, Excused, AtBump
    <3>1. CASE k = n
      BY <2>2, <3>1
    <3>2. CASE k # n
      BY <2>1, <2>2, <3>2, CacheMeans DEF CacheInv
    <3> QED
      BY <3>1, <3>2
  <2> QED
    BY <2>3, <2>4, <2>5 DEF CacheInv
<1>3. CASE Bump(t)
  <2>1. /\ db' = db /\ storeGen' = [storeGen EXCEPT ![n] = @ + 1]
        /\ unannounced' = [unannounced EXCEPT ![n] = FALSE]
        /\ pc'[t] \in {"idle", "serving"}
        /\ \A u \in Tasks \ {t} : pc'[u] = pc[u] /\ tok'[u] = tok[u]
    BY <1>3 DEF Bump, Finish, Resume
  <2>2. \A k \in Nodes : k # n /\ Excused(k) => Excused(k)'
    BY <1>1, <2>1 DEF Excused, Excused, AtBump
  <2>3. /\ \A k \in Nodes : storeGen'[k] = IF k = n THEN storeGen[k] + 1 ELSE storeGen[k]
        /\ \A k \in Nodes : cacheGen[k] \in Nat /\ storeGen[k] \in Nat
        /\ \A u \in Tasks : gen[u] \in Nat /\ home[u] \in Nodes
    BY <2>1
  <2>4. GenerationsBounded'
    BY <1>1, <2>1, <2>3 DEF CacheInv, GenerationsBounded
  <2>5. InsertHoldsStored'
    <3> SUFFICES ASSUME NEW u \in Tasks, pc'[u] = "insert",
                        gen[u] = storeGen'[home[u]], tok'[u] # db[home[u]]
                 PROVE  Excused(home[u])'
      BY <1>1, <2>1 DEF InsertHoldsStored
    <3>1. u # t /\ pc[u] = "insert" /\ tok'[u] = tok[u]
      BY <2>1
    <3>2. home[u] # n
      BY <2>3, <3>1 DEF CacheInv, GenerationsBounded
    <3> QED
      BY <1>1, <2>2, <2>3, <3>1, <3>2 DEF CacheInv, InsertHoldsStored
  <2>6. CacheHoldsStored'
    <3> SUFFICES ASSUME NEW k \in Nodes, cached[k] # None,
                        cacheGen[k] = storeGen'[k], cached[k] # db[k]
                 PROVE  Excused(k)'
      BY <1>1, <2>1 DEF CacheHoldsStored, Excused, AtBump
    <3>1. k # n
      BY <2>3 DEF CacheInv, GenerationsBounded
    <3> QED
      BY <2>2, <2>3, <3>1, CacheMeans DEF CacheInv
  <2> QED
    BY <2>4, <2>5, <2>6 DEF CacheInv
<1> QED
  BY <1>2, <1>3

LEMMA CacheStep ==
    ASSUME Typed, CacheInv, NEW t \in Tasks, Step(t) PROVE CacheInv'
<1>1. CASE \/ Answer(t) \/ Rejected(t) \/ StartSweep(t) \/ TakeLock(t) \/ ReadUnderLock(t)
           \/ ServerAnswers(t) \/ TransportError(t) \/ Unreadable(t) \/ CommitFails(t) \/ Mark(t) \/ MarkFails(t)
  <2>1. /\ UNCHANGED <<db, storeGen, cacheGen, cached, home, gen, unannounced>> /\ pc[t] # "bump"
    BY <1>1 DEF Answer, Rejected, StartSweep, TakeLock, ReadUnderLock, ServerAnswers,
       TransportError, Unreadable, Answering, CommitFails, Mark, MarkFails, nodeVars, rowVars,
       cacheVars, pullVars, statusVars, faults
  <2>2. /\ \A u \in Tasks \ {t} : pc'[u] = pc[u] /\ tok'[u] = tok[u]
        /\ pc'[t] \notin {"lookup", "load", "insert"}
    BY <1>1 DEF Answer, Rejected, StartSweep, TakeLock, ReadUnderLock, ServerAnswers,
       TransportError, Unreadable, Answering, CommitFails, Mark, MarkFails, Finish, Resume, Typed,
       TypeOK
  <2> QED
    BY <2>1, <2>2, CacheStutter DEF Typed, TypeOK
<1>2. CASE Cancel(t)
  BY <1>2, CacheStutter DEF Cancel, nodeVars, rowVars, cacheVars, pullVars, statusVars, Typed,
      TypeOK
<1> QED
  BY <1>1, <1>2, CacheRequestPath, CacheCommit DEF Step, Refresh

LEMMA CacheNode ==
    ASSUME Typed, CacheInv, NEW n \in Nodes,
           \/ ReadForPoll(n) \/ PollUsage(n) \/ CacheExpire(n) \/ Crash(n)
           \/ Pull(n)
    PROVE  CacheInv'
<1> USE DEF Typed, TypeOK
<1>1. CASE ReadForPoll(n) \/ PollUsage(n) \/ PullFetch(n) \/ PullCompare(n)
  BY <1>1, CacheStutter DEF ReadForPoll, PollUsage, PullFetch, PullCompare, rowVars, cacheVars,
      pullVars, statusVars, taskVars, faults
<1>2. CASE CacheExpire(n)
  BY <1>2 DEF CacheExpire, taskVars, faults, CacheInv, GenerationsBounded, InsertHoldsStored,
     CacheHoldsStored, Excused, AtBump
<1>3. CASE Crash(n)
  <2>1. /\ UNCHANGED <<db, home, gen, tok>>
        /\ \A k \in Nodes : k # n => unannounced'[k] = unannounced[k]
        /\ \A u \in Tasks : pc'[u] = IF home[u] = n THEN "idle" ELSE pc[u]
        /\ \A k \in Nodes : /\ storeGen'[k] = IF k = n THEN 0 ELSE storeGen[k]
                            /\ cacheGen'[k] = IF k = n THEN 0 ELSE cacheGen[k]
                            /\ cached'[k] = IF k = n THEN None ELSE cached[k]
    BY <1>3 DEF Crash
  <2>2. \A k \in Nodes : k # n /\ Excused(k) => Excused(k)'
    BY <2>1 DEF Excused, Excused, AtBump
  <2>3. GenerationsBounded'
    BY <2>1 DEF CacheInv, GenerationsBounded
  <2>4. InsertHoldsStored'
    BY <2>1, <2>2 DEF CacheInv, InsertHoldsStored
  <2>5. CacheHoldsStored'
    BY <2>1, <2>2 DEF CacheInv, CacheHoldsStored, Excused, AtBump
  <2> QED
    BY <2>3, <2>4, <2>5 DEF CacheInv
<1>4. CASE PullWrite(n)
  <2>1. /\ UNCHANGED <<storeGen, cacheGen, cached, pc, home, gen, tok>>
        /\ \A k \in Nodes : k # n => db'[k] = db[k]
        /\ unannounced' = [unannounced EXCEPT ![n] = TRUE]
    BY <1>4 DEF PullWrite, cacheVars, taskVars
  <2>2. \A k \in Nodes : k = n \/ Excused(k) => Excused(k)'
    BY <2>1 DEF Excused, AtBump
  <2>3. GenerationsBounded'
    BY <2>1 DEF CacheInv, GenerationsBounded
  <2>4. InsertHoldsStored'
    BY <2>1, <2>2 DEF CacheInv, InsertHoldsStored
  <2>5. CacheHoldsStored'
    BY <2>1, <2>2, CacheMeans, CacheMeansNext DEF CacheInv
  <2> QED
    BY <2>3, <2>4, <2>5 DEF CacheInv
<1> QED
  BY <1>1, <1>2, <1>3, <1>4 DEF Pull

LEMMA CacheNext == Typed /\ CacheInv /\ [Next]_vars => CacheInv'
<1> SUFFICES ASSUME Typed, CacheInv, [Next]_vars PROVE CacheInv'
  OBVIOUS
<1>1. ASSUME NEW g \in Pairs, Expire(g) PROVE CacheInv'
  BY <1>1, CacheStutter DEF Expire, nodeVars, rowVars, cacheVars, pullVars, statusVars, taskVars,
      faults, Typed, TypeOK
<1>2. CASE UNCHANGED vars
  BY <1>2, CacheStutter DEF vars, nodeVars, rowVars, cacheVars, pullVars, statusVars, taskVars,
      faults, Typed, TypeOK
<1> QED
  BY <1>1, <1>2, CacheStep, CacheNode DEF Next

\* On every node the cache never serves a pair that the store has replaced, whatever readings,
\* rotations, cancellations, pulls and crashes interleave, but between a commit and its bump, and
\* after the two writes that no bump of the serving process follows: a pull's, which is another
\* process', and a cancelled request's.
THEOREM CacheIsCurrent == Spec => []CacheHoldsStored
<1>1. CacheInv => CacheHoldsStored
  BY DEF CacheInv
<1> QED
  BY <1>1, TypeInit, TypeNext, CacheInit, CacheNext, PTL DEF Spec

(***************************************************************************)
(* No token twice.  A replica's request path exchanges the pair its master *)
(* may have spent, so what follows is about an account that the master     *)
(* alone serves, with any number of replicas that hold copies of its rows. *)
(***************************************************************************)
ServedByMaster == \A t \in Tasks : home[t] = Master

LEMMA ServedNext ==
    ASSUME ServedByMaster, [Next]_vars PROVE ServedByMaster'
<1>1. UNCHANGED home
  BY DEF Next, Step, Refresh, StartRequest, CacheGet, LoadRow, CacheInsert, Answer, Rejected,
     StartSweep, TakeLock, ReadUnderLock, ServerAnswers, TransportError, Unreadable, Answering,
     Commit, CommitFails, Bump,
     Mark, MarkFails, Cancel, ReadForPoll, PollUsage, CacheExpire, Crash, Pull, PullFetch,
     PullCompare, PullWrite,
     Expire, vars, taskVars
<1> QED
  BY <1>1 DEF ServedByMaster, Master

\* The bounded faults leave their traces: a poll in progress was counted, and so was each write of
\* a result that failed.
FaultsCounted ==
    /\ listed[Master] # NoStatus => polls > 0
    /\ \A t \in Tasks : /\ pc[t] \in {"exchange", "minted"} => tries[t] <= storeFaults
                        /\ pc[t] = "mark" => storeFaults >= PersistMaxAttempts

LEMMA CountedInit == Init => FaultsCounted
BY MasterType DEF Init, FaultsCounted

\* Faults are never taken back.
LEMMA FaultsGrow ==
    ASSUME Typed, [Next]_vars
    PROVE  /\ cancels <= cancels' /\ crashes <= crashes' /\ losses <= losses' /\ garbled <= garbled'
           /\ storeFaults <= storeFaults' /\ polls <= polls'
<1> USE DEF Typed, TypeOK, faults
<1>1. ASSUME NEW t \in Tasks, Step(t)
      PROVE  /\ cancels <= cancels' /\ crashes <= crashes' /\ losses <= losses' /\ garbled <= garbled'
             /\ storeFaults <= storeFaults' /\ polls <= polls'
  BY <1>1 DEF Step, Refresh, StartRequest, CacheGet, LoadRow, CacheInsert, Answer, Rejected,
     StartSweep, TakeLock, ReadUnderLock, ServerAnswers, TransportError, Unreadable, Answering,
     Commit, CommitFails, Bump,
     Mark, MarkFails, Cancel
<1>2. ASSUME NEW n \in Nodes,
             \/ ReadForPoll(n) \/ PollUsage(n) \/ CacheExpire(n) \/ Crash(n)
             \/ Pull(n)
      PROVE  /\ cancels <= cancels' /\ crashes <= crashes' /\ losses <= losses' /\ garbled <= garbled'
             /\ storeFaults <= storeFaults' /\ polls <= polls'
  BY <1>2 DEF ReadForPoll, PollUsage, CacheExpire, Crash, Pull, PullFetch, PullCompare, PullWrite
<1>3. CASE (\E g \in Pairs : Expire(g)) \/ UNCHANGED vars
  BY <1>3 DEF Expire, vars
<1> QED
  BY <1>1, <1>2, <1>3 DEF Next

LEMMA FaultsGrowUndisturbed ==
    ASSUME Typed, [Next]_vars, Undisturbed' PROVE Undisturbed
<1>1. /\ cancels' = 0 /\ crashes' = 0 /\ losses' = 0 /\ garbled' = 0
      /\ storeFaults' <= PersistMaxAttempts
      /\ polls' = 0 \/ storeFaults' < PersistMaxAttempts
  BY DEF Undisturbed
<1>2. /\ cancels \in Nat /\ crashes \in Nat /\ losses \in Nat /\ garbled \in Nat
      /\ storeFaults \in Nat /\ polls \in Nat
  BY DEF Typed, TypeOK
<1>3. cancels' \in Nat /\ storeFaults' \in Nat /\ PersistMaxAttempts \in Nat /\ polls' \in Nat
  BY TypeNext, TokenConstants DEF Typed, TypeOK
<1> QED
  BY <1>1, <1>2, <1>3, FaultsGrow DEF Undisturbed

LEMMA CountedNext == Typed /\ FaultsCounted /\ [Next]_vars => FaultsCounted'
<1> SUFFICES ASSUME Typed, FaultsCounted, [Next]_vars PROVE FaultsCounted'
  OBVIOUS
<1> USE DEF Typed, TypeOK
<1>1. storeFaults <= storeFaults' /\ polls <= polls'
      /\ storeFaults \in Nat /\ polls \in Nat /\ storeFaults' \in Nat /\ polls' \in Nat
      /\ PersistMaxAttempts \in Nat
  BY FaultsGrow, TypeNext, TokenConstants
<1>2. listed'[Master] # NoStatus => polls' > 0
  <2>1. ASSUME NEW n \in Nodes, ReadForPoll(n) \/ PollUsage(n) \/ Crash(n)
        PROVE  listed'[Master] # NoStatus => polls' > 0
    BY <1>1, <2>1, MasterType DEF ReadForPoll, PollUsage, Crash, FaultsCounted
  <2>2. CASE UNCHANGED listed
    BY <1>1, <2>2 DEF FaultsCounted, Master
  <2>3. UNCHANGED listed \/ \E n \in Nodes : ReadForPoll(n) \/ PollUsage(n) \/ Crash(n)
    BY DEF Next, Step, Refresh, StartRequest, CacheGet, LoadRow, CacheInsert, Answer, Rejected,
       StartSweep, TakeLock, ReadUnderLock, ServerAnswers, TransportError, Unreadable, Answering,
       Commit, CommitFails,
       Bump, Mark, MarkFails, Cancel, CacheExpire, Pull, PullFetch, PullCompare, PullWrite, Expire,
       vars,
       nodeVars, statusVars
  <2> QED
    BY <2>1, <2>2, <2>3
<1>3. ASSUME NEW u \in Tasks
      PROVE  /\ pc'[u] \in {"exchange", "minted"} => tries'[u] <= storeFaults'
             /\ pc'[u] = "mark" => storeFaults' >= PersistMaxAttempts
  <2>1. ASSUME NEW t \in Tasks, ReadUnderLock(t)
        PROVE  /\ pc'[u] \in {"exchange", "minted"} => tries'[u] <= storeFaults'
               /\ pc'[u] = "mark" => storeFaults' >= PersistMaxAttempts
    BY <1>1, <2>1 DEF ReadUnderLock, Finish, Resume, FaultsCounted
  <2>2. ASSUME NEW t \in Tasks, CommitFails(t)
        PROVE  /\ pc'[u] \in {"exchange", "minted"} => tries'[u] <= storeFaults'
               /\ pc'[u] = "mark" => storeFaults' >= PersistMaxAttempts
    BY <1>1, <2>2 DEF CommitFails, FaultsCounted
  <2>3. ASSUME NEW t \in Tasks, ServerAnswers(t) \/ Commit(t)
        PROVE  /\ pc'[u] \in {"exchange", "minted"} => tries'[u] <= storeFaults'
               /\ pc'[u] = "mark" => storeFaults' >= PersistMaxAttempts
    BY <1>1, <2>3 DEF ServerAnswers, Commit, FaultsCounted, faults
  <2>4. CASE /\ tries' = tries
             /\ pc'[u] = pc[u] \/ pc'[u] \notin {"exchange", "minted", "mark"}
    <3>1. tries[u] \in Nat
      OBVIOUS
    <3> QED
      BY <1>1, <2>4, <3>1 DEF FaultsCounted
  <2>5. ASSUME NEW t \in Tasks, Step(t)
        PROVE  /\ pc'[u] \in {"exchange", "minted"} => tries'[u] <= storeFaults'
               /\ pc'[u] = "mark" => storeFaults' >= PersistMaxAttempts
    <3>1. CASE \/ StartRequest(t) \/ CacheGet(t) \/ LoadRow(t) \/ CacheInsert(t) \/ Answer(t)
               \/ Rejected(t) \/ StartSweep(t) \/ TakeLock(t) \/ TransportError(t) \/ Unreadable(t)
               \/ Bump(t)
               \/ Mark(t) \/ MarkFails(t) \/ Cancel(t)
      BY <2>4, <3>1 DEF StartRequest, CacheGet, LoadRow, CacheInsert, Answer, Rejected, StartSweep,
         TakeLock, TransportError, Unreadable, Answering, Bump, Mark, MarkFails, Cancel, Finish,
         Resume, AfterToken
    <3> QED
      BY <2>1, <2>2, <2>3, <2>5, <3>1 DEF Step, Refresh
  <2>6. ASSUME NEW n \in Nodes,
               \/ ReadForPoll(n) \/ PollUsage(n) \/ CacheExpire(n) \/ Crash(n)
               \/ Pull(n)
        PROVE  /\ pc'[u] \in {"exchange", "minted"} => tries'[u] <= storeFaults'
               /\ pc'[u] = "mark" => storeFaults' >= PersistMaxAttempts
    BY <2>4, <2>6 DEF ReadForPoll, PollUsage, CacheExpire, Crash, Pull, PullFetch, PullCompare,
        PullWrite, taskVars
  <2>7. CASE (\E g \in Pairs : Expire(g)) \/ UNCHANGED vars
    BY <2>4, <2>7 DEF Expire, vars, taskVars
  <2> QED
    BY <2>5, <2>6, <2>7 DEF Next
<1> QED
  BY <1>2, <1>3 DEF FaultsCounted, Master

\* While nothing is disturbed: a stored pair that is not the newest has a refresh that is about to
\* replace it, or an account marked for it after the last attempt; a refresh that is about to
\* present the stored pair presents the newest; and nobody has presented an older one.
Replacing(t) == home[t] = Master /\ pc[t] \in {"minted", "mark"}
RotationSound ==
    /\ db[Master] # grant => status[Master] \notin Usable \/ \E t \in Tasks : Replacing(t)
    /\ status[Master] \notin Usable => storeFaults >= PersistMaxAttempts
    /\ \A t \in Tasks : home[t] = Master => /\ pc[t] = "exchange" => db[Master] = grant
                                            /\ pc[t] = "minted" => reply[t] = grant
                                            /\ pc[t] \notin {"reused", "unreadable"}
RotationInv == Undisturbed => RotationSound

LEMMA RotationInit == Init => RotationInv
BY MasterType DEF Init, RotationInv, RotationSound, Usable

\* A step that leaves the server, the master's row, the answers and the replacing refreshes alone.
LEMMA RotationStutter ==
    ASSUME Typed, RotationSound, storeFaults' \in Nat, storeFaults <= storeFaults',
           UNCHANGED <<grant, home, reply>>, db'[Master] = db[Master],
           \/ status'[Master] = status[Master]
           \/ status[Master] \in Usable /\ status'[Master] \in Usable,
           \A t \in Tasks : \/ pc'[t] = pc[t]
                            \/ /\ pc'[t] \notin {"exchange", "minted", "mark", "reused", "unreadable"}
                               /\ pc[t] \notin {"minted", "mark"}
    PROVE  RotationSound'
<1>1. Master' = Master
  BY DEF Master
<1>2. storeFaults \in Nat /\ PersistMaxAttempts \in Nat
  BY TokenConstants DEF Typed, TypeOK
<1>3. \A t \in Tasks : Replacing(t) => Replacing(t)'
  BY <1>1 DEF Replacing
<1>4. (db[Master] # grant => status[Master] \notin Usable \/ \E t \in Tasks : Replacing(t))'
  BY <1>1, <1>3 DEF RotationSound
<1>5. (status[Master] \notin Usable => storeFaults >= PersistMaxAttempts)'
  BY <1>1, <1>2 DEF RotationSound
<1> QED
  BY <1>1, <1>4, <1>5 DEF RotationSound

\* The refreshes of one account that nothing disturbs.
LEMMA RotationRefresh ==
    ASSUME MarkInv, FaultsCounted, ServedByMaster, Undisturbed, RotationSound, Undisturbed',
           storeFaults' \in Nat, NEW t \in Tasks, Refresh(t)
    PROVE  RotationSound'
<1> USE DEF MarkInv, Typed, TypeOK
<1>0. /\ Master' = Master /\ home[t] = Master /\ home' = home /\ Master \in Nodes
      /\ PersistMaxAttempts \in Nat /\ storeFaults \in Nat
  BY MasterType, TokenConstants
     DEF Master, ServedByMaster, Refresh, TakeLock, ReadUnderLock, ServerAnswers, TransportError,
         Unreadable, Answering,
         Commit, CommitFails, Bump, Mark, MarkFails
<1>1. CASE TakeLock(t) \/ Bump(t)
  BY <1>0, <1>1, RotationStutter DEF TakeLock, Bump, Finish, Resume, nodeVars, rowVars, cacheVars,
      pullVars, statusVars, faults
<1>2. CASE ReadUnderLock(t)
  <2>1. UNCHANGED <<grant, db, status, storeFaults>> /\ pc[t] = "locked"
    BY <1>2 DEF ReadUnderLock, nodeVars, rowVars, cacheVars, pullVars, statusVars, faults
  <2>2. CASE \E w \in {"idle", "serving"} : Finish(t, w) /\ UNCHANGED reply
    BY <1>0, <2>1, <2>2, RotationStutter DEF Finish
  <2>3. CASE /\ Allowed(t) /\ pc' = [pc EXCEPT ![t] = "exchange"]
             /\ reply' = [reply EXCEPT ![t] = None]
    <3>1. \A u \in Tasks : ~Replacing(u)
      BY <1>0, <2>1 DEF Replacing, SingleFlight, Refreshing
    <3>2. status[Master] \in Usable /\ db[Master] = grant
      BY <1>0, <2>3, <3>1 DEF Allowed, Usable, RotationSound
    <3>3. \A u \in Tasks : pc'[u] \notin {"minted", "reused", "unreadable"}
      BY <1>0, <2>3, <3>1 DEF Replacing, ServedByMaster, RotationSound
    <3> QED
      BY <1>0, <2>1, <3>2, <3>3 DEF RotationSound
  <2> QED
    BY <1>2, <2>2, <2>3 DEF ReadUnderLock, Resume
<1>3. CASE ServerAnswers(t)
  <2>1. /\ UNCHANGED <<db, status, storeFaults>> /\ pc[t] = "exchange"
        /\ presented[t] = db[Master] /\ db[Master] = grant
    BY <1>0, <1>3 DEF ServerAnswers, nodeVars, rowVars, cacheVars, pullVars, statusVars, faults,
        Exchanged, ExchangedAt, Underway,
       RotationSound
  <2>2. /\ grant' = grant + 1 /\ pc' = [pc EXCEPT ![t] = "minted"]
        /\ reply' = [reply EXCEPT ![t] = grant + 1]
    BY <1>3, <2>1 DEF ServerAnswers
  <2>3. \A u \in Tasks : u # t => pc[u] \notin {"exchange", "minted", "reused", "unreadable"}
    BY <1>0, <2>1, OthersIdle DEF ServedByMaster, Refreshing, Underway, RotationSound
  <2>4. Replacing(t)'
    BY <1>0, <2>2 DEF Replacing
  <2>5. \A u \in Tasks : /\ pc'[u] \notin {"exchange", "reused", "unreadable"}
                         /\ pc'[u] = "minted" => reply'[u] = grant'
    BY <2>2, <2>3
  <2>6. (status[Master] \notin Usable => storeFaults >= PersistMaxAttempts)'
    BY <1>0, <2>1 DEF RotationSound
  <2> QED
    BY <1>0, <2>4, <2>5, <2>6 DEF RotationSound
<1>4. CASE TransportError(t)
  BY <1>4 DEF TransportError, Unreadable, Answering, Undisturbed
<1>9. CASE Unreadable(t)
  BY <1>9 DEF Unreadable, Undisturbed
<1>5. CASE Commit(t)
  <2>1. /\ UNCHANGED <<grant, status, storeFaults, reply>> /\ pc[t] = "minted"
        /\ db' = [db EXCEPT ![Master] = reply[t]] /\ reply[t] = grant
        /\ pc' = [pc EXCEPT ![t] = "bump"]
    BY <1>0, <1>5 DEF Commit, statusVars, faults, RotationSound
  <2>2. db'[Master] = grant'
    BY <1>0, <2>1
  <2> QED
    BY <1>0, <2>1, <2>2 DEF RotationSound
<1>6. CASE CommitFails(t)
  <2>1. /\ UNCHANGED <<grant, db, status, reply>> /\ pc[t] = "minted"
        /\ storeFaults' = storeFaults + 1
        /\ pc' = [pc EXCEPT ![t] = "minted"] \/ pc' = [pc EXCEPT ![t] = "mark"]
    BY <1>6 DEF CommitFails, nodeVars, rowVars, cacheVars, pullVars, statusVars
  <2>2. Replacing(t)'
    BY <1>0, <2>1 DEF Replacing
  <2>3. (status[Master] \notin Usable => storeFaults >= PersistMaxAttempts)'
    BY <1>0, <2>1 DEF RotationSound
  <2>4. \A u \in Tasks : home[u] = Master => /\ pc'[u] = "exchange" => db[Master] = grant
                                             /\ pc'[u] = "minted" => reply[u] = grant
                                             /\ pc'[u] \notin {"reused", "unreadable"}
    BY <1>0, <2>1 DEF RotationSound
  <2> QED
    BY <1>0, <2>1, <2>2, <2>3, <2>4 DEF RotationSound
<1>7. CASE Mark(t)
  <2>1. /\ UNCHANGED <<grant, db, storeFaults, reply>> /\ pc[t] = "mark"
        /\ status' = [status EXCEPT ![Master] = "reauth_required"]
        /\ pc' = [pc EXCEPT ![t] = "idle"]
    BY <1>0, <1>7 DEF Mark, Finish, rowVars, cacheVars, pullVars, statusVars, faults, RotationSound
  <2>2. storeFaults >= PersistMaxAttempts
    BY <1>0, <2>1 DEF RotationSound, FaultsCounted
  <2>3. status'[Master] \notin Usable
    BY <1>0, <2>1 DEF Usable
  <2> QED
    BY <1>0, <2>1, <2>2, <2>3 DEF RotationSound
<1>8. CASE MarkFails(t)
  <2>1. pc[t] = "mark" /\ storeFaults' = storeFaults + 1
    BY <1>0, <1>8 DEF MarkFails, RotationSound
  <2>2. storeFaults >= PersistMaxAttempts
    BY <2>1 DEF FaultsCounted
  <2> QED
    BY <1>0, <2>1, <2>2 DEF Undisturbed
<1> QED
  BY <1>1, <1>2, <1>3, <1>4, <1>5, <1>6, <1>7, <1>8, <1>9 DEF Refresh

LEMMA RotationNext ==
    ASSUME MarkInv, FaultsCounted, ServedByMaster, RotationInv, [Next]_vars PROVE RotationInv'
<1> USE DEF MarkInv
<1> SUFFICES ASSUME Undisturbed' PROVE RotationSound'
  BY DEF RotationInv
<1>0. /\ Undisturbed /\ RotationSound /\ Typed /\ Typed' /\ Master' = Master /\ Master \in Nodes
      /\ storeFaults' \in Nat /\ storeFaults <= storeFaults' /\ storeFaults \in Nat
      /\ PersistMaxAttempts \in Nat /\ pc \in [Tasks -> PCs]
  BY FaultsGrow, FaultsGrowUndisturbed, TypeNext, MasterType, TokenConstants
     DEF RotationInv, Typed, TypeOK, Master
<1>1. ASSUME NEW t \in Tasks, Step(t) PROVE RotationSound'
  <2>1. CASE \/ StartRequest(t) \/ CacheGet(t) \/ LoadRow(t) \/ CacheInsert(t)
             \/ Answer(t) \/ Rejected(t) \/ StartSweep(t)
    <3>1. /\ UNCHANGED <<grant, db, status, home, reply>>
          /\ pc[t] \notin {"minted", "mark"}
          /\ \A u \in Tasks \ {t} : pc'[u] = pc[u]
          /\ pc'[t] \notin {"exchange", "minted", "mark", "reused", "unreadable"}
      BY <1>0, <2>1 DEF StartRequest, CacheGet, LoadRow, CacheInsert, Answer, Rejected, StartSweep,
         AfterToken, nodeVars, rowVars, cacheVars, pullVars, statusVars
    <3> QED
      BY <1>0, <3>1, RotationStutter
  <2>2. CASE Cancel(t)
    BY <1>0, <2>2 DEF Cancel, Undisturbed
  <2> QED
    BY <1>0, <1>1, <2>1, <2>2, RotationRefresh DEF Step
<1>2. ASSUME NEW n \in Nodes,
             ReadForPoll(n) \/ PollUsage(n) \/ CacheExpire(n) \/ Pull(n)
      PROVE  RotationSound'
  <2>1. UNCHANGED <<grant, home, reply, pc>>
    BY <1>2 DEF ReadForPoll, PollUsage, CacheExpire, Pull, PullFetch, PullCompare, PullWrite,
        taskVars
  <2>2. db'[Master] = db[Master]
    BY <1>0, <1>2 DEF ReadForPoll, PollUsage, CacheExpire, Pull, PullFetch, PullCompare, PullWrite,
        rowVars, cacheVars, pullVars, statusVars, Bounded,
       Typed, TypeOK
  <2>3. \/ status'[Master] = status[Master]
        \/ status[Master] \in Usable /\ status'[Master] \in Usable
    <3>1. CASE UNCHANGED status
      BY <3>1
    <3>2. CASE PollUsage(n) /\ n # Master
      BY <1>0, <3>2 DEF PollUsage, Typed, TypeOK
    <3>3. CASE PollUsage(n) /\ n = Master
      <4>1. polls > 0 /\ polls \in Nat
        BY <3>3 DEF PollUsage, FaultsCounted, Typed, TypeOK
      <4>2. storeFaults < PersistMaxAttempts
        BY <1>0, <4>1 DEF Undisturbed
      <4>3. status[Master] \in Usable
        BY <1>0, <4>2 DEF RotationSound
      <4> QED
        BY <1>0, <3>3, <4>3 DEF PollUsage, Typed, TypeOK
    <3> QED
      BY <1>2, <3>1, <3>2, <3>3 DEF ReadForPoll, CacheExpire, Pull, PullFetch, PullCompare,
          PullWrite,
         statusVars
  <2> QED
    BY <1>0, <2>1, <2>2, <2>3, RotationStutter
<1>3. ASSUME NEW n \in Nodes, Crash(n) PROVE RotationSound'
  BY <1>3, <1>0 DEF Crash, Undisturbed, Typed, TypeOK
<1>4. CASE (\E g \in Pairs : Expire(g)) \/ UNCHANGED vars
  BY <1>0, <1>4, RotationStutter DEF Expire, vars, nodeVars, rowVars, cacheVars, pullVars,
      statusVars, taskVars
<1> QED
  BY <1>1, <1>2, <1>3, <1>4 DEF Next

\* What a served account keeps, step after step.
Rotated == MarkInv /\ FaultsCounted /\ ServedByMaster /\ RotationInv

LEMMA RotatedAlways == Spec /\ ServedByMaster => []Rotated
<1>1. Init /\ ServedByMaster => Rotated
  BY TypeInit, SingleFlightInit, MarkInit, CountedInit, RotationInit DEF Rotated, MarkInv
<1>2. Rotated /\ [Next]_vars => Rotated'
  BY TypeNext, SingleFlightNext, MarkNext, CountedNext, ServedNext, RotationNext DEF Rotated,
      MarkInv
<1> QED
  BY <1>1, <1>2, PTL DEF Spec

\* However many requests and sweeps of the account are under way, and however often the store
\* refuses a result, a refresh token is never presented twice, as long as no request is cancelled,
\* nothing crashes and every answer of the server arrives.
THEOREM NoTokenTwice == Spec /\ ServedByMaster => []NeverReused
<1>1. Rotated => NeverReused
  BY DEF Rotated, RotationInv, RotationSound, ServedByMaster, NeverReused
<1> QED
  BY <1>1, RotatedAlways, PTL

\* Between refreshes a stored pair that has been spent is marked: the account no longer looks
\* usable, whatever the usage polls write.
THEOREM SpentPairIsMarked == Spec /\ ServedByMaster => []SpentIsMarked
<1>1. Rotated => SpentIsMarked
  BY DEF Rotated, MarkInv, SingleFlight, Refreshing, RotationInv, RotationSound, Replacing,
     SpentIsMarked
<1> QED
  BY <1>1, RotatedAlways, PTL

(***************************************************************************)
(* No lock outlives its refresh.                                           *)
(***************************************************************************)
\* Whoever holds the lock of a node is a refresh of that node under way.
LocksHeld == \A n \in Nodes : \A t \in lock[n] : home[t] = n /\ pc[t] \in Refreshing

LEMMA LocksStep ==
    ASSUME Typed, LocksHeld, NEW t \in Tasks, Step(t) PROVE LocksHeld'
<1> USE DEF Typed, TypeOK
<1>0. home' = home /\ home[t] \in Nodes /\ \A n \in Nodes : lock[n] \subseteq Tasks
  BY DEF Step, Refresh, StartRequest, CacheGet, LoadRow, CacheInsert, Answer, Rejected, StartSweep,
     TakeLock, ReadUnderLock, ServerAnswers, TransportError, Unreadable, Answering, Commit,
     CommitFails, Bump, Mark,
     MarkFails, Cancel
<1>1. CASE \/ StartRequest(t) \/ CacheGet(t) \/ LoadRow(t) \/ CacheInsert(t)
           \/ Answer(t) \/ Rejected(t) \/ StartSweep(t)
  <2>1. /\ lock' = lock /\ pc[t] \notin Refreshing
        /\ \A u \in Tasks \ {t} : pc'[u] = pc[u]
    BY <1>1 DEF StartRequest, CacheGet, LoadRow, CacheInsert, Answer, Rejected, StartSweep,
       Refreshing
  <2> QED
    BY <1>0, <2>1 DEF LocksHeld
<1>2. CASE TakeLock(t)
  BY <1>0, <1>2 DEF TakeLock, LocksHeld, Refreshing
<1>3. CASE \/ TransportError(t) \/ Bump(t) \/ Mark(t) \/ MarkFails(t)
           \/ ReadUnderLock(t) /\ \E w : Finish(t, w)
  <2>1. lock' = [lock EXCEPT ![home[t]] = {}] /\ \E w : pc' = [pc EXCEPT ![t] = w]
    BY <1>3 DEF TransportError, Bump, Mark, MarkFails, Finish, Release
  <2>3. pc[t] \in Refreshing
    BY <1>3 DEF TransportError, Answering, Bump, Mark, MarkFails, ReadUnderLock, Refreshing
  <2>2. \A n \in Nodes : n # home[t] => lock'[n] = lock[n] /\ t \notin lock[n]
    BY <2>1 DEF LocksHeld
  <2>4. \A u \in Tasks \ {t} : pc'[u] = pc[u]
    BY <2>1
  <2> QED
    BY <1>0, <2>1, <2>2, <2>3, <2>4 DEF LocksHeld
<1>4. CASE \/ ReadUnderLock(t) /\ lock' = lock /\ pc' = [pc EXCEPT ![t] = "exchange"]
           \/ ServerAnswers(t) \/ Unreadable(t) \/ Commit(t) \/ CommitFails(t)
  <2>1. lock' = lock /\ \A u \in Tasks : pc'[u] = pc[u] \/ pc'[u] \in Refreshing
    BY <1>4 DEF ServerAnswers, Unreadable, Answering, Commit, CommitFails, Refreshing
  <2> QED
    BY <1>0, <2>1 DEF LocksHeld
<1>5. CASE Cancel(t)
  <2>1. /\ \A n \in Nodes : lock'[n] = lock[n] \ {t}
        /\ \A u \in Tasks \ {t} : pc'[u] = pc[u]
    BY <1>5 DEF Cancel
  <2> QED
    BY <1>0, <2>1 DEF LocksHeld
<1> QED
  BY <1>1, <1>2, <1>3, <1>4, <1>5 DEF Step, Refresh, ReadUnderLock

LEMMA LocksNext == Typed /\ LocksHeld /\ [Next]_vars => LocksHeld'
<1> SUFFICES ASSUME Typed, LocksHeld, [Next]_vars PROVE LocksHeld'
  OBVIOUS
<1>1. ASSUME NEW n \in Nodes, Crash(n) PROVE LocksHeld'
  <2>1. /\ home' = home /\ \A k \in Nodes : lock'[k] = IF k = n THEN {} ELSE lock[k]
        /\ \A t \in Tasks : home[t] # n => pc'[t] = pc[t]
        /\ \A k \in Nodes : lock[k] \subseteq Tasks
    BY <1>1 DEF Crash, Typed, TypeOK
  <2> QED
    BY <2>1 DEF LocksHeld
<1>2. CASE UNCHANGED <<lock, home, pc>>
  BY <1>2 DEF LocksHeld
<1>3. ASSUME NEW n \in Nodes,
             \/ ReadForPoll(n) \/ PollUsage(n) \/ CacheExpire(n) \/ Pull(n)
      PROVE  UNCHANGED <<lock, home, pc>>
  BY <1>3 DEF ReadForPoll, PollUsage, CacheExpire, Pull, PullFetch, PullCompare, PullWrite, taskVars
<1>4. CASE (\E g \in Pairs : Expire(g)) \/ UNCHANGED vars
  BY <1>2, <1>4 DEF Expire, vars, taskVars
<1> QED
  BY <1>1, <1>2, <1>3, <1>4, LocksStep DEF Next

\* The lock of an account is never left behind: whatever is cancelled, fails or crashes, a lock that
\* is taken is held by a refresh under way, so whoever waits for it waits for a task.
THEOREM NoLockLeftBehind == Spec => []LocksHeld
<1>1. Init => LocksHeld
  BY DEF Init, LocksHeld
<1>2. (Typed /\ LocksHeld) /\ [Next]_vars => (Typed /\ LocksHeld)'
  BY TypeNext, LocksNext
<1> QED
  BY <1>1, <1>2, TypeInit, PTL DEF Spec

(***************************************************************************)
(* The master's row never goes back to a pair it has replaced.             *)
(***************************************************************************)
\* An answer is newer than what was presented for it.
AnswersNewer == \A t \in Tasks : pc[t] = "minted" => reply[t] > presented[t]

LEMMA AnswersNext == Typed /\ AnswersNewer /\ [Next]_vars => AnswersNewer'
<1> SUFFICES ASSUME Typed, AnswersNewer, [Next]_vars PROVE AnswersNewer'
  OBVIOUS
<1> USE DEF Typed, TypeOK
<1>1. ASSUME NEW t \in Tasks, Step(t) PROVE AnswersNewer'
  <2>1. CASE ServerAnswers(t)
    <3>1. UNCHANGED presented /\ grant \in Nat
      BY <2>1 DEF ServerAnswers
    <3>2. \A u \in Tasks \ {t} : pc'[u] = pc[u] /\ reply'[u] = reply[u]
      BY <2>1 DEF ServerAnswers
    <3>3. pc'[t] = "minted" => reply'[t] > presented[t]
      BY <2>1 DEF ServerAnswers
    <3> QED
      BY <3>1, <3>2, <3>3 DEF AnswersNewer
  <2>2. CASE ReadUnderLock(t)
    <3>1. /\ pc'[t] # "minted"
          /\ \A u \in Tasks \ {t} : /\ pc'[u] = pc[u] /\ reply'[u] = reply[u]
                                    /\ presented'[u] = presented[u]
      BY <2>2 DEF ReadUnderLock, Finish, Resume
    <3> QED
      BY <3>1 DEF AnswersNewer
  <2>3. CASE ~ServerAnswers(t) /\ ~ReadUnderLock(t)
    <3>1. UNCHANGED <<presented, reply>> /\ \A u \in Tasks : pc'[u] = pc[u] \/ pc'[u] # "minted" \/ pc[u] = "minted"
      BY <1>1, <2>3 DEF Step, Refresh, StartRequest, CacheGet, LoadRow, CacheInsert, Answer,
         Rejected, StartSweep, TakeLock, TransportError, Unreadable, Answering, Commit,
         CommitFails, Bump, Mark, MarkFails,
         Cancel, Finish, Resume, AfterToken
    <3> QED
      BY <3>1 DEF AnswersNewer
  <2> QED
    BY <2>1, <2>2, <2>3
<1>2. ASSUME NEW n \in Nodes,
             \/ ReadForPoll(n) \/ PollUsage(n) \/ CacheExpire(n) \/ Crash(n)
             \/ Pull(n)
      PROVE  AnswersNewer'
  <2>1. UNCHANGED <<presented, reply>> /\ \A u \in Tasks : pc'[u] = pc[u] \/ pc'[u] = "idle"
    BY <1>2 DEF ReadForPoll, PollUsage, CacheExpire, Crash, Pull, PullFetch, PullCompare,
        PullWrite, taskVars
  <2> QED
    BY <2>1 DEF AnswersNewer
<1>3. CASE (\E g \in Pairs : Expire(g)) \/ UNCHANGED vars
  BY <1>3 DEF Expire, vars, taskVars, AnswersNewer
<1> QED
  BY <1>1, <1>2, <1>3 DEF Next

\* What a step may never do to the master's row.
RowAdvances == db'[Master] >= db[Master]

LEMMA RowStep == MarkInv /\ AnswersNewer /\ [Next]_vars => RowAdvances
<1> SUFFICES ASSUME MarkInv, AnswersNewer, [Next]_vars PROVE RowAdvances
  OBVIOUS
<1> USE DEF MarkInv, Typed, TypeOK, RowAdvances
<1>0. Master \in Nodes /\ db[Master] \in Nat
  BY MasterType
<1>1. ASSUME NEW t \in Tasks, Commit(t) PROVE RowAdvances
  <2>1. pc[t] = "minted" /\ db' = [db EXCEPT ![home[t]] = reply[t]]
    BY <1>1 DEF Commit
  <2>2. CASE home[t] = Master
    <3>1. presented[t] = db[Master] /\ reply[t] > presented[t] /\ reply[t] \in Nat
      BY <1>0, <2>1, <2>2 DEF Exchanged, ExchangedAt, Underway, AnswersNewer, Answered
    <3> QED
      BY <1>0, <2>1, <2>2, <3>1
  <2>3. CASE home[t] # Master
    BY <1>0, <2>1, <2>3
  <2> QED
    BY <2>2, <2>3
<1>2. ASSUME NEW n \in Nodes, PullWrite(n) PROVE RowAdvances
  BY <1>0, <1>2 DEF PullWrite, Bounded
<1>3. CASE UNCHANGED db
  BY <1>0, <1>3
<1>4. ASSUME NEW t \in Tasks, Step(t), ~Commit(t) PROVE UNCHANGED db
  BY <1>4 DEF Step, Refresh, StartRequest, CacheGet, LoadRow, CacheInsert, Answer, Rejected,
     StartSweep, TakeLock, ReadUnderLock, ServerAnswers, TransportError, Unreadable, Answering,
     CommitFails, Bump, Mark,
     MarkFails, Cancel, nodeVars, rowVars, cacheVars, pullVars, statusVars
<1>5. ASSUME NEW n \in Nodes,
             ReadForPoll(n) \/ PollUsage(n) \/ CacheExpire(n) \/ Crash(n) \/ PullFetch(n) \/ PullCompare(n)
      PROVE  UNCHANGED db
  BY <1>5 DEF ReadForPoll, PollUsage, CacheExpire, Crash, PullFetch, PullCompare, rowVars,
      cacheVars, pullVars, statusVars
<1>6. CASE (\E g \in Pairs : Expire(g)) \/ UNCHANGED vars
  BY <1>3, <1>6 DEF Expire, vars, nodeVars, rowVars, cacheVars, pullVars, statusVars
<1> QED
  BY <1>1, <1>2, <1>3, <1>4, <1>5, <1>6 DEF Next, Pull

\* No write of a rotation, however long it was retried and whatever was cancelled or crashed in
\* between, puts an older pair over a newer one in the master's store.
THEOREM RowNeverGoesBack == Spec => [][RowAdvances]_vars
<1>1. Init => MarkInv /\ AnswersNewer
  BY TypeInit, SingleFlightInit, MarkInit DEF MarkInv, Init, AnswersNewer
<1>2. (MarkInv /\ AnswersNewer) /\ [Next]_vars => (MarkInv /\ AnswersNewer)' /\ RowAdvances
  BY TypeNext, SingleFlightNext, MarkNext, AnswersNext, RowStep DEF MarkInv
<1> QED
  BY <1>1, <1>2, PTL DEF Spec
=============================================================================
