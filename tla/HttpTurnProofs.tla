--------------------------- MODULE HttpTurnProofs ---------------------------
(***************************************************************************)
(* What the turns of a conversation keep for every number of requests,     *)
(* accounts and responses, every budget and every length of a capacity     *)
(* wave.  A request touches its own frames, the session and the budget;    *)
(* the invariants of the others are disturbed through the session only,    *)
(* and one half of the argument is about the request that moved.  The last *)
(* part counts the steps a turn has left.                                  *)
(***************************************************************************)
EXTENDS HttpTurn, FiniteSetTheorems, TLAPS

\* Types of what a request carries, of its attempt, of its remedies, and of what requests share.
RequestTypes ==
    /\ pc \in [Requests -> Steps]
    /\ pin \in [Requests -> Accounts \cup {NoAccount}]
    /\ anchor \in [Requests -> Responses \cup {NoResponse}]
    /\ shape \in [Requests -> {"full", "tail"}]
    /\ said \in [Requests -> Responses \cup {NoResponse}]
AttemptTypes ==
    /\ acct \in [Requests -> Accounts \cup {NoAccount}]
    /\ body \in [Requests -> {"anchored", "plain"}]
    /\ kind \in [Requests -> {"completed", "recovered"}]
    /\ onErr \in [Requests -> Handlers]
    /\ tried \in [Requests -> SUBSET Accounts]
Flags == needs \in [Requests -> BOOLEAN] /\ capOnly \in [Requests -> BOOLEAN]
Counters ==
    /\ rung \in [Requests -> 0..2] /\ rides \in [Requests -> 0..MaxRides]
    /\ held \in [Requests -> Int] /\ consumed \in 0..Limit
Shared ==
    /\ owner \in Accounts \cup {NoAccount}
    /\ anchors \in [Responses -> Accounts \cup {NoAccount}]
    /\ maker \in [Responses -> Accounts \cup {NoAccount}]
Signs == sticky \in BOOLEAN /\ cold \in BOOLEAN

\* An attempt is made on an account.
Served == \A r \in Requests : pc[r] \in {"try", "sent", "stream", "ended"} => acct[r] \in Accounts

Busy(r) == pc[r] \in {"try", "sent"}

\* The ladder works on the pinned account; elsewhere an anchor is carried only by a turn without a pin.
Homed ==
    \A r \in Requests :
      /\ body[r] = "anchored" => anchor[r] # NoResponse
      /\ pc[r] = "idle" => body[r] = "plain"
      /\ Busy(r) /\ onErr[r] = "ladder" => pin[r] \in {NoAccount, acct[r]}
      /\ Busy(r) /\ onErr[r] # "ladder" => body[r] = "plain" \/ pin[r] = NoAccount
      /\ pc[r] \in {"starving", "wait"} => body[r] = "plain" \/ pin[r] = NoAccount

\* A tail has an anchor, and never enters the failover loop.
Tailed ==
    \A r \in Requests :
      /\ shape[r] = "tail" => anchor[r] # NoResponse
      /\ Busy(r) /\ onErr[r] = "loop" => shape[r] = "full"
      /\ pc[r] = "sleep" => shape[r] = "full"

\* The response a stream carried was made by its account.
Mapped ==
    /\ \A x \in Responses : anchors[x] \in {NoAccount, maker[x]}
    /\ \A r \in Requests :
         said[r] # NoResponse => pc[r] = "ended" /\ maker[said[r]] = acct[r]

\* An attempt without an anchor that may fail over; in the loop it has never had a pin to go back to.
MayFailOver(r) == onErr[r] = "loop" \/ (onErr[r] = "ladder" /\ anchor[r] = NoResponse)

\* What a request holds: nothing outside its attempts; one attempt for every account of a round that
\* met nothing but capacity; and before a refusal is handled at least one, but after a lost lease.
Books(r) ==
    /\ pc[r] \in {"idle", "route", "sleep", "stream", "ended"} => held[r] = 0
    /\ pc[r] \in {"starving", "wait"} => held[r] >= 0
    /\ pc[r] = "try" => onErr[r] = "last" \/ held[r] >= 0
    /\ pc[r] = "sent" => onErr[r] = "last" \/ held[r] >= 1
    /\ pc[r] = "try" /\ MayFailOver(r) /\ capOnly[r] => held[r] = Cardinality(tried[r])
    /\ pc[r] = "sent" /\ MayFailOver(r) /\ capOnly[r] => held[r] = Cardinality(tried[r]) + 1
    /\ Busy(r) => acct[r] \notin tried[r]
    /\ (Busy(r) /\ onErr[r] = "ladder") \/ pc[r] \in {"idle", "route", "sleep", "wait"} => tried[r] = {}
Ledger == \A r \in Requests : Books(r)

\* The books of a request that did not move stand.
BookVars(q) == <<pc[q], held[q], onErr[q], anchor[q], capOnly[q], tried[q], acct[q]>>
LEMMA BooksStand ==
    ASSUME NEW q \in Requests, Ledger, UNCHANGED BookVars(q) PROVE Books(q)'
  BY DEF Ledger, Books, Busy, MayFailOver, BookVars

\* The books of a request whose first attempt is planned.
LEMMA BooksOpen ==
    ASSUME NEW q \in Requests, pc'[q] = "try", tried'[q] = {}, held'[q] \in Nat,
           onErr'[q] \in {"ladder", "loop"} => held'[q] = 0
    PROVE  Books(q)'
  BY FS_EmptySet DEF Books, Busy, MayFailOver

\* The parts are the type invariant.
LEMMA TypeParts ==
    TypeOK <=> RequestTypes /\ AttemptTypes /\ Flags /\ Counters /\ Shared /\ Signs
  BY DEF TypeOK, RequestTypes, AttemptTypes, Flags, Counters, Shared, Signs

\* A round has refused one account more than it had tried.
LEMMA CountRefusers ==
    ASSUME TypeOK, NEW r \in Requests
    PROVE  /\ IsFiniteSet(tried[r]) /\ Cardinality(tried[r]) \in Nat
           /\ Cardinality(Refusers(r)) \in Nat
           /\ acct[r] \notin tried[r] => Cardinality(Refusers(r)) = Cardinality(tried[r]) + 1
<1>1. IsFiniteSet(tried[r])
  BY TurnConstants, FS_Subset DEF TypeOK
<1> QED
  BY <1>1, FS_AddElement, FS_CardinalityType, FS_Union, FS_Singleton DEF Refusers

\* Every step keeps the types.
LEMMA StepTypes == ASSUME TypeOK, Served, [Next]_vars PROVE TypeOK' /\ Served'
<1> DEFINE Typed == RequestTypes /\ AttemptTypes /\ Served /\ Flags /\ Counters /\ Shared /\ Signs
<1> SUFFICES ASSUME Typed PROVE Typed'
  BY DEF TypeOK, RequestTypes, AttemptTypes, Flags, Counters, Shared, Signs
<1> USE TurnConstants
    DEF RequestTypes, AttemptTypes, Served, Flags, Counters, Shared, Signs, Steps, Handlers,
        request, attempt, loop, session, budget, Goto, Answer, Plan, NoAttempt, KeepLoop, LeaveLoop,
        Steady, Allowed, Armed, Resendable, Verbatim, GiveBack, Refund, Settle, NewWindow
<1>1. ASSUME NEW r \in Requests, Begin(r) PROVE Typed'
  <2>1. Flags' /\ Signs' /\ Shared' /\ Counters' /\ AttemptTypes'
    BY <1>1 DEF Begin, Resolved, Issued
  <2>2. RequestTypes'
    BY <1>1 DEF Begin, Resolved, Issued
  <2>3. Served'
    BY <1>1 DEF Begin, Resolved, Issued
  <2> QED
    BY <2>1, <2>2, <2>3
<1>2. ASSUME NEW r \in Requests, RouteOwner(r) PROVE Typed'
  BY <1>2 DEF RouteOwner
<1>3. ASSUME NEW r \in Requests, RecoverElsewhere(r) PROVE Typed'
  BY <1>3 DEF RecoverElsewhere
<1>4. ASSUME NEW r \in Requests, Spill(r) PROVE Typed'
  BY <1>4 DEF Spill
<1>5. ASSUME NEW r \in Requests, SignalClient(r) PROVE Typed'
  BY <1>5 DEF SignalClient
<1>6. ASSUME NEW r \in Requests, Starve(r) PROVE Typed'
  BY <1>6 DEF Starve, StarvingBody
<1>7. ASSUME NEW r \in Requests, ServeSoonest(r) PROVE Typed'
  BY <1>7 DEF ServeSoonest
<1>8. ASSUME NEW r \in Requests, AwaitCooldown(r) PROVE Typed'
  BY <1>8 DEF AwaitCooldown
<1>9. ASSUME NEW r \in Requests, WakeUp(r) PROVE Typed'
  BY <1>9 DEF WakeUp
<1>10. ASSUME NEW r \in Requests, GiveUp(r) PROVE Typed'
  BY <1>10 DEF GiveUp
<1>11. ASSUME NEW r \in Requests, LocalRefusal(r) PROVE Typed'
  BY <1>11 DEF LocalRefusal
<1>12. ASSUME NEW r \in Requests, Send(r) PROVE Typed'
  <2>1. RequestTypes' /\ AttemptTypes' /\ Served' /\ Shared'
    BY <1>12 DEF Send, Consume
  <2>2. Flags' /\ Signs'
    BY <1>12 DEF Send, Consume
  <2>3. Counters'
    BY <1>12 DEF Send, Consume
  <2> QED
    BY <2>1, <2>2, <2>3
<1>13. ASSUME NEW r \in Requests, Exhausted(r) PROVE Typed'
  BY <1>13 DEF Exhausted
<1>14. ASSUME NEW r \in Requests, Streams(r) PROVE Typed'
  BY <1>14 DEF Streams
<1>15. ASSUME NEW r \in Requests, ResendAfterSilence(r) PROVE Typed'
  <2>1. RequestTypes' /\ AttemptTypes' /\ Served' /\ Shared'
    BY <1>15 DEF ResendAfterSilence, Consume
  <2>2. Flags' /\ Signs'
    BY <1>15 DEF ResendAfterSilence, Consume
  <2>3. Counters'
    BY <1>15 DEF ResendAfterSilence, Consume
  <2> QED
    BY <2>1, <2>2, <2>3
<1>16. ASSUME NEW r \in Requests, GiveUpAfterSilence(r) PROVE Typed'
  BY <1>16 DEF GiveUpAfterSilence
<1>17. ASSUME NEW r \in Requests, MoveForCapability(r) PROVE Typed'
  BY <1>17 DEF MoveForCapability
<1>18. ASSUME NEW r \in Requests, NoMoveForCapability(r) PROVE Typed'
  BY <1>18 DEF NoMoveForCapability
<1>19. ASSUME NEW r \in Requests, Knock(r) PROVE Typed'
  BY <1>19 DEF Knock
<1>20. ASSUME NEW r \in Requests, NobodyHome(r) PROVE Typed'
  BY <1>20 DEF NobodyHome
<1>21. ASSUME NEW r \in Requests, Sighted(r) PROVE Typed'
  <2>1. RequestTypes' /\ AttemptTypes' /\ Served' /\ Shared'
    BY <1>21 DEF Sighted
  <2>2. Flags' /\ Signs'
    BY <1>21 DEF Sighted
  <2>3. Counters'
    BY <1>21 DEF Sighted
  <2> QED
    BY <2>1, <2>2, <2>3
<1>22. ASSUME NEW r \in Requests, Recorded(r) PROVE Typed'
  BY <1>22 DEF Recorded
<1>23. ASSUME NEW r \in Requests, Broken(r) PROVE Typed'
  BY <1>23 DEF Broken
<1>24. ASSUME NEW r \in Requests, ClientGone(r) PROVE Typed'
  BY <1>24 DEF ClientGone
<1>25. ASSUME NEW r \in Requests, Rewrite(r) PROVE Typed'
  BY <1>25 DEF Rewrite, Laddered
<1>26. ASSUME NEW r \in Requests, RewriteUnleased(r) PROVE Typed'
  <2>1. CASE Resendable(r)
    BY <1>26, <2>1 DEF RewriteUnleased, Laddered
  <2>2. CASE ~Resendable(r)
    <3>1. Answer(r) /\ UNCHANGED session
      BY <1>26, <2>2 DEF RewriteUnleased, Laddered
    <3>2. Settle(r, 1)
      BY <1>26, <2>2 DEF RewriteUnleased, Laddered
    <3>3. RequestTypes' /\ AttemptTypes' /\ Served' /\ Shared'
      BY <3>1
    <3>4. Flags' /\ Signs'
      BY <3>1, <3>2
    <3>5. Counters'
      BY <3>1, <3>2
    <3> QED
      BY <3>3, <3>4, <3>5
  <2> QED
    BY <2>1, <2>2
<1>27. ASSUME NEW r \in Requests, Reauthorize(r) PROVE Typed'
  BY <1>27 DEF Reauthorize, Laddered
<1>28. ASSUME NEW r \in Requests, NotReauthorized(r) PROVE Typed'
  BY <1>28 DEF NotReauthorized
<1>29. ASSUME NEW r \in Requests, DropAnchor(r) PROVE Typed'
  BY <1>29 DEF DropAnchor, Laddered
<1>30. ASSUME NEW r \in Requests, NEW e \in Errors, Surface(r, e) PROVE Typed'
  <2>1. RequestTypes' /\ AttemptTypes' /\ Served' /\ Shared'
    BY <1>30 DEF Surface, GivenBack
  <2>2. Flags' /\ Signs'
    BY <1>30 DEF Surface, GivenBack
  <2>3. Counters'
    BY <1>30 DEF Surface, GivenBack
  <2> QED
    BY <2>1, <2>2, <2>3
<1>31. ASSUME NEW r \in Requests, NEW e \in Errors, StopFailover(r, e) PROVE Typed'
  <2> Cardinality(Refusers(r)) \in Nat
    BY CountRefusers
  <2>1. RequestTypes' /\ AttemptTypes' /\ Served' /\ Shared'
    BY <1>31 DEF StopFailover, GivenBack, Refusers
  <2>2. Flags' /\ Signs'
    BY <1>31 DEF StopFailover, GivenBack, Refusers
  <2>3. Counters'
    BY <1>31 DEF StopFailover, GivenBack, Refusers
  <2> QED
    BY <2>1, <2>2, <2>3
<1>32. ASSUME NEW r \in Requests, NEW e \in Errors, FailOver(r, e) PROVE Typed'
  <2> Cardinality(Refusers(r)) \in Nat
    BY CountRefusers
  <2>1. RequestTypes' /\ AttemptTypes' /\ Served' /\ Shared'
    BY <1>32 DEF FailOver, GivenBack, Refusers, FailsOver, StillCapacity
  <2>2. Flags' /\ Signs'
    BY <1>32 DEF FailOver, GivenBack, Refusers, FailsOver, StillCapacity
  <2>3. Counters'
    BY <1>32 DEF FailOver, GivenBack, Refusers, FailsOver, StillCapacity
  <2> QED
    BY <2>1, <2>2, <2>3
<1>33. ASSUME NEW r \in Requests, NEW e \in Errors, RunDry(r, e) PROVE Typed'
  <2> Cardinality(Refusers(r)) \in Nat
    BY CountRefusers
  <2>1. RequestTypes' /\ AttemptTypes' /\ Served' /\ Shared'
    BY <1>33 DEF RunDry, GivenBack, FailsOver, Refusers
  <2>2. Flags' /\ Signs'
    BY <1>33 DEF RunDry, GivenBack, FailsOver, Refusers
  <2>3. Counters'
    BY <1>33 DEF RunDry, GivenBack, FailsOver, Refusers
  <2> QED
    BY <2>1, <2>2, <2>3
<1>34. ASSUME NEW r \in Requests, NEW e \in Errors, RideOut(r, e) PROVE Typed'
  <2> Cardinality(Refusers(r)) \in Nat
    BY CountRefusers
  <2>1. RequestTypes' /\ AttemptTypes' /\ Served' /\ Shared'
    BY <1>34 DEF RideOut, Refusers
  <2>2. Flags' /\ Signs'
    BY <1>34 DEF RideOut, Refusers
  <2>3. Counters'
    BY <1>34 DEF RideOut, Refusers
  <2> QED
    BY <2>1, <2>2, <2>3
<1>35. ASSUME NEW r \in Requests, NEW e \in Errors, RefusedEverywhere(r, e) PROVE Typed'
  <2> Cardinality(Refusers(r)) \in Nat
    BY CountRefusers
  <2>1. RequestTypes' /\ AttemptTypes' /\ Served' /\ Shared'
    BY <1>35 DEF RefusedEverywhere, Refusers
  <2>2. Flags' /\ Signs'
    BY <1>35 DEF RefusedEverywhere, Refusers
  <2>3. Counters'
    BY <1>35 DEF RefusedEverywhere, Refusers
  <2> QED
    BY <2>1, <2>2, <2>3
<1>36. CASE CoolDown
  BY <1>36 DEF CoolDown
<1>37. CASE Expire
  <2>1. Flags' /\ Signs'
    BY <1>37 DEF Expire
  <2>2. Counters'
    BY <1>37 DEF Expire
  <2> QED
    BY <2>1, <2>2, <1>37 DEF Expire
<1>38. CASE UNCHANGED vars
  BY <1>38 DEF vars
<1> HIDE DEF Typed
<1> QED
  BY <1>1, <1>2, <1>3, <1>4, <1>5, <1>6, <1>7, <1>8, <1>9, <1>10, <1>11, <1>12, <1>13, <1>14, <1>15, <1>16, <1>17, <1>18, <1>19, <1>20, <1>21, <1>22, <1>23, <1>24, <1>25, <1>26, <1>27, <1>28, <1>29, <1>30, <1>31, <1>32, <1>33, <1>34, <1>35, <1>36, <1>37, <1>38 DEF Next, Work, Refused

Where == Homed /\ Tailed /\ FloorKept /\ Mapped

\* Every step keeps the places of attempts and anchors.
LEMMA StepWhere == ASSUME TypeOK, Served, Where, [Next]_vars PROVE Where'
<1> USE TurnConstants
    DEF TypeOK, Served, Where, Homed, Tailed, FloorKept, Mapped, Busy, Trying, Steps, Handlers,
        request, attempt, loop, session, budget, Goto, Answer, Plan, NoAttempt, KeepLoop, LeaveLoop,
        Steady, Allowed, Armed, Resendable, Verbatim
<1>1. ASSUME NEW r \in Requests, Begin(r) PROVE Where'
  BY <1>1 DEF Begin, Resolved, Issued
<1>2. ASSUME NEW r \in Requests, RouteOwner(r) PROVE Where'
  BY <1>2 DEF RouteOwner
<1>3. ASSUME NEW r \in Requests, RecoverElsewhere(r) PROVE Where'
  BY <1>3 DEF RecoverElsewhere
<1>4. ASSUME NEW r \in Requests, Spill(r) PROVE Where'
  BY <1>4 DEF Spill
<1>5. ASSUME NEW r \in Requests, SignalClient(r) PROVE Where'
  BY <1>5 DEF SignalClient
<1>6. ASSUME NEW r \in Requests, Starve(r) PROVE Where'
  BY <1>6 DEF Starve, StarvingBody
<1>7. ASSUME NEW r \in Requests, ServeSoonest(r) PROVE Where'
  BY <1>7 DEF ServeSoonest
<1>8. ASSUME NEW r \in Requests, AwaitCooldown(r) PROVE Where'
  BY <1>8 DEF AwaitCooldown
<1>9. ASSUME NEW r \in Requests, WakeUp(r) PROVE Where'
  BY <1>9 DEF WakeUp
<1>10. ASSUME NEW r \in Requests, GiveUp(r) PROVE Where'
  BY <1>10 DEF GiveUp
<1>11. ASSUME NEW r \in Requests, LocalRefusal(r) PROVE Where'
  BY <1>11 DEF LocalRefusal
<1>12. ASSUME NEW r \in Requests, Send(r) PROVE Where'
  BY <1>12 DEF Send
<1>13. ASSUME NEW r \in Requests, Exhausted(r) PROVE Where'
  BY <1>13 DEF Exhausted
<1>14. ASSUME NEW r \in Requests, Streams(r) PROVE Where'
  BY <1>14 DEF Streams
<1>15. ASSUME NEW r \in Requests, ResendAfterSilence(r) PROVE Where'
  BY <1>15 DEF ResendAfterSilence, Watched
<1>16. ASSUME NEW r \in Requests, GiveUpAfterSilence(r) PROVE Where'
  BY <1>16 DEF GiveUpAfterSilence, Watched
<1>17. ASSUME NEW r \in Requests, MoveForCapability(r) PROVE Where'
  BY <1>17 DEF MoveForCapability, Watched
<1>18. ASSUME NEW r \in Requests, NoMoveForCapability(r) PROVE Where'
  BY <1>18 DEF NoMoveForCapability, Watched
<1>19. ASSUME NEW r \in Requests, Knock(r) PROVE Where'
  BY <1>19 DEF Knock
<1>20. ASSUME NEW r \in Requests, NobodyHome(r) PROVE Where'
  BY <1>20 DEF NobodyHome
<1>21. ASSUME NEW r \in Requests, Sighted(r) PROVE Where'
  BY <1>21 DEF Sighted, Issued
<1>22. ASSUME NEW r \in Requests, Recorded(r) PROVE Where'
  BY <1>22 DEF Recorded, Claims
<1>23. ASSUME NEW r \in Requests, Broken(r) PROVE Where'
  BY <1>23 DEF Broken
<1>24. ASSUME NEW r \in Requests, ClientGone(r) PROVE Where'
  BY <1>24 DEF ClientGone
<1>25. ASSUME NEW r \in Requests, Rewrite(r) PROVE Where'
  BY <1>25 DEF Rewrite, Laddered
<1>26. ASSUME NEW r \in Requests, RewriteUnleased(r) PROVE Where'
  BY <1>26 DEF RewriteUnleased, Laddered
<1>27. ASSUME NEW r \in Requests, Reauthorize(r) PROVE Where'
  BY <1>27 DEF Reauthorize, Laddered
<1>28. ASSUME NEW r \in Requests, NotReauthorized(r) PROVE Where'
  BY <1>28 DEF NotReauthorized, Laddered
<1>29. ASSUME NEW r \in Requests, DropAnchor(r) PROVE Where'
  BY <1>29 DEF DropAnchor, Laddered
<1>30. ASSUME NEW r \in Requests, NEW e \in Errors, Surface(r, e) PROVE Where'
  BY <1>30 DEF Surface
<1>31. ASSUME NEW r \in Requests, NEW e \in Errors, StopFailover(r, e) PROVE Where'
  BY <1>31 DEF StopFailover
<1>32. ASSUME NEW r \in Requests, NEW e \in Errors, FailOver(r, e) PROVE Where'
  BY <1>32 DEF FailOver, FailsOver, Refusers
<1>33. ASSUME NEW r \in Requests, NEW e \in Errors, RunDry(r, e) PROVE Where'
  BY <1>33 DEF RunDry, FailsOver
<1>34. ASSUME NEW r \in Requests, NEW e \in Errors, RideOut(r, e) PROVE Where'
  BY <1>34 DEF RideOut, FailsOver
<1>35. ASSUME NEW r \in Requests, NEW e \in Errors, RefusedEverywhere(r, e) PROVE Where'
  BY <1>35 DEF RefusedEverywhere
<1>36. CASE CoolDown
  BY <1>36 DEF CoolDown
<1>37. CASE Expire
  BY <1>37 DEF Expire
<1>38. CASE UNCHANGED vars
  BY <1>38 DEF vars
<1> HIDE DEF Where
<1> QED
  BY <1>1, <1>2, <1>3, <1>4, <1>5, <1>6, <1>7, <1>8, <1>9, <1>10, <1>11, <1>12, <1>13, <1>14, <1>15, <1>16, <1>17, <1>18, <1>19, <1>20, <1>21, <1>22, <1>23, <1>24, <1>25, <1>26, <1>27, <1>28, <1>29, <1>30, <1>31, <1>32, <1>33, <1>34, <1>35, <1>36, <1>37, <1>38 DEF Next, Work, Refused

\* Every step keeps the ledger.
LEMMA StepLedger == ASSUME TypeOK, Served, Homed, Ledger, [Next]_vars PROVE Ledger'
<1>0. \A r \in Requests :
        /\ Cardinality({}) = 0 /\ Cardinality(tried[r]) \in Nat
        /\ Cardinality(Refusers(r)) \in Nat
        /\ acct[r] \notin tried[r] => Cardinality(Refusers(r)) = Cardinality(tried[r]) + 1
  BY CountRefusers, FS_EmptySet
<1> USE TurnConstants
    DEF TypeOK, Served, Homed, Ledger, Books, Busy, MayFailOver, Steps, Handlers,
        request, attempt, loop, session, budget, Goto, Answer, Plan, NoAttempt, KeepLoop, LeaveLoop,
        Steady, Allowed, Armed, Resendable, Verbatim, Consume, Refund, Settle
<1>1. ASSUME NEW r \in Requests, Begin(r) PROVE Ledger'
  BY <1>0, <1>1 DEF Begin, Resolved, Issued
<1>2. ASSUME NEW r \in Requests, RouteOwner(r) PROVE Ledger'
  <2>1. PICK a \in Allowed(r) : Plan(r, a, Verbatim(r), "completed", "ladder")
    BY <1>2 DEF RouteOwner
  <2>2. pc[r] = "route" /\ KeepLoop /\ Steady /\ UNCHANGED budget
    BY <1>2 DEF RouteOwner
  <2>3. ASSUME NEW q \in Requests, q # r PROVE UNCHANGED BookVars(q)
    BY <2>1, <2>2, <2>3 DEF BookVars
  <2>4. pc'[r] = "try" /\ tried'[r] = {} /\ held'[r] \in Nat
        /\ (onErr'[r] \in {"ladder", "loop"} => held'[r] = 0)
    BY <2>1, <2>2
  <2> QED
    BY <2>3, <2>4, BooksStand, BooksOpen
<1>3. ASSUME NEW r \in Requests, RecoverElsewhere(r) PROVE Ledger'
  <2>1. PICK a \in Allowed(r) : Plan(r, a, "plain", "recovered", "loop")
    BY <1>3 DEF RecoverElsewhere
  <2>2. pc[r] = "route" /\ KeepLoop /\ Steady /\ UNCHANGED budget
    BY <1>3 DEF RecoverElsewhere
  <2>3. ASSUME NEW q \in Requests, q # r PROVE UNCHANGED BookVars(q)
    BY <2>1, <2>2, <2>3 DEF BookVars
  <2>4. pc'[r] = "try" /\ tried'[r] = {} /\ held'[r] \in Nat
        /\ (onErr'[r] \in {"ladder", "loop"} => held'[r] = 0)
    BY <2>1, <2>2
  <2> QED
    BY <2>3, <2>4, BooksStand, BooksOpen
<1>4. ASSUME NEW r \in Requests, Spill(r) PROVE Ledger'
  <2>1. PICK a \in Allowed(r) : Plan(r, a, "plain", "completed", "loop")
    BY <1>4 DEF Spill
  <2>2. pc[r] = "route" /\ KeepLoop /\ Steady /\ UNCHANGED budget
    BY <1>4 DEF Spill
  <2>3. ASSUME NEW q \in Requests, q # r PROVE UNCHANGED BookVars(q)
    BY <2>1, <2>2, <2>3 DEF BookVars
  <2>4. pc'[r] = "try" /\ tried'[r] = {} /\ held'[r] \in Nat
        /\ (onErr'[r] \in {"ladder", "loop"} => held'[r] = 0)
    BY <2>1, <2>2
  <2> QED
    BY <2>3, <2>4, BooksStand, BooksOpen
<1>5. ASSUME NEW r \in Requests, SignalClient(r) PROVE Ledger'
  BY <1>0, <1>5 DEF SignalClient
<1>6. ASSUME NEW r \in Requests, Starve(r) PROVE Ledger'
  BY <1>0, <1>6 DEF Starve, StarvingBody
<1>7. ASSUME NEW r \in Requests, ServeSoonest(r) PROVE Ledger'
  BY <1>0, <1>7 DEF ServeSoonest
<1>8. ASSUME NEW r \in Requests, AwaitCooldown(r) PROVE Ledger'
  BY <1>0, <1>8 DEF AwaitCooldown
<1>9. ASSUME NEW r \in Requests, WakeUp(r) PROVE Ledger'
  <2>1. PICK a \in Allowed(r) : Plan(r, a, body[r], "recovered", "surface")
    BY <1>9 DEF WakeUp
  <2>2. pc[r] = "wait" /\ KeepLoop /\ Steady /\ UNCHANGED budget
    BY <1>9 DEF WakeUp
  <2>3. ASSUME NEW q \in Requests, q # r PROVE UNCHANGED BookVars(q)
    BY <2>1, <2>2, <2>3 DEF BookVars
  <2>4. pc'[r] = "try" /\ tried'[r] = {} /\ held'[r] \in Nat
        /\ (onErr'[r] \in {"ladder", "loop"} => held'[r] = 0)
    BY <2>1, <2>2
  <2> QED
    BY <2>3, <2>4, BooksStand, BooksOpen
<1>10. ASSUME NEW r \in Requests, GiveUp(r) PROVE Ledger'
  BY <1>0, <1>10 DEF GiveUp
<1>11. ASSUME NEW r \in Requests, LocalRefusal(r) PROVE Ledger'
  BY <1>0, <1>11 DEF LocalRefusal
<1>12. ASSUME NEW r \in Requests, Send(r) PROVE Ledger'
  BY <1>0, <1>12 DEF Send
<1>13. ASSUME NEW r \in Requests, Exhausted(r) PROVE Ledger'
  BY <1>0, <1>13 DEF Exhausted
<1>14. ASSUME NEW r \in Requests, Streams(r) PROVE Ledger'
  BY <1>0, <1>14 DEF Streams
<1>15. ASSUME NEW r \in Requests, ResendAfterSilence(r) PROVE Ledger'
  BY <1>0, <1>15 DEF ResendAfterSilence, Watched
<1>16. ASSUME NEW r \in Requests, GiveUpAfterSilence(r) PROVE Ledger'
  BY <1>0, <1>16 DEF GiveUpAfterSilence, Watched
<1>17. ASSUME NEW r \in Requests, MoveForCapability(r) PROVE Ledger'
  BY <1>0, <1>17 DEF MoveForCapability, Watched
<1>18. ASSUME NEW r \in Requests, NoMoveForCapability(r) PROVE Ledger'
  BY <1>0, <1>18 DEF NoMoveForCapability, Watched
<1>19. ASSUME NEW r \in Requests, Knock(r) PROVE Ledger'
  <2>1. PICK a \in Allowed(r) : Plan(r, a, "plain", "recovered", "loop")
    BY <1>19 DEF Knock
  <2>2. pc[r] = "sleep" /\ KeepLoop /\ Steady /\ UNCHANGED budget
    BY <1>19 DEF Knock
  <2>3. ASSUME NEW q \in Requests, q # r PROVE UNCHANGED BookVars(q)
    BY <2>1, <2>2, <2>3 DEF BookVars
  <2>4. pc'[r] = "try" /\ tried'[r] = {} /\ held'[r] \in Nat
        /\ (onErr'[r] \in {"ladder", "loop"} => held'[r] = 0)
    BY <2>1, <2>2
  <2> QED
    BY <2>3, <2>4, BooksStand, BooksOpen
<1>20. ASSUME NEW r \in Requests, NobodyHome(r) PROVE Ledger'
  BY <1>0, <1>20 DEF NobodyHome
<1>21. ASSUME NEW r \in Requests, Sighted(r) PROVE Ledger'
  BY <1>0, <1>21 DEF Sighted, Issued
<1>22. ASSUME NEW r \in Requests, Recorded(r) PROVE Ledger'
  BY <1>0, <1>22 DEF Recorded, Claims
<1>23. ASSUME NEW r \in Requests, Broken(r) PROVE Ledger'
  BY <1>0, <1>23 DEF Broken
<1>24. ASSUME NEW r \in Requests, ClientGone(r) PROVE Ledger'
  BY <1>0, <1>24 DEF ClientGone
<1>25. ASSUME NEW r \in Requests, Rewrite(r) PROVE Ledger'
  BY <1>0, <1>25 DEF Rewrite, Laddered
<1>26. ASSUME NEW r \in Requests, RewriteUnleased(r) PROVE Ledger'
  BY <1>0, <1>26 DEF RewriteUnleased, Laddered
<1>27. ASSUME NEW r \in Requests, Reauthorize(r) PROVE Ledger'
  BY <1>0, <1>27 DEF Reauthorize, Laddered
<1>28. ASSUME NEW r \in Requests, NotReauthorized(r) PROVE Ledger'
  BY <1>0, <1>28 DEF NotReauthorized, Laddered
<1>29. ASSUME NEW r \in Requests, DropAnchor(r) PROVE Ledger'
  BY <1>0, <1>29 DEF DropAnchor, Laddered
<1>30. ASSUME NEW r \in Requests, NEW e \in Errors, Surface(r, e) PROVE Ledger'
  BY <1>0, <1>30 DEF Surface
<1>31. ASSUME NEW r \in Requests, NEW e \in Errors, StopFailover(r, e) PROVE Ledger'
  BY <1>0, <1>31 DEF StopFailover
<1>32. ASSUME NEW r \in Requests, NEW e \in Errors, FailOver(r, e) PROVE Ledger'
  <2>1. PICK a \in Allowed(r) \ Refusers(r) : Plan(r, a, "plain", "recovered", "loop")
    BY <1>32 DEF FailOver
  <2>2. /\ FailsOver(r) /\ tried' = [tried EXCEPT ![r] = Refusers(r)]
        /\ capOnly' = [capOnly EXCEPT ![r] = StillCapacity(r, e)] /\ Steady
    BY <1>32 DEF FailOver
  <2>3. ASSUME NEW q \in Requests, q # r PROVE Books(q)'
    <3>1. UNCHANGED BookVars(q)
      BY <1>32, <2>1, <2>2, <2>3 DEF FailOver, BookVars
    <3> QED
      BY <3>1, BooksStand
  <2>4. held[r] >= 1 /\ (capOnly[r] => held[r] = Cardinality(tried[r]) + 1) /\ acct[r] \notin tried[r]
    BY <2>2 DEF FailsOver
  <2>5. held'[r] = held[r] - GivenBack(r, e)
    BY <1>32 DEF FailOver
  <2>6. held'[r] >= 0 /\ (StillCapacity(r, e) => held'[r] = Cardinality(tried[r]) + 1)
    BY <2>4, <2>5 DEF GivenBack, StillCapacity
  <2>7. Books(r)'
    BY <1>0, <2>1, <2>2, <2>4, <2>6 DEF Refusers
  <2> QED
    BY <2>3, <2>7
<1>33. ASSUME NEW r \in Requests, NEW e \in Errors, RunDry(r, e) PROVE Ledger'
  BY <1>0, <1>33 DEF RunDry, FailsOver, GivenBack, Laddered, StillCapacity, Retryable
<1>34. ASSUME NEW r \in Requests, NEW e \in Errors, RideOut(r, e) PROVE Ledger'
  BY <1>0, <1>34 DEF RideOut, FailsOver, StillCapacity, Retryable
<1>35. ASSUME NEW r \in Requests, NEW e \in Errors, RefusedEverywhere(r, e) PROVE Ledger'
  BY <1>0, <1>35 DEF RefusedEverywhere
<1>36. CASE CoolDown
  BY <1>36 DEF CoolDown
<1>37. CASE Expire
  BY <1>37 DEF Expire
<1>38. CASE UNCHANGED vars
  BY <1>38 DEF vars
<1> HIDE DEF Ledger
<1> QED
  BY <1>1, <1>2, <1>3, <1>4, <1>5, <1>6, <1>7, <1>8, <1>9, <1>10, <1>11, <1>12, <1>13, <1>14, <1>15, <1>16, <1>17, <1>18, <1>19, <1>20, <1>21, <1>22, <1>23, <1>24, <1>25, <1>26, <1>27, <1>28, <1>29, <1>30, <1>31, <1>32, <1>33, <1>34, <1>35, <1>36, <1>37, <1>38 DEF Next, Work, Refused

\* The inductive invariant.
TurnInv == TypeOK /\ Served /\ Where /\ Ledger

\* A server that has just started satisfies it.
LEMMA InitTurn == Init => TurnInv
<1> SUFFICES ASSUME Init PROVE TurnInv
  OBVIOUS
<1> USE TurnConstants DEF Init
<1>1. TypeOK /\ Served
  <2>1. RequestTypes /\ AttemptTypes /\ Shared /\ Served
    BY DEF RequestTypes, AttemptTypes, Shared, Served, Steps, Handlers
  <2>2. Flags /\ Signs
    BY DEF Flags, Signs
  <2>3. Counters
    BY DEF Counters
  <2> QED
    BY <2>1, <2>2, <2>3, TypeParts
<1>2. Where
  BY DEF Where, Homed, Tailed, FloorKept, Mapped, Busy, Trying
<1>3. Ledger
  BY DEF Ledger, Books, Busy
<1> QED
  BY <1>1, <1>2, <1>3 DEF TurnInv

\* Every behaviour keeps it.
THEOREM TurnInvariant == Spec => []TurnInv
<1>1. TurnInv /\ [Next]_vars => TurnInv'
  BY StepTypes, StepWhere, StepLedger DEF TurnInv, Where
<1> QED
  BY InitTurn, <1>1, PTL DEF Spec

-----------------------------------------------------------------------------
\* Types: what requests, the session and the budget hold.
THEOREM TypeCorrect == Spec => []TypeOK
  BY TurnInvariant, PTL DEF TurnInv

\* The anchor map is right about who made a response, and anchors go nowhere but to the pin.
THEOREM AnchorsStay == Spec => []AnchorStaysHome
<1>1. TurnInv => AnchorStaysHome
  BY DEF TurnInv, Where, Homed, Mapped, AnchorStaysHome, Trying, Busy
<1> QED
  BY <1>1, TurnInvariant, PTL

\* Security work is tried on authorized accounts only, by every way an account is picked.
THEOREM FloorHolds == Spec => []FloorKept
  BY TurnInvariant, PTL DEF TurnInv, Where

\* A request gives back no attempt it did not make, and a capacity wave costs nothing.
THEOREM RefundsBalance == Spec => []RefundsItsOwn
<1>1. TurnInv => RefundsItsOwn
  <2> SUFFICES ASSUME TurnInv, NEW r \in Requests
               PROVE  (held[r] >= 0 \/ onErr[r] = "last") /\ (pc[r] = "sleep" => held[r] = 0)
    BY DEF RefundsItsOwn
  <2> QED
    BY DEF TurnInv, TypeOK, Steps, Ledger, Books
<1> QED
  BY <1>1, TurnInvariant, PTL

\* Whatever ends in whatever order, the session points at an account with a recorded response.
THEOREM OwnerHolds == Spec => []OwnerHoldsSome
<1> DEFINE OwnerInv == TurnInv /\ OwnerHoldsSome
<1>1. Init => OwnerInv
  BY InitTurn DEF Init, OwnerHoldsSome
<1>2. OwnerInv /\ TurnInv' /\ [Next]_vars => OwnerHoldsSome'
  <2> SUFFICES ASSUME OwnerInv, TurnInv', [Next]_vars PROVE OwnerHoldsSome'
    OBVIOUS
  <2>1. CASE \E r \in Requests : Recorded(r)
    <3>1. PICK r \in Requests : Recorded(r)
      BY <2>1
    <3>2. CASE said[r] = NoResponse
      BY <3>1, <3>2 DEF Recorded, OwnerHoldsSome
    <3>3. CASE said[r] # NoResponse
      <4>1. said[r] \in Responses /\ maker[said[r]] = acct[r]
            /\ anchors[said[r]] \in {NoAccount, acct[r]}
        BY <3>3 DEF TurnInv, TypeOK, Where, Mapped
      <4>2. /\ owner' \in {owner, acct[r]}
            /\ anchors' = [anchors EXCEPT ![said[r]] = acct[r]]
        BY <3>1, <3>3 DEF Recorded
      <4>3. anchors \in [Responses -> Accounts \cup {NoAccount}]
        BY DEF TurnInv, TypeOK
      <4>4. CASE owner' = acct[r]
        BY <4>1, <4>2, <4>3, <4>4 DEF OwnerHoldsSome
      <4>5. CASE owner' = owner /\ owner # NoAccount
        BY <4>1, <4>2, <4>3, <4>5 DEF OwnerHoldsSome
      <4> QED
        BY <4>2, <4>4, <4>5 DEF OwnerHoldsSome
    <3> QED
      BY <3>2, <3>3
  <2>2. CASE ~\E r \in Requests : Recorded(r)
    <3>1. UNCHANGED <<owner, anchors>>
      BY <2>2 DEF Next, Work, Refused, Begin, RouteOwner, RecoverElsewhere, Spill, SignalClient,
                  Starve, ServeSoonest, AwaitCooldown, WakeUp, GiveUp, LocalRefusal, Send, Exhausted,
                  Streams, ResendAfterSilence, GiveUpAfterSilence, MoveForCapability,
                  NoMoveForCapability, Knock, NobodyHome, Sighted, Broken, ClientGone, Rewrite,
                  RewriteUnleased, Reauthorize, NotReauthorized, DropAnchor, Surface, StopFailover,
                  FailOver, RunDry, RideOut, RefusedEverywhere, CoolDown, Expire, Steady, session, vars
    <3> QED
      BY <3>1 DEF OwnerHoldsSome
  <2> QED
    BY <2>1, <2>2
<1>3. OwnerInv /\ [Next]_vars => OwnerInv'
  BY <1>2, StepTypes, StepWhere, StepLedger DEF TurnInv, Where
<1> QED
  BY <1>1, <1>3, PTL DEF Spec

\* A turn that is only a tail is tried on one account.
THEOREM TailsStay == Spec => TailStaysPut
<1> DEFINE Stays(q) == Trying(q) /\ shape[q] = "tail" /\ Trying(q)' => acct'[q] = acct[q]
<1>1. ASSUME TurnInv, Next, NEW q \in Requests PROVE Stays(q)
  <2>0. /\ pc \in [Requests -> Steps] /\ acct \in [Requests -> Accounts \cup {NoAccount}]
        /\ shape[q] = "tail" => anchor[q] # NoResponse
        /\ Busy(q) /\ onErr[q] = "loop" => shape[q] = "full"
        /\ pc[q] = "sleep" => shape[q] = "full"
    BY <1>1 DEF TurnInv, TypeOK, Where, Tailed
  <2> USE <2>0 DEF Busy, Trying, Goto, Answer, Plan, NoAttempt, attempt, Armed, Resendable
  <2>1. ASSUME NEW r \in Requests,
                     \/ Begin(r) \/ RouteOwner(r) \/ RecoverElsewhere(r) \/ Spill(r)
                     \/ SignalClient(r) \/ Starve(r)
       PROVE  Stays(q)
    BY <2>1 DEF Begin, RouteOwner, RecoverElsewhere, Spill, SignalClient, Starve
  <2>2. ASSUME NEW r \in Requests,
                     \/ ServeSoonest(r) \/ AwaitCooldown(r) \/ WakeUp(r) \/ GiveUp(r)
                     \/ Knock(r) \/ NobodyHome(r)
       PROVE  Stays(q)
    BY <2>2 DEF ServeSoonest, AwaitCooldown, WakeUp, GiveUp, Knock, NobodyHome
  <2>3. ASSUME NEW r \in Requests,
                     \/ LocalRefusal(r) \/ Send(r) \/ Exhausted(r) \/ Streams(r)
                     \/ Sighted(r) \/ Recorded(r) \/ Broken(r) \/ ClientGone(r)
       PROVE  Stays(q)
    BY <2>3 DEF LocalRefusal, Send, Exhausted, Streams, Sighted, Recorded, Broken, ClientGone
  <2>4. ASSUME NEW r \in Requests,
                     \/ ResendAfterSilence(r) \/ GiveUpAfterSilence(r) \/ MoveForCapability(r) \/ NoMoveForCapability(r)
       PROVE  Stays(q)
    BY <2>4 DEF ResendAfterSilence, GiveUpAfterSilence, MoveForCapability, NoMoveForCapability, Watched
  <2>5. ASSUME NEW r \in Requests,
                     \/ Rewrite(r) \/ RewriteUnleased(r) \/ Reauthorize(r) \/ NotReauthorized(r)
                     \/ DropAnchor(r)
       PROVE  Stays(q)
    BY <2>5 DEF Rewrite, RewriteUnleased, Reauthorize, NotReauthorized, DropAnchor, Laddered
  <2>6. ASSUME NEW r \in Requests, NEW e \in Errors,
                     \/ Surface(r, e) \/ StopFailover(r, e) \/ FailOver(r, e)
                     \/ RunDry(r, e) \/ RideOut(r, e) \/ RefusedEverywhere(r, e)
       PROVE  Stays(q)
    BY <2>6 DEF Surface, StopFailover, FailOver, RunDry, RideOut, RefusedEverywhere, FailsOver
  <2>7. CASE CoolDown \/ Expire
    BY <2>7 DEF CoolDown, Expire
  <2> HIDE DEF Stays
  <2> QED
    BY <1>1, <2>1, <2>2, <2>3, <2>4, <2>5, <2>6, <2>7 DEF Next, Work, Refused
<1>2. TurnInv /\ [Next]_vars => [\A r \in Requests : Stays(r)]_vars
  BY <1>1
<1> QED
  BY <1>2, TurnInvariant, PTL DEF Spec, TailStaysPut

-----------------------------------------------------------------------------
(***************************************************************************)
(* Why a turn ends.  Nothing a turn does brings it back to where it was:   *)
(* a wave of capacity refusals costs one of MaxRides, a refusal in a round *)
(* an account, a remedy of the ladder a rung, a silence its anchor.  So    *)
(* what is left of a turn can be counted in steps of its own, before they  *)
(* are taken, whatever the other requests, the clock and the upstream do.  *)
(***************************************************************************)

\* The steps of the waves that still fit, and of the round under way.
Waves(r) == (MaxRides - rides[r]) * (2 * Limit + 1)
Round(r) == 2 * (Limit - Cardinality(tried[r]))

\* The most steps a turn can take from where it is.
StepsLeft(r) ==
    CASE pc[r] = "idle" -> 0
      [] pc[r] = "ended" -> 1
      [] pc[r] = "stream" -> 2
      [] Busy(r) /\ onErr[r] \notin {"ladder", "loop"} -> IF pc[r] = "try" THEN 4 ELSE 3
      [] pc[r] = "wait" -> 5
      [] pc[r] = "starving" -> 6
      [] Busy(r) /\ onErr[r] = "loop" -> Waves(r) + Round(r) + (IF pc[r] = "try" THEN 6 ELSE 5)
      [] pc[r] = "sleep" -> Waves(r) + 2 * Limit + 7
      [] Busy(r) /\ onErr[r] = "ladder" ->
           Waves(r) + 2 * Limit + 14 - 3 * rung[r]
             + (IF pc[r] = "try" THEN 2 ELSE IF body[r] = "anchored" THEN 1 ELSE 0)
      [] pc[r] = "route" -> Waves(r) + 2 * Limit + 17

\* The most steps a turn can take at all.
TurnSteps == MaxRides * (2 * Limit + 1) + 2 * Limit + 17

\* A round tries fewer accounts than the budget allows before the one it is trying.
RoundFits == \A r \in Requests : Cardinality(tried[r]) < Limit

\* Every step keeps it: only a refusal with attempts left adds to a round.
LEMMA StepRound == ASSUME TurnInv, RoundFits, [Next]_vars PROVE RoundFits'
<1> DEFINE Moves(q) == \/ tried'[q] \in {tried[q], {}}
                       \/ AttemptsLeft(q) /\ tried'[q] = Refusers(q)
<1>1. ASSUME NEW q \in Requests PROVE Moves(q)
  <2>0. tried \in [Requests -> SUBSET Accounts]
    BY DEF TurnInv, TypeOK
  <2> USE <2>0 DEF Answer, LeaveLoop, KeepLoop, loop
  <2>1. ASSUME NEW r \in Requests,
                     \/ Begin(r) \/ RouteOwner(r) \/ RecoverElsewhere(r) \/ Spill(r)
                     \/ SignalClient(r) \/ Starve(r)
       PROVE  Moves(q)
    BY <2>1 DEF Begin, RouteOwner, RecoverElsewhere, Spill, SignalClient, Starve
  <2>2. ASSUME NEW r \in Requests,
                     \/ ServeSoonest(r) \/ AwaitCooldown(r) \/ WakeUp(r) \/ GiveUp(r)
                     \/ Knock(r) \/ NobodyHome(r)
       PROVE  Moves(q)
    BY <2>2 DEF ServeSoonest, AwaitCooldown, WakeUp, GiveUp, Knock, NobodyHome
  <2>3. ASSUME NEW r \in Requests,
                     \/ LocalRefusal(r) \/ Send(r) \/ Exhausted(r) \/ Streams(r)
                     \/ Sighted(r) \/ Recorded(r) \/ Broken(r) \/ ClientGone(r)
       PROVE  Moves(q)
    BY <2>3 DEF LocalRefusal, Send, Exhausted, Streams, Sighted, Recorded, Broken, ClientGone
  <2>4. ASSUME NEW r \in Requests,
                     \/ ResendAfterSilence(r) \/ GiveUpAfterSilence(r) \/ MoveForCapability(r)
                     \/ NoMoveForCapability(r)
       PROVE  Moves(q)
    BY <2>4 DEF ResendAfterSilence, GiveUpAfterSilence, MoveForCapability, NoMoveForCapability
  <2>5. ASSUME NEW r \in Requests,
                     \/ Rewrite(r) \/ RewriteUnleased(r) \/ Reauthorize(r) \/ NotReauthorized(r)
                     \/ DropAnchor(r)
       PROVE  Moves(q)
    BY <2>5 DEF Rewrite, RewriteUnleased, Reauthorize, NotReauthorized, DropAnchor
  <2>6. ASSUME NEW r \in Requests, NEW e \in Errors,
                     \/ Surface(r, e) \/ StopFailover(r, e) \/ FailOver(r, e)
                     \/ RunDry(r, e) \/ RideOut(r, e) \/ RefusedEverywhere(r, e)
       PROVE  Moves(q)
    <3>1. \/ tried' = [tried EXCEPT ![r] = {}]
          \/ AttemptsLeft(r) /\ tried' = [tried EXCEPT ![r] = Refusers(r)]
      BY <2>6 DEF Surface, StopFailover, FailOver, RunDry, RideOut, RefusedEverywhere
    <3> QED
      BY <3>1, Zenon
  <2>7. CASE CoolDown \/ Expire \/ UNCHANGED vars
    BY <2>7 DEF CoolDown, Expire, vars
  <2> HIDE DEF Moves
  <2> QED
    BY <2>1, <2>2, <2>3, <2>4, <2>5, <2>6, <2>7 DEF Next, Work, Refused
<1>2. ASSUME NEW q \in Requests PROVE Cardinality(tried'[q]) < Limit
  <2>1. TypeOK /\ Limit \in Nat \ {0} /\ Cardinality(tried[q]) < Limit
    BY TurnConstants DEF TurnInv, RoundFits
  <2>2. CASE tried'[q] \in {tried[q], {}}
    BY <2>1, <2>2, FS_EmptySet
  <2>3. CASE AttemptsLeft(q) /\ tried'[q] = Refusers(q)
    <3>1. /\ IsFiniteSet(tried[q]) /\ Cardinality(tried[q]) \in Nat
      BY <2>1, CountRefusers
    <3>2. Cardinality(Refusers(q)) \in {Cardinality(tried[q]), Cardinality(tried[q]) + 1}
      BY <3>1, FS_AddElement DEF Refusers
    <3> QED
      BY <2>1, <2>3, <3>1, <3>2 DEF AttemptsLeft
  <2> QED
    BY <1>1, <2>2, <2>3
<1> QED
  BY <1>2 DEF RoundFits

\* A product of naturals, and what one factor less takes off it.
LEMMA Product ==
    ASSUME NEW m \in Nat, NEW k \in Nat, NEW w \in Nat, k <= m
    PROVE  /\ (m - k) * w \in Nat /\ (m - k) * w <= m * w /\ m * w \in Nat
           /\ (m - (k + 1)) * w = (m - k) * w - w
  OBVIOUS

\* Where a turn is says what is left of it.
Charted(r) ==
    /\ Waves(r) \in 0..MaxRides * (2 * Limit + 1)
    /\ Round(r) \in 2..2 * Limit
    /\ pc[r] = "idle" => StepsLeft(r) = 0
    /\ pc[r] = "ended" => StepsLeft(r) = 1
    /\ pc[r] = "stream" => StepsLeft(r) = 2
    /\ pc[r] = "wait" => StepsLeft(r) = 5
    /\ pc[r] = "starving" => StepsLeft(r) = 6
    /\ pc[r] = "sleep" => StepsLeft(r) = Waves(r) + 2 * Limit + 7
    /\ pc[r] = "route" => StepsLeft(r) = Waves(r) + 2 * Limit + 17
    /\ pc[r] = "try" /\ onErr[r] \notin {"ladder", "loop"} => StepsLeft(r) = 4
    /\ pc[r] = "sent" /\ onErr[r] \notin {"ladder", "loop"} => StepsLeft(r) = 3
    /\ pc[r] = "try" /\ onErr[r] = "loop" => StepsLeft(r) = Waves(r) + Round(r) + 6
    /\ pc[r] = "sent" /\ onErr[r] = "loop" => StepsLeft(r) = Waves(r) + Round(r) + 5
    /\ pc[r] = "try" /\ onErr[r] = "ladder"
         => StepsLeft(r) = Waves(r) + 2 * Limit + 16 - 3 * rung[r]
    /\ pc[r] = "sent" /\ onErr[r] = "ladder" /\ body[r] = "anchored"
         => StepsLeft(r) = Waves(r) + 2 * Limit + 15 - 3 * rung[r]
    /\ pc[r] = "sent" /\ onErr[r] = "ladder" /\ body[r] = "plain"
         => StepsLeft(r) = Waves(r) + 2 * Limit + 14 - 3 * rung[r]

\* The chart is the definition.
LEMMA Chart == ASSUME TypeOK, RoundFits, NEW r \in Requests PROVE Charted(r)
<1>1. /\ pc[r] \in Steps /\ body[r] \in {"anchored", "plain"} /\ onErr[r] \in Handlers
      /\ rides[r] \in 0..MaxRides /\ rung[r] \in 0..2
  BY DEF TypeOK
<1>2. Limit \in Nat \ {0} /\ MaxRides \in Nat
  BY TurnConstants
<1>3. Waves(r) \in 0..MaxRides * (2 * Limit + 1)
  <2>1. rides[r] \in Nat /\ rides[r] <= MaxRides /\ 2 * Limit + 1 \in Nat
    BY <1>1, <1>2
  <2> DEFINE w == 2 * Limit + 1
  <2>2. /\ (MaxRides - rides[r]) * w \in Nat /\ (MaxRides - rides[r]) * w <= MaxRides * w
        /\ MaxRides * w \in Nat
    BY <1>2, <2>1, Product
  <2> QED
    BY <2>2 DEF Waves
<1>4. Round(r) \in 2..2 * Limit
  <2>1. Cardinality(tried[r]) \in Nat /\ Cardinality(tried[r]) < Limit
    BY CountRefusers DEF RoundFits
  <2> QED
    BY <1>2, <2>1 DEF Round
<1>5. Waves(r) \in Int /\ Round(r) \in Int
  BY <1>3, <1>4
<1> HIDE DEF Waves, Round
<1>6. CASE pc[r] = "try"
  <2>1. CASE onErr[r] \notin {"ladder", "loop"}
    <3>1. StepsLeft(r) = 4
      BY <1>6, <2>1 DEF StepsLeft, Busy
    <3> QED
      BY <1>3, <1>4, <1>6, <2>1, <3>1 DEF Charted
  <2>2. CASE onErr[r] = "loop"
    <3>1. StepsLeft(r) = Waves(r) + Round(r) + 6
      BY <1>6, <2>2 DEF StepsLeft, Busy
    <3> QED
      BY <1>3, <1>4, <1>6, <2>2, <3>1 DEF Charted
  <2>3. CASE onErr[r] = "ladder"
    <3>1. StepsLeft(r) = Waves(r) + 2 * Limit + 14 - 3 * rung[r] + 2
      BY <1>6, <2>3 DEF StepsLeft, Busy
    <3>2. StepsLeft(r) = Waves(r) + 2 * Limit + 16 - 3 * rung[r]
      BY <1>1, <1>2, <1>5, <3>1
    <3> QED
      BY <1>3, <1>4, <1>6, <2>3, <3>2 DEF Charted
  <2> QED
    BY <1>1, <2>1, <2>2, <2>3
<1>7. CASE pc[r] = "sent"
  <2>1. CASE onErr[r] \notin {"ladder", "loop"}
    <3>1. StepsLeft(r) = 3
      BY <1>7, <2>1 DEF StepsLeft, Busy
    <3> QED
      BY <1>3, <1>4, <1>7, <2>1, <3>1 DEF Charted
  <2>2. CASE onErr[r] = "loop"
    <3>1. StepsLeft(r) = Waves(r) + Round(r) + 5
      BY <1>7, <2>2 DEF StepsLeft, Busy
    <3> QED
      BY <1>3, <1>4, <1>7, <2>2, <3>1 DEF Charted
  <2>3. CASE onErr[r] = "ladder" /\ body[r] = "anchored"
    <3>1. StepsLeft(r) = Waves(r) + 2 * Limit + 14 - 3 * rung[r] + 1
      BY <1>7, <2>3 DEF StepsLeft, Busy
    <3>2. StepsLeft(r) = Waves(r) + 2 * Limit + 15 - 3 * rung[r]
      BY <1>1, <1>2, <1>5, <3>1
    <3> QED
      BY <1>3, <1>4, <1>7, <2>3, <3>2 DEF Charted
  <2>4. CASE onErr[r] = "ladder" /\ body[r] = "plain"
    <3>1. StepsLeft(r) = Waves(r) + 2 * Limit + 14 - 3 * rung[r] + 0
      BY <1>7, <2>4 DEF StepsLeft, Busy
    <3>2. StepsLeft(r) = Waves(r) + 2 * Limit + 14 - 3 * rung[r]
      BY <1>1, <1>2, <1>5, <3>1
    <3> QED
      BY <1>3, <1>4, <1>7, <2>4, <3>2 DEF Charted
  <2> QED
    BY <1>1, <2>1, <2>2, <2>3, <2>4
<1>8. CASE pc[r] \notin {"try", "sent"}
  BY <1>3, <1>4, <1>8 DEF Charted, StepsLeft, Busy
<1> QED
  BY <1>6, <1>7, <1>8

\* The same of the state a step leads to.
LEMMA ChartNext == (TypeOK /\ RoundFits)' => \A r \in Requests : Charted(r)'
<1>1. TypeOK /\ RoundFits => \A r \in Requests : Charted(r)
  BY Chart
<1>2. (TypeOK /\ RoundFits)' => (\A r \in Requests : Charted(r))'
  BY <1>1, PTL
<1> QED
  BY <1>2

\* Every step of a turn leaves it fewer.
LEMMA StepShrinks ==
    ASSUME TurnInv, RoundFits, TypeOK', RoundFits', NEW r \in Requests, Work(r) \/ ClientGone(r)
    PROVE  StepsLeft(r)' < StepsLeft(r)
<1>1. /\ pc \in [Requests -> Steps] /\ onErr \in [Requests -> Handlers]
      /\ body \in [Requests -> {"anchored", "plain"}] /\ rung \in [Requests -> 0..2]
      /\ rides \in [Requests -> 0..MaxRides] /\ tried \in [Requests -> SUBSET Accounts]
      /\ Limit \in Nat \ {0} /\ MaxRides \in Nat
      /\ rung'[r] \in 0..2 /\ body'[r] \in {"anchored", "plain"}
  BY TurnConstants DEF TurnInv, TypeOK
<1>2. Charted(r) /\ Charted(r)'
  BY Chart, ChartNext DEF TurnInv
<1>3. /\ Waves(r) \in Nat /\ Waves(r)' \in Nat
      /\ Round(r) \in 2..2 * Limit /\ Round(r)' \in 2..2 * Limit
  BY <1>1, <1>2 DEF Charted
<1>4. rides'[r] = rides[r] => Waves(r)' = Waves(r)
  BY DEF Waves
<1>5. rides[r] < MaxRides /\ rides'[r] = rides[r] + 1 => Waves(r)' = Waves(r) - (2 * Limit + 1)
  <2>1. rides[r] \in Nat /\ rides[r] <= MaxRides /\ 2 * Limit + 1 \in Nat
    BY <1>1
  <2> DEFINE w == 2 * Limit + 1
  <2>2. (MaxRides - (rides[r] + 1)) * w = (MaxRides - rides[r]) * w - w
    BY <1>1, <2>1, Product
  <2> QED
    BY <2>2 DEF Waves
<1>6. Busy(r) /\ tried'[r] = Refusers(r) => Round(r)' = Round(r) - 2
  <2>1. Cardinality(tried[r]) \in Nat
        /\ (acct[r] \notin tried[r] => Cardinality(Refusers(r)) = Cardinality(tried[r]) + 1)
    BY CountRefusers DEF TurnInv
  <2>2. Busy(r) => acct[r] \notin tried[r]
    BY DEF TurnInv, Ledger, Books
  <2> QED
    BY <1>1, <2>1, <2>2 DEF Round
<1>7. ASSUME Answer(r), pc[r] # "idle" PROVE StepsLeft(r)' < StepsLeft(r)
  <2>1. pc'[r] = "idle" /\ pc[r] \in Steps
    BY <1>1, <1>7 DEF Answer, Goto
  <2> QED
    BY <1>1, <1>2, <1>3, <1>7, <2>1 DEF Charted, Steps, Handlers
<1>8. ASSUME RouteOwner(r) PROVE StepsLeft(r)' < StepsLeft(r)
  <2>1. pc[r] = "route"
    BY <1>1, <1>8 DEF RouteOwner, Goto, Plan, KeepLoop, loop, attempt
  <2>2. pc'[r] = "try" /\ onErr'[r] = "ladder" /\ rides'[r] = rides[r]
    BY <1>1, <1>8 DEF RouteOwner, Goto, Plan, KeepLoop, loop, attempt
  <2> QED
    BY <1>1, <1>2, <1>3, <1>4, <2>1, <2>2 DEF Charted
<1>9. ASSUME RecoverElsewhere(r) PROVE StepsLeft(r)' < StepsLeft(r)
  <2>1. pc[r] = "route"
    BY <1>1, <1>9 DEF RecoverElsewhere, Goto, Plan, KeepLoop, loop, attempt
  <2>2. pc'[r] = "try" /\ onErr'[r] = "loop" /\ rides'[r] = rides[r]
    BY <1>1, <1>9 DEF RecoverElsewhere, Goto, Plan, KeepLoop, loop, attempt
  <2> QED
    BY <1>1, <1>2, <1>3, <1>4, <2>1, <2>2 DEF Charted
<1>10. ASSUME Spill(r) PROVE StepsLeft(r)' < StepsLeft(r)
  <2>1. pc[r] = "route"
    BY <1>1, <1>10 DEF Spill, Goto, Plan, KeepLoop, loop, attempt
  <2>2. pc'[r] = "try" /\ onErr'[r] = "loop" /\ rides'[r] = rides[r]
    BY <1>1, <1>10 DEF Spill, Goto, Plan, KeepLoop, loop, attempt
  <2> QED
    BY <1>1, <1>2, <1>3, <1>4, <2>1, <2>2 DEF Charted
<1>11. ASSUME Starve(r) PROVE StepsLeft(r)' < StepsLeft(r)
  <2>1. pc[r] = "route"
    BY <1>1, <1>11 DEF Starve, Goto
  <2>2. pc'[r] = "starving"
    BY <1>1, <1>11 DEF Starve, Goto
  <2> QED
    BY <1>1, <1>2, <1>3, <1>4, <2>1, <2>2 DEF Charted
<1>12. ASSUME ServeSoonest(r) PROVE StepsLeft(r)' < StepsLeft(r)
  <2>1. pc[r] = "starving"
    BY <1>1, <1>12 DEF ServeSoonest, Goto, Plan
  <2>2. pc'[r] = "try" /\ onErr'[r] = "surface"
    BY <1>1, <1>12 DEF ServeSoonest, Goto, Plan
  <2> QED
    BY <1>1, <1>2, <1>3, <1>4, <2>1, <2>2 DEF Charted
<1>13. ASSUME AwaitCooldown(r) PROVE StepsLeft(r)' < StepsLeft(r)
  <2>1. pc[r] = "starving"
    BY <1>1, <1>13 DEF AwaitCooldown, Goto
  <2>2. pc'[r] = "wait"
    BY <1>1, <1>13 DEF AwaitCooldown, Goto
  <2> QED
    BY <1>1, <1>2, <1>3, <1>4, <2>1, <2>2 DEF Charted
<1>14. ASSUME WakeUp(r) PROVE StepsLeft(r)' < StepsLeft(r)
  <2>1. pc[r] = "wait"
    BY <1>1, <1>14 DEF WakeUp, Goto, Plan
  <2>2. pc'[r] = "try" /\ onErr'[r] = "surface"
    BY <1>1, <1>14 DEF WakeUp, Goto, Plan
  <2> QED
    BY <1>1, <1>2, <1>3, <1>4, <2>1, <2>2 DEF Charted
<1>15. ASSUME Knock(r) PROVE StepsLeft(r)' < StepsLeft(r)
  <2>1. pc[r] = "sleep"
    BY <1>1, <1>15 DEF Knock, Goto, Plan, KeepLoop, loop, attempt
  <2>2. pc'[r] = "try" /\ onErr'[r] = "loop" /\ rides'[r] = rides[r]
    BY <1>1, <1>15 DEF Knock, Goto, Plan, KeepLoop, loop, attempt
  <2> QED
    BY <1>1, <1>2, <1>3, <1>4, <2>1, <2>2 DEF Charted
<1>16. ASSUME Sighted(r) PROVE StepsLeft(r)' < StepsLeft(r)
  <2>1. pc[r] = "stream"
    BY <1>1, <1>16 DEF Sighted, Goto
  <2>2. pc'[r] = "ended"
    BY <1>1, <1>16 DEF Sighted, Goto
  <2> QED
    BY <1>1, <1>2, <1>3, <1>4, <2>1, <2>2 DEF Charted
<1>17. ASSUME Streams(r) PROVE StepsLeft(r)' < StepsLeft(r)
  <2>1. pc[r] = "sent" /\ onErr[r] \in Handlers /\ rung[r] \in 0..2 /\ body[r] \in {"anchored", "plain"}
    BY <1>1, <1>17 DEF Streams, Goto
  <2>2. pc'[r] = "stream"
    BY <1>1, <1>17 DEF Streams, Goto
  <2> QED
    BY <1>1, <1>2, <1>3, <1>4, <2>1, <2>2 DEF Charted
<1>18. ASSUME ResendAfterSilence(r) PROVE StepsLeft(r)' < StepsLeft(r)
  <2>1. pc[r] = "sent" /\ onErr[r] = "ladder" /\ body[r] = "anchored"
    BY <1>1, <1>18 DEF ResendAfterSilence, Watched, loop
  <2>2. /\ pc'[r] = "sent" /\ onErr'[r] = "ladder" /\ body'[r] = "plain"
        /\ rides'[r] = rides[r] /\ rung'[r] = rung[r]
    BY <1>1, <1>18 DEF ResendAfterSilence, Watched, loop
  <2> QED
    BY <1>1, <1>2, <1>3, <1>4, <2>1, <2>2 DEF Charted
<1>19. ASSUME MoveForCapability(r) PROVE StepsLeft(r)' < StepsLeft(r)
  <2>1. /\ pc[r] = "sent" /\ onErr[r] = "ladder" /\ rung[r] \in 0..2
        /\ body[r] \in {"anchored", "plain"}
    BY <1>1, <1>19 DEF MoveForCapability, Watched, Goto, Plan
  <2>2. pc'[r] = "try" /\ onErr'[r] = "cyber"
    BY <1>1, <1>19 DEF MoveForCapability, Watched, Goto, Plan
  <2> QED
    BY <1>1, <1>2, <1>3, <1>4, <2>1, <2>2 DEF Charted
<1>20. ASSUME Rewrite(r) PROVE StepsLeft(r)' < StepsLeft(r)
  <2>1. /\ pc[r] = "sent" /\ onErr[r] = "ladder" /\ rung[r] \in 0..2
        /\ body[r] \in {"anchored", "plain"} /\ rung[r] = 0
    BY <1>1, <1>20 DEF Rewrite, Laddered, Goto, Plan
  <2>2. /\ pc'[r] = "try" /\ onErr'[r] = "ladder"
        /\ rides'[r] = rides[r] /\ rung'[r] = 1
    BY <1>1, <1>20 DEF Rewrite, Laddered, Goto, Plan
  <2> QED
    BY <1>1, <1>2, <1>3, <1>4, <2>1, <2>2 DEF Charted
<1>21. ASSUME RewriteUnleased(r), Resendable(r) PROVE StepsLeft(r)' < StepsLeft(r)
  <2>1. /\ pc[r] = "sent" /\ onErr[r] = "ladder" /\ rung[r] \in 0..2
        /\ body[r] \in {"anchored", "plain"}
    BY <1>1, <1>21 DEF RewriteUnleased, Laddered, Goto, Plan
  <2>2. pc'[r] = "try" /\ onErr'[r] = "last"
    BY <1>1, <1>21 DEF RewriteUnleased, Laddered, Goto, Plan
  <2> QED
    BY <1>1, <1>2, <1>3, <1>4, <2>1, <2>2 DEF Charted
<1>22. ASSUME Reauthorize(r) PROVE StepsLeft(r)' < StepsLeft(r)
  <2>1. /\ pc[r] = "sent" /\ onErr[r] = "ladder" /\ rung[r] \in 0..2
        /\ body[r] \in {"anchored", "plain"} /\ rung[r] < 2
    BY <1>1, <1>22 DEF Reauthorize, Laddered, Goto, Plan
  <2>2. /\ pc'[r] = "try" /\ onErr'[r] = "ladder"
        /\ rides'[r] = rides[r] /\ rung'[r] = 2
    BY <1>1, <1>22 DEF Reauthorize, Laddered, Goto, Plan
  <2> QED
    BY <1>1, <1>2, <1>3, <1>4, <2>1, <2>2 DEF Charted
<1>23. ASSUME DropAnchor(r) PROVE StepsLeft(r)' < StepsLeft(r)
  <2>1. /\ pc[r] = "sent" /\ onErr[r] = "ladder" /\ rung[r] \in 0..2
        /\ body[r] \in {"anchored", "plain"}
    BY <1>1, <1>23 DEF DropAnchor, Laddered, Goto, Plan
  <2>2. pc'[r] = "try" /\ onErr'[r] = "last"
    BY <1>1, <1>23 DEF DropAnchor, Laddered, Goto, Plan
  <2> QED
    BY <1>1, <1>2, <1>3, <1>4, <2>1, <2>2 DEF Charted
<1>24. ASSUME NEW e \in Errors, FailOver(r, e) PROVE StepsLeft(r)' < StepsLeft(r)
  <2>1. /\ pc[r] = "sent" /\ onErr[r] \in {"loop", "ladder"} /\ rung[r] \in 0..2
        /\ body[r] \in {"anchored", "plain"} /\ Busy(r)
    BY <1>1, <1>24 DEF FailOver, FailsOver, Busy, Goto, Plan
  <2>2. /\ pc'[r] = "try" /\ onErr'[r] = "loop" /\ rides'[r] = rides[r]
        /\ tried'[r] = Refusers(r)
    BY <1>1, <1>24 DEF FailOver, FailsOver, Busy, Goto, Plan
  <2> QED
    BY <1>1, <1>2, <1>3, <1>4, <1>5, <1>6, <2>1, <2>2 DEF Charted
<1>25. ASSUME NEW e \in Errors, RunDry(r, e) PROVE StepsLeft(r)' < StepsLeft(r)
  <2>1. /\ pc[r] = "sent" /\ onErr[r] \in {"loop", "ladder"} /\ rung[r] \in 0..2
        /\ body[r] \in {"anchored", "plain"} /\ Busy(r)
    BY <1>1, <1>25 DEF RunDry, FailsOver, Busy, Goto
  <2>2. pc'[r] = "starving"
    BY <1>1, <1>25 DEF RunDry, FailsOver, Busy, Goto
  <2> QED
    BY <1>1, <1>2, <1>3, <1>4, <1>5, <1>6, <2>1, <2>2 DEF Charted
<1>26. ASSUME NEW e \in Errors, RideOut(r, e) PROVE StepsLeft(r)' < StepsLeft(r)
  <2>1. /\ pc[r] = "sent" /\ onErr[r] \in {"loop", "ladder"} /\ rung[r] \in 0..2
        /\ body[r] \in {"anchored", "plain"} /\ Busy(r)
    BY <1>1, <1>26 DEF RideOut, FailsOver, Busy, Goto
  <2>2. /\ pc'[r] = "sleep"
        /\ rides[r] < MaxRides /\ rides'[r] = rides[r] + 1
    BY <1>1, <1>26 DEF RideOut, FailsOver, Busy, Goto
  <2> QED
    BY <1>1, <1>2, <1>3, <1>4, <1>5, <1>6, <2>1, <2>2 DEF Charted
<1>27. ASSUME Send(r) PROVE StepsLeft(r)' < StepsLeft(r)
  <2>1. pc[r] = "try" /\ onErr[r] \in Handlers /\ rung[r] \in 0..2
    BY <1>1, <1>27 DEF Send
  <2>2. /\ pc'[r] = "sent" /\ onErr'[r] = onErr[r] /\ rides'[r] = rides[r] /\ rung'[r] = rung[r]
        /\ body'[r] = body[r] /\ tried'[r] = tried[r] /\ Round(r)' = Round(r)
    BY <1>1, <1>27 DEF Send, Goto, attempt, loop, Round
  <2> QED
    BY <1>1, <1>2, <1>3, <1>4, <2>1, <2>2 DEF Charted, Handlers
<1>28. ASSUME \/ SignalClient(r) \/ GiveUp(r) \/ LocalRefusal(r) \/ Exhausted(r) \/ GiveUpAfterSilence(r)
             \/ NoMoveForCapability(r) \/ NotReauthorized(r) \/ NobodyHome(r) \/ Recorded(r)
             \/ Broken(r) \/ ClientGone(r) \/ (RewriteUnleased(r) /\ ~Resendable(r))
      PROVE  StepsLeft(r)' < StepsLeft(r)
  BY <1>7, <1>28 DEF SignalClient, GiveUp, LocalRefusal, Exhausted, GiveUpAfterSilence, Watched,
     NoMoveForCapability, NotReauthorized, Laddered, NobodyHome, Recorded, Broken, ClientGone,
     RewriteUnleased
<1>29. ASSUME NEW e \in Errors, Surface(r, e) \/ StopFailover(r, e) \/ RefusedEverywhere(r, e)
      PROVE  StepsLeft(r)' < StepsLeft(r)
  BY <1>7, <1>29 DEF Surface, StopFailover, FailsOver, RefusedEverywhere
<1> QED
  BY <1>8, <1>9, <1>10, <1>11, <1>12, <1>13, <1>14, <1>15, <1>16, <1>17, <1>18, <1>19, <1>20, <1>21, <1>22, <1>23, <1>24, <1>25, <1>26, <1>27, <1>28, <1>29 DEF Work, Refused

\* A request's own frames are moved by its own steps only.
LEMMA OthersKeep ==
    ASSUME TurnInv, NEW r \in Requests, NEW q \in Requests, q # r, Begin(r) \/ Work(r) \/ ClientGone(r)
    PROVE  StepsLeft(q)' = StepsLeft(q)
<1> DEFINE Frame == <<pc[q], onErr[q], rung[q], rides[q], tried[q], body[q]>>
<1>0. /\ pc \in [Requests -> Steps] /\ onErr \in [Requests -> Handlers]
      /\ body \in [Requests -> {"anchored", "plain"}] /\ rung \in [Requests -> 0..2]
      /\ rides \in [Requests -> 0..MaxRides] /\ tried \in [Requests -> SUBSET Accounts]
  BY DEF TurnInv, TypeOK
<1>1. UNCHANGED Frame
  <2> USE <1>0 DEF Goto, Answer, Plan, NoAttempt, KeepLoop, LeaveLoop, attempt, loop
  <2>1. CASE \/ Begin(r) \/ RouteOwner(r) \/ RecoverElsewhere(r) \/ Spill(r)
             \/ SignalClient(r) \/ Starve(r)
    BY <2>1 DEF Begin, RouteOwner, RecoverElsewhere, Spill, SignalClient, Starve
  <2>2. CASE \/ ServeSoonest(r) \/ AwaitCooldown(r) \/ WakeUp(r) \/ GiveUp(r)
             \/ Knock(r) \/ NobodyHome(r)
    BY <2>2 DEF ServeSoonest, AwaitCooldown, WakeUp, GiveUp, Knock, NobodyHome
  <2>3. CASE \/ LocalRefusal(r) \/ Send(r) \/ Exhausted(r) \/ Streams(r)
             \/ Sighted(r) \/ Recorded(r) \/ Broken(r) \/ ClientGone(r)
    BY <2>3 DEF LocalRefusal, Send, Exhausted, Streams, Sighted, Recorded, Broken, ClientGone
  <2>4. CASE \/ ResendAfterSilence(r) \/ GiveUpAfterSilence(r) \/ MoveForCapability(r)
             \/ NoMoveForCapability(r)
    BY <2>4 DEF ResendAfterSilence, GiveUpAfterSilence, MoveForCapability, NoMoveForCapability
  <2>5. CASE \/ Rewrite(r) \/ RewriteUnleased(r) \/ Reauthorize(r) \/ NotReauthorized(r)
             \/ DropAnchor(r)
    BY <2>5 DEF Rewrite, RewriteUnleased, Reauthorize, NotReauthorized, DropAnchor
  <2>6. ASSUME NEW e \in Errors, \/ Surface(r, e) \/ StopFailover(r, e) \/ FailOver(r, e)
                                 \/ RunDry(r, e) \/ RideOut(r, e) \/ RefusedEverywhere(r, e)
        PROVE  UNCHANGED Frame
    BY <2>6 DEF Surface, StopFailover, FailOver, RunDry, RideOut, RefusedEverywhere
  <2> HIDE DEF Frame
  <2> QED
    BY <2>1, <2>2, <2>3, <2>4, <2>5, <2>6 DEF Work, Refused
<1> QED
  BY <1>1 DEF StepsLeft, Waves, Round, Busy

\* Nothing anybody else does, nor time, gives a turn more steps to take, and every step of its own
\* (or its client leaving) takes one away.
RunsDown ==
    [][\A r \in Requests : pc[r] # "idle" =>
         /\ StepsLeft(r)' <= StepsLeft(r)
         /\ Work(r) \/ ClientGone(r) => StepsLeft(r)' < StepsLeft(r)]_vars

\* A turn has steps left until it is answered, and never more than TurnSteps: the remedies of the
\* ladder, a full round of the failover loop, and MaxRides rounds more.
StepsBounded ==
    \A r \in Requests : StepsLeft(r) \in 0..TurnSteps /\ (StepsLeft(r) = 0 <=> pc[r] = "idle")

\* No round overruns the budget.
LEMMA RoundsFit == Spec => [](TurnInv /\ RoundFits)
<1>1. Init => RoundFits
  BY TurnConstants, FS_EmptySet DEF Init, RoundFits
<1> QED
  BY InitTurn, <1>1, StepRound, TurnInvariant, PTL DEF Spec

\* Of every turn it is bounded.
LEMMA Bounded ==
    ASSUME TurnInv, RoundFits, NEW r \in Requests
    PROVE  StepsLeft(r) \in 0..TurnSteps /\ (StepsLeft(r) = 0 <=> pc[r] = "idle")
<1> DEFINE max == MaxRides * (2 * Limit + 1)
<1>1. /\ pc[r] \in Steps /\ onErr[r] \in Handlers /\ rung[r] \in 0..2
      /\ body[r] \in {"anchored", "plain"} /\ Limit \in Nat /\ MaxRides \in Nat
  BY TurnConstants DEF TurnInv, TypeOK
<1>2. Charted(r)
  BY Chart DEF TurnInv
<1>3. max \in Nat
  BY <1>1, Product
<1>4. Waves(r) \in 0..max /\ Round(r) \in 2..2 * Limit
  BY <1>2 DEF Charted
<1> HIDE DEF max
<1>5. StepsLeft(r) \in 0..max + 2 * Limit + 17 /\ (StepsLeft(r) = 0 <=> pc[r] = "idle")
  BY <1>1, <1>2, <1>3, <1>4 DEF Charted, Steps, Handlers
<1> QED
  BY <1>5 DEF TurnSteps, max

\* What is left of a turn is bounded.
THEOREM TurnsAreBounded == Spec => []StepsBounded
<1>1. TurnInv /\ RoundFits => StepsBounded
  BY Bounded DEF StepsBounded
<1> QED
  BY <1>1, RoundsFit, PTL

\* Every turn runs down, whatever the interleaving.
THEOREM TurnsRunDown == Spec => RunsDown
<1> DEFINE Falls(q) == pc[q] # "idle" =>
                         /\ StepsLeft(q)' <= StepsLeft(q)
                         /\ Work(q) \/ ClientGone(q) => StepsLeft(q)' < StepsLeft(q)
<1>1. TurnInv /\ RoundFits => StepsBounded
  BY Bounded DEF StepsBounded
<1>2. (TurnInv /\ RoundFits)' => StepsBounded'
  BY <1>1, PTL
<1>3. ASSUME TurnInv, RoundFits, TurnInv', RoundFits', Next, NEW q \in Requests PROVE Falls(q)
  <2>1. StepsLeft(q) \in 0..TurnSteps /\ StepsLeft(q)' \in 0..TurnSteps /\ TurnSteps \in Int
    BY <1>1, <1>2, <1>3, TurnConstants, Product DEF StepsBounded, TurnSteps
  <2>2. ASSUME Work(q) \/ ClientGone(q) PROVE StepsLeft(q)' < StepsLeft(q)
    BY <1>3, <2>2, StepShrinks DEF TurnInv
  <2>3. ASSUME pc[q] # "idle", ~(Work(q) \/ ClientGone(q)) PROVE StepsLeft(q)' = StepsLeft(q)
    <3>1. ~Begin(q)
      BY <2>3 DEF Begin
    <3>2. CASE \E r \in Requests : Begin(r) \/ Work(r) \/ ClientGone(r)
      BY <1>3, <2>3, <3>1, <3>2, OthersKeep
    <3>3. CASE CoolDown \/ Expire
      BY <3>3 DEF CoolDown, Expire, attempt, loop, StepsLeft, Waves, Round, Busy
    <3> QED
      BY <1>3, <3>2, <3>3 DEF Next
  <2> QED
    BY <2>1, <2>2, <2>3
<1>4. TurnInv /\ RoundFits /\ (TurnInv /\ RoundFits)' /\ [Next]_vars
        => [\A r \in Requests : Falls(r)]_vars
  BY <1>3
<1> QED
  BY <1>4, RoundsFit, PTL DEF Spec, RunsDown
=============================================================================
