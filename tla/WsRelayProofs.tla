---------------------------- MODULE WsRelayProofs ----------------------------
(***************************************************************************)
(* What the relay keeps for every set of accounts, every bound on its      *)
(* reconnects and every number of retries.  The properties lean on each    *)
(* other only through where the pump is, so one invariant holds them all:  *)
(* its four parts say that frame, lease and client agree, where the        *)
(* sockets are, what has been counted, and what the client may have read   *)
(* at the steps that lead to a resend.  The last part counts the steps a   *)
(* turn has left.                                                          *)
(***************************************************************************)
EXTENDS WsRelay, TLAPS

\* The frame, the lease and the client's view of a turn agree, in the middle of handlers too.
Agreed ==
    /\ (inFlight # "none") <=> (lease # NoAccount)
    /\ (inFlight # "none") <=> (client \in {"waiting", "reading"})

\* The ladder is climbed without a socket, the handoff without a turn; an anchored turn is still
\* on the account it began on.
Placed ==
    /\ upstream \in {account, NoAccount} /\ slot \in {account, NoAccount}
    /\ pc = "ladder" => upstream = NoAccount
    /\ pc = "handoff" => inFlight = "none"
    /\ pc \in {"check", "wait"} /\ inFlight # "none" => upstream = account /\ asked
    /\ inFlight = "delta" /\ ~signalled => lease = account

\* A turn that is about to be sent first was not sent yet; the third rung has a turn and a retry.
Counted ==
    /\ inFlight # "none" => sends <= reconnects + 1
    /\ pc \in {"send", "again"} => sends = 0 /\ inFlight # "none"
    /\ pc = "retry" => inFlight # "none" /\ retries <= MaxRetries

\* Output is remembered by its flags for as long as its turn; no step on the way to a resend has any.
Unread ==
    /\ client = "reading" => "visible" \in did /\ "output" \in did
    /\ client = "waiting" => "output" \notin did
    /\ pc \in {"send", "again", "denied", "reopen", "replay", "retry"} => client # "reading"

\* The parts of TypeOK: members of sets, Booleans, and counters.
Members ==
    /\ pc \in Steps /\ account \in Accounts
    /\ {upstream, slot, lease} \subseteq Accounts \cup {NoAccount}
    /\ inFlight \in {"none", "delta", "full"} /\ client \in {"idle", "waiting", "reading", "gone"}
    /\ did \subseteq Flags /\ tried \subseteq Accounts /\ gated \subseteq Accounts
    /\ sig \in Refusals \cup {"none"}
Booleans == asked \in BOOLEAN /\ signalled \in BOOLEAN
Counters ==
    /\ retries \in 0 .. MaxRetries + 1 /\ reconnects \in 0 .. MaxReconnects
    /\ sends \in 0 .. MaxReconnects + 2

\* What is not about types alone, with the counters it bounds.
Rest == Counters /\ Agreed /\ Placed /\ Counted /\ Unread
\* The inductive invariant.
RelayInv == Members /\ Booleans /\ Rest

-----------------------------------------------------------------------------
\* The three parts are the type invariant.
LEMMA TypeParts == TypeOK <=> Members /\ Booleans /\ Counters
  BY DEF TypeOK, Members, Booleans, Counters

\* A connection that was just made satisfies the invariant.
LEMMA InitRelay == Init => RelayInv
<1> SUFFICES ASSUME Init PROVE RelayInv
  OBVIOUS
<1> USE RelayConstants DEF Init
<1>1. Members
  BY DEF Members, Steps, Flags, Refusals
<1>2. Booleans
  BY DEF Booleans
<1>3. Rest
  BY DEF Rest, Counters, Agreed, Placed, Counted, Unread
<1> QED
  BY <1>1, <1>2, <1>3 DEF RelayInv

\* Every step keeps it.  A case with three leaves takes the parts one at a time.
LEMMA StepRelay == ASSUME RelayInv, [Next]_vars PROVE RelayInv'
<1> USE RelayConstants
    DEF RelayInv, Members, Booleans, Rest, Counters, Agreed, Placed, Counted, Unread,
        Steps, Flags, Refusals, socket, turn, ladder,
        Goto, Resume, EndTurn, Close, Shut, Over, Sent, Exhausted, Signal, Resendable,
        MoveTo, Eligible
<1>1. CASE Check
  BY <1>1 DEF Check, TurnActive
<1>2. CASE Transmit
  <2>1. Members'
    BY <1>2 DEF Transmit
  <2>2. Booleans'
    BY <1>2 DEF Transmit
  <2>3. Rest'
    BY <1>2 DEF Transmit
  <2> QED
    BY <2>1, <2>2, <2>3
<1>3. CASE Denied
  BY <1>3 DEF Denied
<1>4. CASE Reopen
  BY <1>4 DEF Reopen
<1>5. CASE Replay
  <2>1. Members'
    BY <1>5 DEF Replay
  <2>2. Booleans'
    BY <1>5 DEF Replay
  <2>3. Rest'
    BY <1>5 DEF Replay
  <2> QED
    BY <2>1, <2>2, <2>3
<1>6. CASE ReplayInPlace
  <2>1. Members'
    BY <1>6 DEF ReplayInPlace, InPlace
  <2>2. Booleans'
    BY <1>6 DEF ReplayInPlace, InPlace
  <2>3. Rest'
    BY <1>6 DEF ReplayInPlace, InPlace
  <2> QED
    BY <2>1, <2>2, <2>3
<1>7. CASE Retire
  BY <1>7 DEF Retire, InPlace
<1>8. CASE Rewrite
  <2>1. Members'
    BY <1>8 DEF Rewrite, Poisoned
  <2>2. Booleans'
    BY <1>8 DEF Rewrite, Poisoned
  <2>3. Rest'
    BY <1>8 DEF Rewrite, Poisoned
  <2> QED
    BY <2>1, <2>2, <2>3
<1>9. CASE Refresh
  BY <1>9 DEF Refresh, Unauthorized
<1>10. CASE Move
  <2>1. Members'
    BY <1>10 DEF Move, Movable, Moved
  <2>2. Booleans'
    BY <1>10 DEF Move, Movable, Moved
  <2>3. Rest'
    BY <1>10 DEF Move, Movable, Moved
  <2> QED
    BY <2>1, <2>2, <2>3
<1>11. CASE RetryHere
  <2>1. Members'
    BY <1>11 DEF RetryHere
  <2>2. Booleans'
    BY <1>11 DEF RetryHere
  <2>3. Rest'
    BY <1>11 DEF RetryHere
  <2> QED
    BY <2>1, <2>2, <2>3
<1>12. CASE Surface
  BY <1>12 DEF Surface, Poisoned, Unauthorized, Movable
<1>13. CASE Handoff
  <2>1. Members'
    BY <1>13 DEF Handoff, Over
  <2>2. Booleans'
    BY <1>13 DEF Handoff, Over
  <2>3. Rest'
    BY <1>13 DEF Handoff, Over
  <2> QED
    BY <2>1, <2>2, <2>3
<1>14. CASE CapReached
  BY <1>14 DEF CapReached
<1>15. CASE Dropped
  BY <1>15 DEF Dropped, TurnActive
<1>16. CASE AnchorMissing
  BY <1>16 DEF AnchorMissing, Answering
<1>17. CASE Metadata
  BY <1>17 DEF Metadata
<1>18. CASE Output
  BY <1>18 DEF Output, Answering
<1>19. CASE Completed
  <2>1. Members'
    BY <1>19 DEF Completed, Answering
  <2>2. Booleans'
    BY <1>19 DEF Completed, Answering
  <2>3. Rest'
    BY <1>19 DEF Completed, Answering
  <2> QED
    BY <2>1, <2>2, <2>3
<1>20. CASE Ended
  BY <1>20 DEF Ended, Answering
<1>21. CASE \E k \in Refusals : Refused(k)
  BY <1>21 DEF Refused
<1>22. CASE ClientLeaves
  BY <1>22 DEF ClientLeaves
<1>23. CASE Reconnect
  <2>1. Members'
    BY <1>23 DEF Reconnect
  <2>2. Booleans'
    BY <1>23 DEF Reconnect
  <2>3. Rest'
    BY <1>23 DEF Reconnect
  <2> QED
    BY <2>1, <2>2, <2>3
<1>24. CASE \E k \in {"delta", "full"} : ClientFrame(k)
  <2>1. Members'
    BY <1>24 DEF ClientFrame
  <2>2. Booleans'
    BY <1>24 DEF ClientFrame
  <2>3. Rest'
    BY <1>24 DEF ClientFrame
  <2> QED
    BY <2>1, <2>2, <2>3
<1>25. CASE \E a \in Accounts : Gate(a)
  BY <1>25 DEF Gate, TurnActive
<1>26. CASE \E a \in Accounts : Ungate(a)
  BY <1>26 DEF Ungate
<1>27. CASE UNCHANGED vars
  BY <1>27 DEF vars
<1> QED
  BY <1>1, <1>2, <1>3, <1>4, <1>5, <1>6, <1>7, <1>8, <1>9, <1>10, <1>11, <1>12, <1>13, <1>14,
     <1>15, <1>16, <1>17, <1>18, <1>19, <1>20, <1>21, <1>22, <1>23, <1>24, <1>25, <1>26, <1>27
     DEF Next, Pump, Upstream

\* The invariant holds throughout.
LEMMA Always == Spec => []RelayInv
  BY InitRelay, StepRelay, PTL DEF Spec

\* Types: the connection's reconnects and a turn's sends, moves and retries stay within bounds.
THEOREM TypeCorrect == Spec => []TypeOK
<1>1. RelayInv => TypeOK
  BY TypeParts DEF RelayInv, Rest
<1> QED
  BY Always, <1>1, PTL

\* The frame the pump would replay, the lease it holds and the client agree on the turn.
THEOREM TurnsAgreed == Spec => []TurnsAgree
<1>1. RelayInv => TurnsAgree
  BY DEF RelayInv, Rest, Agreed, TurnsAgree
<1> QED
  BY Always, <1>1, PTL

\* The socket and the slot are those of the connection's account, and a turn that is waited for
\* was sent on that socket.
THEOREM AccountServes == Spec => []ServedByAccount
<1>1. RelayInv => ServedByAccount
  BY DEF RelayInv, Rest, Placed, ServedByAccount
<1> QED
  BY Always, <1>1, PTL

\* A frame is sent at most once more than the relay has reconnected without progress.
THEOREM EveryResendCounted == Spec => []ResendsCounted
<1>1. RelayInv => ResendsCounted
  BY DEF RelayInv, Rest, Counted, ResendsCounted
<1> QED
  BY Always, <1>1, PTL

-----------------------------------------------------------------------------
\* The steps that send the frame of a turn: the first send, the replay on a new socket, and four
\* remedies of the ladder.
Senders == Transmit \/ Replay \/ ReplayInPlace \/ Rewrite \/ Move \/ RetryHere

\* Nothing else sends a frame.
LEMMA OnlySenders == ASSUME RelayInv, [Next]_vars, sends' > sends PROVE Senders
<1>1. sends \in Nat
  BY RelayConstants DEF RelayInv, Rest, Counters
<1>2. sends' # sends /\ sends' # 0
  BY <1>1
<1>3. CASE Pump
  BY <1>2, <1>3 DEF Pump, Senders, Check, Denied, Reopen, Retire, Refresh, Surface, Handoff,
     Goto, Resume, Shut
<1>4. CASE Upstream
  BY <1>2, <1>4 DEF Upstream, CapReached, Dropped, AnchorMissing, Metadata, Output, Completed,
     Ended, Refused, Goto, Resume, Shut, Signal
<1>5. CASE ClientLeaves \/ Reconnect \/ \E k \in {"delta", "full"} : ClientFrame(k)
  BY <1>2, <1>5 DEF ClientLeaves, Reconnect, ClientFrame, Goto, Resume, Shut
<1>6. CASE \E a \in Accounts : Gate(a) \/ Ungate(a)
  BY <1>2, <1>6 DEF Gate, Ungate
<1>7. CASE UNCHANGED vars
  BY <1>2, <1>7 DEF vars
<1> QED
  BY <1>3, <1>4, <1>5, <1>6, <1>7 DEF Next

\* Once the client has read output of a turn, nothing sends that turn again.
THEOREM OutputNotReplayed == Spec => NoReplayAfterOutput
<1>1. ASSUME RelayInv, [Next]_vars, sends' > sends PROVE client # "reading"
  <2>1. Senders
    BY <1>1, OnlySenders
  <2>2. \/ pc \in {"send", "again", "replay", "retry"}
        \/ "output" \notin did
    BY <2>1 DEF Senders, Transmit, Replay, ReplayInPlace, InPlace, Rewrite, Poisoned, Move, Movable,
       RetryHere
  <2> QED
    BY <1>1, <2>2 DEF RelayInv, Rest, Unread
<1> QED
  BY Always, <1>1, PTL DEF Spec, NoReplayAfterOutput

\* A delta never reaches another account than the one its turn began on, unless the client owes
\* a resend.
THEOREM AnchorsStay == Spec => AnchorStaysHome
<1>1. ASSUME RelayInv, [Next]_vars, sends' > sends, inFlight = "delta", ~signalled
      PROVE  account' = lease
  <2>1. lease = account
    BY <1>1 DEF RelayInv, Rest, Placed
  <2>2. sends' # sends
    BY <1>1, RelayConstants DEF RelayInv, Rest, Counters
  <2>3. CASE Move
    BY <1>1, <2>2, <2>3 DEF Move, Moved, Goto, Signal, Resume, Resendable
  <2>4. CASE Transmit \/ Replay \/ ReplayInPlace \/ Rewrite \/ RetryHere
    BY <2>1, <2>4 DEF Transmit, Replay, ReplayInPlace, Rewrite, RetryHere, Sent, Goto,
       Shut, Close, Exhausted, socket
  <2> QED
    BY <1>1, <2>3, <2>4, OnlySenders DEF Senders
<1> QED
  BY Always, <1>1, PTL DEF Spec, AnchorStaysHome

-----------------------------------------------------------------------------
(***************************************************************************)
(* Why a turn ends.  Between two resends the pump goes down the ladder and *)
(* what the client has seen only grows; a resend on a new socket costs one *)
(* of MaxReconnects, and so does one on the socket that refused.  So the   *)
(* steps a turn has left can be counted: seven for every reconnect, those  *)
(* to the bottom of the ladder, and one for each thing the client has not  *)
(* seen.                                                                   *)
(***************************************************************************)
InTurn == client \in {"waiting", "reading"}

\* The longest way from a step of the pump to the surface, in steps.
Place(step) ==
    CASE step = "send" -> 11
      [] step = "again" -> 10
      [] step = "check" -> 9
      [] step = "wait" -> 8
      [] step = "refused" -> 7
      [] step = "retire" -> 6
      [] step \in {"ladder", "reopen"} -> 5
      [] step = "denied" -> 4
      [] step \in {"retry", "replay"} -> 3
      [] OTHER -> 2

\* What the client has not seen of its turn: that the upstream is at work, and output.
Unseen(flags) == (IF "visible" \in flags THEN 0 ELSE 1) + (IF "output" \in flags THEN 0 ELSE 1)

\* The most steps of the pump and the upstream before the turn of the client is over.
StepsLeft == IF InTurn THEN 7 * (MaxReconnects - reconnects) + Place(pc) + Unseen(did) ELSE 0
TurnSteps == 7 * MaxReconnects + 13

\* What the client does and which accounts are gated give a turn no more steps, and every step of
\* the pump and every frame of the upstream that says something takes one away.
RunsDown ==
    [][InTurn => /\ StepsLeft' <= StepsLeft
                 /\ Pump \/ Upstream => StepsLeft' < StepsLeft]_vars

\* A turn has steps left until its client is answered, and never more than TurnSteps.
StepsBounded == StepsLeft \in 0..TurnSteps /\ (StepsLeft = 0 <=> ~InTurn)

\* Where the pump is says how far the surface is.
LEMMA Chart ==
    /\ \A step \in Steps : Place(step) \in 2..11
    /\ Place("send") = 11 /\ Place("again") = 10 /\ Place("check") = 9 /\ Place("wait") = 8
    /\ Place("refused") = 7 /\ Place("retire") = 6 /\ Place("ladder") = 5 /\ Place("reopen") = 5
    /\ Place("denied") = 4 /\ Place("retry") = 3 /\ Place("replay") = 3 /\ Place("surface") = 2
    /\ Place("handoff") = 2
  BY DEF Steps, Place

\* What the client has seen is not taken from it.
LEMMA Seen ==
    ASSUME NEW d, NEW e
    PROVE  /\ Unseen(d) \in 0..2
           /\ d \subseteq e => Unseen(e) <= Unseen(d)
           /\ Unseen(d \cup {"visible"}) <= Unseen(d)
           /\ "visible" \notin d => Unseen(d \cup {"visible"}) < Unseen(d)
           /\ "output" \notin d => Unseen(d \cup {"visible", "output"}) < Unseen(d)
  BY DEF Unseen

\* The types of what the count is made of.
LEMMA Countable ==
    ASSUME RelayInv
    PROVE  /\ pc \in Steps /\ reconnects \in 0..MaxReconnects /\ MaxReconnects \in Nat
           /\ reconnects \in Int
  BY RelayConstants DEF RelayInv, Members, Rest, Counters

\* A turn is bounded.
LEMMA Bounded == RelayInv => StepsBounded
<1> SUFFICES ASSUME RelayInv PROVE StepsBounded
  OBVIOUS
<1>1. Place(pc) \in 2..11 /\ Unseen(did) \in 0..2
  BY Countable, Chart, Seen
<1> QED
  BY <1>1, Countable DEF StepsBounded, StepsLeft, TurnSteps

\* The turn is over, or it is further down, or a reconnect was spent.
Lower ==
    \/ ~InTurn'
    \/ reconnects' = reconnects /\ Place(pc') + Unseen(did') < Place(pc) + Unseen(did)
    \/ reconnects' = reconnects + 1 /\ pc' = "check" /\ Unseen(did') <= Unseen(did) /\ Place(pc) >= 3

\* Then fewer steps are left.
LEMMA LowerIsFewer ==
    ASSUME RelayInv, RelayInv', InTurn, Lower PROVE StepsLeft' < StepsLeft /\ StepsLeft' <= StepsLeft
<1>1. reconnects \in 0..MaxReconnects /\ reconnects' \in 0..MaxReconnects /\ MaxReconnects \in Nat
  BY RelayConstants DEF RelayInv, Rest, Counters
<1>2. /\ Place(pc) \in 2..11 /\ Place(pc') \in 2..11
      /\ Unseen(did) \in 0..2 /\ Unseen(did') \in 0..2 /\ Place("check") = 9
  BY Chart, Seen DEF RelayInv, Members
<1>3. CASE ~InTurn'
  BY <1>1, <1>2, <1>3 DEF StepsLeft
<1>4. CASE InTurn'
  <2>1. StepsLeft = 7 * (MaxReconnects - reconnects) + Place(pc) + Unseen(did)
    BY DEF StepsLeft
  <2>2. StepsLeft' = 7 * (MaxReconnects - reconnects') + Place(pc') + Unseen(did')
    BY <1>4 DEF StepsLeft
  <2>3. 7 * (MaxReconnects - reconnects') + Place(pc') + Unseen(did')
          < 7 * (MaxReconnects - reconnects) + Place(pc) + Unseen(did)
    BY <1>1, <1>2, <1>4 DEF Lower
  <2> QED
    BY <1>1, <1>2, <2>1, <2>2, <2>3
<1> QED
  BY <1>3, <1>4

\* Every step of the pump goes down.
LEMMA PumpLowers == ASSUME RelayInv, RelayInv', InTurn, Pump PROVE Lower
<1>1. /\ pc \in Steps /\ inFlight # "none" /\ lease # NoAccount /\ reconnects \in Int
  BY Countable DEF RelayInv, Rest, Agreed, InTurn
<1>2. did \subseteq did' => Unseen(did') <= Unseen(did)
  BY Seen
<1>3. Unseen(did) \in 0..2 /\ Unseen(did') \in 0..2
  BY Seen
<1> USE <1>1, <1>2, <1>3, Chart
    DEF Lower, InTurn, Goto, Resume, EndTurn, Close, Shut, Sent, Exhausted, Signal, socket, turn
<1>4. CASE Check
  BY <1>4 DEF Check, TurnActive
<1>5. CASE Transmit
  BY <1>5 DEF Transmit
<1>6. CASE Denied
  BY <1>6 DEF Denied
<1>7. CASE Reopen
  BY <1>7 DEF Reopen
<1>8. CASE Replay
  BY <1>8 DEF Replay
<1>9. CASE ReplayInPlace
  BY <1>9 DEF ReplayInPlace
<1>10. CASE Retire
  BY <1>10 DEF Retire
<1>11. CASE Rewrite
  BY <1>11 DEF Rewrite
<1>12. CASE Refresh
  BY <1>12 DEF Refresh
<1>13. CASE Move
  BY <1>13 DEF Move, Moved
<1>14. CASE RetryHere
  BY <1>14 DEF RetryHere
<1>15. CASE Surface
  BY <1>15 DEF Surface
<1>16. CASE Handoff
  BY <1>16 DEF Handoff, RelayInv, Rest, Placed
<1> QED
  BY <1>4, <1>5, <1>6, <1>7, <1>8, <1>9, <1>10, <1>11, <1>12, <1>13, <1>14, <1>15, <1>16 DEF Pump

\* So does every frame of the upstream, but one that tells the client nothing new.
LEMMA UpstreamLowers ==
    ASSUME RelayInv, RelayInv', InTurn, Upstream, vars' # vars PROVE Lower
<1>1. inFlight # "none" /\ reconnects \in Int
  BY Countable DEF RelayInv, Rest, Agreed, InTurn
<1>2. did \subseteq did' => Unseen(did') <= Unseen(did)
  BY Seen
<1>3. Unseen(did) \in 0..2 /\ Unseen(did') \in 0..2
  BY Seen
<1> USE <1>1, <1>2, <1>3, Chart
    DEF Lower, InTurn, Goto, Resume, EndTurn, Close, Shut, Signal, socket, turn
<1>4. CASE CapReached
  BY <1>4 DEF CapReached
<1>5. CASE Dropped
  BY <1>5 DEF Dropped, TurnActive
<1>6. CASE AnchorMissing
  BY <1>6 DEF AnchorMissing
<1>7. CASE Metadata
  <2>1. "visible" \notin did
    <3>1. CASE "visible" \in did
      <4>1. did' = did
        BY <1>7, <3>1 DEF Metadata
      <4> QED
        BY <1>7, <4>1 DEF Metadata, vars
    <3> QED
      BY <3>1
  <2>2. Unseen(did') < Unseen(did) /\ pc' = pc /\ reconnects' = reconnects
    BY <1>7, <2>1, Seen DEF Metadata
  <2> QED
    BY <2>2, Countable
<1>8. CASE Output
  <2>1. "output" \notin did
    <3>1. CASE "output" \in did
      <4>1. client = "reading" /\ "visible" \in did
        BY <3>1 DEF RelayInv, Rest, Unread
      <4>2. did' = did /\ client' = client
        BY <1>8, <3>1, <4>1 DEF Output
      <4> QED
        BY <1>8, <4>2 DEF Output, vars
    <3> QED
      BY <3>1
  <2>2. Unseen(did') < Unseen(did) /\ pc' = pc /\ reconnects' = reconnects
    BY <1>8, <2>1, Seen DEF Output
  <2> QED
    BY <2>2, Countable
<1>9. CASE Completed \/ Ended
  BY <1>9 DEF Completed, Ended
<1>10. CASE \E k \in Refusals : Refused(k)
  BY <1>10 DEF Refused
<1> QED
  BY <1>4, <1>5, <1>6, <1>7, <1>8, <1>9, <1>10 DEF Upstream

\* What is left of a turn is bounded.
THEOREM TurnsAreBounded == Spec => []StepsBounded
  BY Always, Bounded, PTL

\* Every turn runs down.
THEOREM TurnsRunDown == Spec => RunsDown
<1> DEFINE Falls == InTurn => /\ StepsLeft' <= StepsLeft
                              /\ Pump \/ Upstream => StepsLeft' < StepsLeft
<1>1. RelayInv' => StepsBounded'
  BY Bounded, PTL
<1>2. ASSUME RelayInv, RelayInv', Next, vars' # vars, InTurn PROVE Falls
  <2>1. StepsLeft \in 0..TurnSteps /\ StepsLeft' \in 0..TurnSteps /\ TurnSteps \in Int
    BY <1>1, <1>2, Bounded, RelayConstants DEF StepsBounded, TurnSteps
  <2>2. ASSUME Pump \/ Upstream PROVE StepsLeft' < StepsLeft
    BY <1>2, <2>2, PumpLowers, UpstreamLowers, LowerIsFewer
  <2>3. ASSUME ~(Pump \/ Upstream) PROVE StepsLeft' <= StepsLeft
    <3>1. TurnActive /\ client # "idle"
      BY <1>2 DEF RelayInv, Rest, Agreed, InTurn, TurnActive
    <3>2. CASE ClientLeaves \/ Reconnect
      BY <2>1, <3>2 DEF ClientLeaves, Reconnect, EndTurn, Shut, Close, StepsLeft, InTurn
    <3>3. CASE \E a \in Accounts : Gate(a) \/ Ungate(a)
      BY <2>1, <3>1, <3>3 DEF Gate, Ungate, turn, StepsLeft, InTurn
    <3> QED
      BY <1>2, <2>3, <3>1, <3>2, <3>3 DEF Next, ClientFrame
  <2> QED
    BY <2>1, <2>2, <2>3
<1>3. RelayInv /\ RelayInv' /\ [Next]_vars => [Falls]_vars
  BY <1>2
<1> QED
  BY <1>3, Always, PTL DEF Spec, RunsDown
=============================================================================
