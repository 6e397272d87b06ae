------------------------------ MODULE WsRelay ------------------------------
(***************************************************************************)
(* The relay of one client WebSocket (ws_relay/pump.rs, mod.rs, owner.rs,  *)
(* redial.rs): the pump forwards the frames of a client to the upstream    *)
(* socket of the account its conversation lives on, and back.  It re-dials *)
(* a lost socket and sends the turn again while that is invisible to the   *)
(* client, climbs a ladder of remedies when the upstream refuses a turn,   *)
(* moves to another account, or tells the client to send its whole history *)
(* again.                                                                  *)
(*                                                                         *)
(* The pump is one task; a handler that awaits is several steps here, and  *)
(* accounts may be gated between them.  A frame is a delta (it names an    *)
(* anchor that only the socket of its last answer knows) or full; prewarms *)
(* behave as full ones.  Left out are client frames other than             *)
(* response.create, custom-provider frames, pings, metrics, wording,       *)
(* pauses and the duplicate lifecycle frames a replay suppresses.  The     *)
(* attempt budget of a turn grants or refuses, as it likes; a client that  *)
(* leaves in the middle of a handler is noticed at the wait.               *)
(***************************************************************************)
EXTENDS Integers, FiniteSets

CONSTANTS
    Accounts,
    NoAccount,
    MaxReconnects,  \* MAX_RECONNECTS_WITHOUT_PROGRESS
    MaxRetries      \* OVERLOAD_RETRY_MAX_RETRIES

ASSUME RelayConstants ==
    /\ NoAccount \notin Accounts
    /\ MaxReconnects \in Nat /\ MaxRetries \in Nat

VARIABLES
    pc,         \* where the pump is: "check" is the top of its loop, "wait" its select
    account,    \* the account the connection is pinned to
    upstream,   \* the account of the live upstream socket, or NoAccount
    asked,      \* the turn in flight went out on that socket
    slot,       \* ws_pressure: the account whose socket slot is held, or NoAccount
    inFlight,   \* in_flight: the frame of the turn, "delta" or "full"; "none" between turns
    lease,      \* the account whose in-flight lease turn_telemetry holds, or NoAccount
    did,        \* flags of the turn: see Flags
    retries,    \* overload_retries_for_turn
    tried,      \* overload_tried_for_turn
    signalled,  \* anchor_resend_pending: the client was told to resend, and no turn completed since
    reconnects, \* reconnects_since_progress
    sends,      \* how often the frame of this turn reached an upstream
    sig,        \* the refusal being handled
    client,     \* what the client sees of its turn
    gated       \* accounts retired by the usage refresh, an operator or an OAuth failure

socket == <<account, upstream, asked, slot>>
turn == <<inFlight, lease, client>>
ladder == <<retries, tried>>
vars == <<pc, socket, turn, did, ladder, signalled, reconnects, sends, sig, gated>>

Steps == {"check", "wait", "send", "again", "denied", "reopen", "replay", "refused", "retire",
          "ladder", "retry", "surface", "handoff", "closed"}
Flags == {"auth",     \* reactive_auth_attempted
          "strip",    \* reasoning_transform_attempted
          "visible",  \* client_visible_upstream_for_turn
          "output",   \* upstream_output_visible_for_turn
          "replay"}   \* same_socket_replays_for_turn is at SAME_SOCKET_REPLAY_MAX
Refusals == {"overload",  \* is_transient_overload
             "model",     \* is_model_not_found
             "poison",    \* is_unresendable_history_code
             "auth",      \* 401
             "throttle",  \* a 429 with a short retry-after
             "other"}

TurnActive == inFlight # "none" \/ lease # NoAccount
Eligible == Accounts \ gated

\* A client has connected and its conversation was resolved to an account.
Init ==
    /\ pc = "check" /\ account \in Accounts /\ upstream = account /\ slot = account
    /\ asked = FALSE /\ inFlight = "none" /\ lease = NoAccount /\ client = "idle"
    /\ did = {} /\ retries = 0 /\ tried = {} /\ signalled = FALSE
    /\ reconnects = 0 /\ sends = 0 /\ sig = "none" /\ gated = {}

(***************************************************************************)
(* How a handler ends.                                                     *)
(***************************************************************************)
EndTurn == inFlight' = "none" /\ lease' = NoAccount /\ client' = "idle"

Goto(step) == pc' = step /\ UNCHANGED <<reconnects, sends, sig>>
Resume == pc' = "check" /\ sig' = "none" /\ UNCHANGED sends

\* The pump breaks out of its loop: both sockets are closed, and the lease and the slot dropped.
Close ==
    /\ pc' = "closed" /\ sig' = "none"
    /\ upstream' = NoAccount /\ asked' = FALSE /\ slot' = NoAccount
    /\ inFlight' = "none" /\ lease' = NoAccount /\ client' = "gone"
    /\ UNCHANGED <<account, reconnects>>
Shut == Close /\ UNCHANGED sends

Over(n) == n > MaxReconnects

\* The frame of the turn went out on a socket of a, with slot s, as the n-th reconnect.
Sent(a, s, n) ==
    /\ sends' = sends + 1
    /\ IF Over(n) THEN Close
       ELSE /\ pc' = "check" /\ sig' = "none" /\ reconnects' = n
            /\ account' = a /\ upstream' = a /\ asked' = TRUE /\ slot' = s
            /\ UNCHANGED turn

\* The budget of the turn refuses: the client is told, on a socket u with slot s.
Exhausted(u, s) ==
    /\ Resume /\ EndTurn
    /\ upstream' = u /\ asked' = FALSE /\ slot' = s
    /\ UNCHANGED <<account, reconnects>>

\* The client is told, once, to send its whole history again.
Signal ==
    /\ Resume /\ EndTurn
    /\ did' = did \cup {"visible"} /\ signalled' = TRUE
    /\ UNCHANGED reconnects

Resendable == inFlight = "delta" /\ ~signalled

MoveTo(a) == account' = a /\ upstream' = a /\ slot' = a /\ asked' = FALSE

(***************************************************************************)
(* The top of the loop, the gate and the client.                           *)
(***************************************************************************)
\* Between turns a relay whose account is gated lets its client reconnect elsewhere.
Check ==
    /\ pc = "check"
    /\ IF ~TurnActive /\ upstream # NoAccount /\ account \in gated
       THEN Shut
       ELSE Goto("wait") /\ UNCHANGED <<socket, turn>>
    /\ UNCHANGED <<did, ladder, signalled, gated>>

\* Gating an account wakes the relays that are parked on a live socket.
Gate(a) ==
    /\ a \notin gated
    /\ gated' = gated \cup {a}
    /\ pc' = IF pc = "wait" /\ ~TurnActive /\ upstream # NoAccount THEN "check" ELSE pc
    /\ UNCHANGED <<socket, turn, did, ladder, signalled, reconnects, sends, sig>>

Ungate(a) ==
    /\ a \in gated
    /\ gated' = gated \ {a}
    /\ UNCHANGED <<pc, socket, turn, did, ladder, signalled, reconnects, sends, sig>>

\* A turn of the client (response.create) arrives.  It may move to a seat that serves its tier first, and it needs
\* an in-flight lease: without one the client is told to retry.
ClientFrame(k) ==
    /\ pc = "wait" /\ client = "idle"
    /\ UNCHANGED socket \/ \E a \in Eligible \ {account} : MoveTo(a)
    /\ \/ Goto("check") /\ UNCHANGED <<turn, did, ladder>>
       \/ /\ pc' = "send" /\ sends' = 0 /\ UNCHANGED <<reconnects, sig>>
          /\ inFlight' = k /\ lease' = account' /\ client' = "waiting"
          /\ did' = {} /\ retries' = 0 /\ tried' = {}
    /\ UNCHANGED <<signalled, gated>>

ClientLeaves ==
    /\ pc = "wait"
    /\ Shut
    /\ UNCHANGED <<did, ladder, signalled, gated>>

\* A client without a connection makes one; only an eligible account is resolved for it.
Reconnect ==
    /\ pc = "closed"
    /\ Resume /\ EndTurn /\ reconnects' = 0
    /\ \E a \in Eligible : MoveTo(a)
    /\ did' = {} /\ retries' = 0 /\ tried' = {} /\ signalled' = FALSE
    /\ UNCHANGED gated

(***************************************************************************)
(* send_client_text: two tries, each on a live socket or a new one.        *)
(***************************************************************************)
Transmit ==
    LET live == upstream # NoAccount
        s == IF live THEN slot ELSE account
    IN  /\ pc \in {"send", "again"}
        /\ \/ /\ ~live \* a 401 to the dial: refresh the token, once
              /\ Goto("denied") /\ did' = did \cup {"auth"}
              /\ UNCHANGED <<socket, turn>>
           \/ /\ ~live /\ Shut /\ UNCHANGED did
           \/ /\ Exhausted(account, s) \/ Sent(account, s, reconnects + (IF live THEN 0 ELSE 1))
              /\ UNCHANGED did
           \/ /\ pc = "send" \* the socket turns out dead
              /\ Goto("again") /\ upstream' = NoAccount /\ slot' = s
              /\ UNCHANGED <<account, asked, turn, did>>
           \/ /\ pc = "again" /\ Shut /\ UNCHANGED did
        /\ UNCHANGED <<ladder, signalled, gated>>

\* The refreshed account is dialed, without taking a slot.  If that fails a 401 that came as a
\* frame is still to be surfaced; one that came at a dial ends the connection.
Denied ==
    /\ pc = "denied"
    /\ \/ /\ pc' = "replay" /\ sig' = "none" /\ UNCHANGED <<reconnects, sends>>
          /\ upstream' = account /\ asked' = FALSE
          /\ UNCHANGED <<account, slot, turn>>
       \/ /\ sig = "auth"
          /\ Goto("surface") /\ UNCHANGED <<socket, turn>>
       \/ sig # "auth" /\ Shut
    /\ UNCHANGED <<did, ladder, signalled, gated>>

(***************************************************************************)
(* The socket is lost: the connection limit of the upstream, a drop.       *)
(***************************************************************************)
CapReached ==
    /\ pc = "wait" /\ upstream # NoAccount
    /\ IF "visible" \in did
       THEN Shut
       ELSE Goto("reopen") /\ UNCHANGED <<socket, turn>>
    /\ UNCHANGED <<did, ladder, signalled, gated>>

\* Mutant: a socket lost in the middle of a turn is parked like an idle one.
DroppedParks ==
    /\ pc = "wait" /\ upstream # NoAccount
    /\ Goto("check") /\ upstream' = NoAccount /\ asked' = FALSE /\ slot' = NoAccount
    /\ UNCHANGED <<account, turn, did, ladder, signalled, gated>>

\* A drop, a read error, the deadline of a turn's read, or, between turns, the age or the idle
\* budget of the socket.  Without a turn only the upstream leg goes, and its slot.
Dropped ==
    /\ pc = "wait" /\ upstream # NoAccount
    /\ \/ /\ TurnActive
          /\ IF inFlight = "none" \/ "visible" \in did
             THEN Shut
             ELSE Goto("reopen") /\ UNCHANGED <<socket, turn>>
       \/ /\ ~TurnActive
          /\ Goto("check") /\ upstream' = NoAccount /\ asked' = FALSE /\ slot' = NoAccount
          /\ UNCHANGED <<account, turn>>
    /\ UNCHANGED <<did, ladder, signalled, gated>>

Reopen ==
    /\ pc = "reopen"
    /\ \/ /\ Goto("replay") /\ upstream' = account /\ asked' = FALSE /\ slot' = account
          /\ UNCHANGED <<account, turn, did>>
       \/ /\ "auth" \notin did
          /\ Goto("denied") /\ did' = did \cup {"auth"}
          /\ UNCHANGED <<socket, turn>>
       \/ Shut /\ UNCHANGED did
    /\ UNCHANGED <<ladder, signalled, gated>>

\* The turn in flight, if any, goes out again on the socket just dialed.
Replay ==
    /\ pc = "replay"
    /\ \/ /\ inFlight = "none"
          /\ IF Over(reconnects + 1)
             THEN Shut
             ELSE Resume /\ reconnects' = reconnects + 1 /\ UNCHANGED <<socket, turn>>
       \/ /\ inFlight # "none"
          /\ Exhausted(upstream, slot) \/ Sent(account, slot, reconnects + 1) \/ Shut
    /\ UNCHANGED <<did, ladder, signalled, gated>>

(***************************************************************************)
(* The upstream refuses: the ladder of remedies.                           *)
(***************************************************************************)
Refused(k) ==
    /\ pc = "wait" /\ upstream # NoAccount
    /\ pc' = "refused" /\ sig' = k
    /\ UNCHANGED <<socket, turn, did, ladder, signalled, reconnects, sends, gated>>

\* Mutant: the replay on the same socket does not look at what the client has read.
InPlaceAlways == sig = "overload" /\ inFlight # "none" /\ "replay" \notin did

\* Rung 1: an overload before any output, once, on the socket that refused.
InPlace == sig = "overload" /\ inFlight # "none" /\ {"output", "replay"} \cap did = {}

\* Mutant: the replay on the same socket is not counted.
ReplayUncounted ==
    /\ pc = "refused" /\ InPlace
    /\ Sent(account, slot, reconnects) \/ (Goto("retire") /\ UNCHANGED <<socket, turn>>)
    /\ did' = did \cup {"replay"}
    /\ UNCHANGED <<ladder, signalled, gated>>

ReplayInPlace ==
    /\ pc = "refused" /\ InPlace
    /\ Sent(account, slot, reconnects + 1) \/ (Goto("retire") /\ UNCHANGED <<socket, turn>>)
    /\ did' = did \cup {"replay"}
    /\ UNCHANGED <<ladder, signalled, gated>>

\* The refused socket is not used again.
Retire ==
    /\ pc = "retire" \/ (pc = "refused" /\ ~InPlace)
    /\ Goto("ladder") /\ upstream' = NoAccount /\ asked' = FALSE
    /\ UNCHANGED <<account, slot, turn, did, ladder, signalled, gated>>

Poisoned == sig = "poison" /\ {"strip", "output"} \cap did = {}
Unauthorized == sig = "auth" /\ {"auth", "visible"} \cap did = {} /\ inFlight # "none"
Movable ==
    /\ sig \in {"overload", "model"} /\ "output" \notin did
    /\ retries < MaxRetries /\ inFlight # "none"

\* A history the upstream cannot decrypt: the client resends a delta; a full frame goes out again
\* without the part in question, once, on a new socket of the same account.
Rewrite ==
    /\ pc = "ladder" /\ Poisoned
    /\ \/ Resendable /\ Signal /\ UNCHANGED socket
       \/ /\ ~Resendable
          /\ did' = did \cup {"strip"} /\ UNCHANGED signalled
          /\ \/ /\ inFlight # "none"
                /\ Exhausted(NoAccount, account) \/ Sent(account, account, reconnects + 1)
             \/ /\ Goto("surface")
                /\ slot' \in (IF inFlight = "none" THEN {slot} ELSE {slot, account})
                /\ UNCHANGED <<account, upstream, asked, turn>>
    /\ UNCHANGED <<ladder, gated>>

Refresh ==
    /\ pc = "ladder" /\ Unauthorized
    /\ Goto("denied") /\ did' = did \cup {"auth"}
    /\ UNCHANGED <<socket, turn, ladder, signalled, gated>>

\* Mutant: a delta is moved like a full frame.
MovedVerbatim(a) ==
    \/ Sent(a, a, reconnects + 1) /\ UNCHANGED <<did, signalled>>
    \/ /\ Goto("retry") /\ account' = a /\ slot' = a
       /\ UNCHANGED <<upstream, asked, turn, did, signalled>>

\* The turn on a sibling a: a full frame goes out there, an anchor cannot follow.
Moved(a) ==
    \/ /\ inFlight = "full"
       /\ \/ Sent(a, a, reconnects + 1)
          \/ Goto("retry") /\ account' = a /\ slot' = a /\ UNCHANGED <<upstream, asked, turn>>
       /\ UNCHANGED <<did, signalled>>
    \/ Resendable /\ Signal /\ MoveTo(a)
    \/ /\ inFlight = "delta" /\ signalled
       /\ Goto("retry") /\ MoveTo(a)
       /\ UNCHANGED <<turn, did, signalled>>

\* Rung 2: another account, forward through those this turn has not overloaded on.
Move ==
    /\ pc = "ladder" /\ Movable
    /\ tried' = tried \cup {account}
    /\ \/ /\ retries' = retries + 1
          /\ \E a \in Eligible \ tried' : Moved(a)
       \/ Goto("retry") /\ UNCHANGED <<socket, turn, did, retries, signalled>>
    /\ UNCHANGED gated

\* Rung 3: the same account, later; the client resends a delta.  Not for a missing model.
RetryHere ==
    /\ pc = "retry" /\ sig # "model"
    /\ retries' = retries + 1
    /\ \/ Resendable /\ Signal /\ UNCHANGED socket
       \/ /\ ~Resendable /\ UNCHANGED <<did, signalled>>
          /\ \/ Sent(account, account, reconnects + 1)
             \/ /\ Goto("surface") /\ slot' \in {slot, account}
                /\ UNCHANGED <<account, upstream, asked, turn>>
    /\ UNCHANGED <<tried, gated>>

\* Mutant: the refused frame stays in flight.
SurfaceKeepsFrame ==
    /\ \/ pc = "surface" \/ (pc = "retry" /\ sig = "model")
       \/ pc = "ladder" /\ ~Poisoned /\ ~Unauthorized /\ ~Movable
    /\ Goto("handoff") /\ did' = did \cup {"visible"}
    /\ lease' = NoAccount /\ client' = "idle"
    /\ UNCHANGED <<inFlight, socket, ladder, signalled, gated>>

\* No remedy is left: the client reads the refusal, which ends its turn, ...
Surface ==
    /\ \/ pc = "surface" \/ (pc = "retry" /\ sig = "model")
       \/ pc = "ladder" /\ ~Poisoned /\ ~Unauthorized /\ ~Movable
    /\ Goto("handoff") /\ EndTurn /\ did' = did \cup {"visible"}
    /\ UNCHANGED <<socket, ladder, signalled, gated>>

\* Mutant: the connection stays pinned to the account it left.
HandoffStale ==
    /\ pc = "handoff"
    /\ \/ Shut
       \/ /\ ~Over(reconnects + 1)
          /\ Resume /\ reconnects' = reconnects + 1 /\ asked' = FALSE
          /\ \/ sig = "throttle" /\ upstream' = account /\ UNCHANGED slot
             \/ sig # "throttle" /\ \E a \in Eligible : upstream' = a /\ slot' = a
          /\ UNCHANGED <<account, turn>>
    /\ UNCHANGED <<did, ladder, signalled, gated>>

\* ... and the connection goes on: after a short throttle on the same account, else on whichever
\* account is resolved once this one is benched and its slot given back.
Handoff ==
    /\ pc = "handoff"
    /\ \/ Shut
       \/ /\ ~Over(reconnects + 1)
          /\ Resume /\ reconnects' = reconnects + 1
          /\ \/ /\ sig = "throttle" /\ upstream' = account /\ asked' = FALSE
                /\ UNCHANGED <<account, slot>>
             \/ sig # "throttle" /\ \E a \in Eligible : MoveTo(a)
          /\ UNCHANGED turn
    /\ UNCHANGED <<did, ladder, signalled, gated>>

(***************************************************************************)
(* The upstream answers.                                                   *)
(***************************************************************************)
Answering == pc = "wait" /\ upstream # NoAccount /\ inFlight # "none" /\ asked

\* The anchor is gone: the client resends its history, unless it was told to already.
AnchorMissing ==
    /\ Answering
    /\ \/ Resendable /\ Signal
       \/ /\ ~Resendable
          /\ Resume /\ EndTurn /\ did' = did \cup {"visible"}
          /\ UNCHANGED <<reconnects, signalled>>
    /\ UNCHANGED <<socket, ladder, gated>>

\* Metadata and lifecycle frames, at any time.  A frame that ends nothing resumes the same wait.
Metadata ==
    /\ pc = "wait" /\ upstream # NoAccount
    /\ did' = did \cup {"visible"}
    /\ UNCHANGED <<pc, socket, turn, ladder, signalled, reconnects, sends, sig, gated>>

Output ==
    /\ Answering
    /\ did' = did \cup {"visible", "output"} /\ client' = "reading"
    /\ UNCHANGED <<pc, socket, inFlight, lease, ladder, signalled, reconnects, sends, sig, gated>>

\* The turn completed.  Progress, if its id could be read.
Completed ==
    /\ Answering
    /\ Resume /\ EndTurn /\ did' = did \cup {"visible", "output"}
    /\ \/ reconnects' = 0 /\ signalled' = FALSE
       \/ UNCHANGED <<reconnects, signalled>>
    /\ UNCHANGED <<socket, ladder, gated>>

\* It is incomplete, or failed in a way that is the client's affair.
Ended ==
    /\ Answering
    /\ Resume /\ EndTurn /\ did' = did \cup {"visible", "output"}
    /\ UNCHANGED <<socket, ladder, signalled, reconnects, gated>>

-----------------------------------------------------------------------------
Upstream ==
    \/ CapReached \/ Dropped \/ AnchorMissing \/ Metadata \/ Output \/ Completed \/ Ended
    \/ \E k \in Refusals : Refused(k)

Pump ==
    \/ Check \/ Transmit \/ Denied \/ Reopen \/ Replay
    \/ ReplayInPlace \/ Retire \/ Rewrite \/ Refresh \/ Move \/ RetryHere \/ Surface \/ Handoff

Next ==
    \/ Pump \/ Upstream \/ ClientLeaves \/ Reconnect
    \/ \E k \in {"delta", "full"} : ClientFrame(k)
    \/ \E a \in Accounts : Gate(a) \/ Ungate(a)

Spec == Init /\ [][Next]_vars

\* The pump is scheduled, its dials have deadlines, and the read of a turn in flight ends in a
\* frame or at the stall deadline; an upstream does not send metadata for ever.
FairSpec == Spec /\ WF_vars(Pump) /\ WF_vars(Upstream)

-----------------------------------------------------------------------------
\* Types and counters: no more reconnects than allowed, and one move or retry beyond MaxRetries
\* (a move that cannot send is followed by a retry that is not checked again).
TypeOK ==
    /\ pc \in Steps /\ account \in Accounts
    /\ {upstream, slot, lease} \subseteq Accounts \cup {NoAccount}
    /\ asked \in BOOLEAN /\ signalled \in BOOLEAN
    /\ inFlight \in {"none", "delta", "full"} /\ client \in {"idle", "waiting", "reading", "gone"}
    /\ did \subseteq Flags /\ tried \subseteq Accounts /\ gated \subseteq Accounts
    /\ retries \in 0 .. MaxRetries + 1 /\ reconnects \in 0 .. MaxReconnects
    /\ sends \in 0 .. MaxReconnects + 2 /\ sig \in Refusals \cup {"none"}

\* Whenever the pump waits, the frame it would replay, the lease it holds and what the client
\* believes agree on whether there is a turn: no frame outlives its turn, no turn its frame.
TurnsAgree ==
    pc \in {"check", "wait", "refused", "handoff", "closed"} =>
        /\ (inFlight # "none") <=> (lease # NoAccount)
        /\ (inFlight # "none") <=> (client \in {"waiting", "reading"})

\* The live socket and the socket slot are those of the account the connection is pinned to, and
\* a turn that is waited for went out on that socket: no move, re-dial or failed remedy leaves the
\* pump reading a socket that was never asked.
ServedByAccount ==
    /\ {upstream, slot} \subseteq {account, NoAccount}
    /\ pc \in {"check", "wait"} /\ inFlight # "none" => upstream = account /\ asked

\* One frame of the client reaches upstreams at most once more than the relay has reconnected
\* without progress: every resend, on whichever rung and socket, is counted.
ResendsCounted == inFlight # "none" => sends <= reconnects + 1

\* No resend after output: once the client has read output of a turn nothing sends that turn
\* again, whatever is lost or refused after it.
NoReplayAfterOutput == [][sends' > sends => client # "reading"]_vars

\* A delta is never sent to another account than the one its turn began on: its anchor is unknown
\* there and its suffix would start a new conversation.  (While a resend signal is outstanding
\* rung 3 does send it there: see the README.)
AnchorStaysHome ==
    [][sends' > sends /\ inFlight = "delta" /\ ~signalled => account' = lease]_vars

\* A turn of the client ends: it is answered, or refused, or the connection is closed.
TurnEnds == client \in {"waiting", "reading"} ~> client \in {"idle", "gone"}

=============================================================================
