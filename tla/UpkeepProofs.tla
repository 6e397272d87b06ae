---------------------------- MODULE UpkeepProofs ----------------------------
(***************************************************************************)
(* What holds of one account's upkeep for every set of requesters and      *)
(* readers.  The snapshot: `CacheInv' follows each write from the row to   *)
(* its count, and a rebuild from the count it read to the entry.  The      *)
(* requests: `AskInv' has exactly one wake-up, under way or worked off,    *)
(* for a key that is in the map.                                           *)
(***************************************************************************)
EXTENDS Upkeep, SequenceTheorems, TLAPS

Steps == {"idle", "get", "poll", "write", "tell", "finish", "warm", "cache"}

Row ==
    /\ truth \in UsageControlled /\ status \in Statuses /\ gated \in BOOLEAN
    /\ edited \in Statuses \cup {None}
    /\ was \in [Writers -> Statuses \cup {None}] /\ lost \subseteq Statuses \cup {None}

Asked ==
    /\ entry \in {"none", "clean", "dirty"} /\ channel \in Nat
    /\ req \in [Requesters -> {"idle", "send"}] /\ want \in BOOLEAN

\* Whoever is about to write has an answer.
Polled ==
    /\ step \in [Pollers -> Steps]
    /\ seen \in [Pollers -> Statuses \cup {None}] /\ answer \in [Pollers -> UsageControlled \cup {None}]
    /\ \A p \in Pollers : step[p] \in {"write", "tell"} => answer[p] \in UsageControlled

\* Whoever is about to install has read the row.
Held ==
    /\ cache \in Statuses \cup {None} /\ fresh \in BOOLEAN
    /\ builder \in Callers \cup {None}
    /\ building \in {"idle", "list", "install"} /\ current \in BOOLEAN
    /\ built \in Statuses \cup {None}
    /\ building = "install" => built \in Statuses

Queued == waiting \in Seq(Callers)

Counts == edits \in 0..MaxEdits /\ upsets \in 0..MaxUpsets

Types == Row /\ Asked /\ Polled /\ Held /\ Queued /\ Counts

-----------------------------------------------------------------------------
\* The parts give the type invariant.
LEMMA TypeParts == Types => TypeOK
  BY DEF Types, TypeOK, Row, Asked, Polled, Held, Queued, Counts, Steps

\* The process starts at rest.
LEMMA InitTypes == Init => Types
<1> SUFFICES ASSUME Init PROVE Types
  OBVIOUS
<1> USE UpkeepConstants DEF Init
<1>1. Row
  BY DEF Row, UsageControlled, Statuses
<1>2. Asked /\ Held
  BY DEF Asked, Held
<1>3. Polled
  BY DEF Polled, Steps, Pollers
<1>4. Queued /\ Counts
  BY DEF Queued, Counts
<1> QED
  BY <1>1, <1>2, <1>3, <1>4 DEF Types

\* A poller that asks for a snapshot, or has it, stays typed.
LEMMA WarmTypes ==
  ASSUME Polled, Queued, NEW p \in Pollers, Warm(p), seen' = seen, answer' = answer
  PROVE  Polled' /\ Queued'
<1>1. step' = [step EXCEPT ![p] = "idle"] \/ step' = [step EXCEPT ![p] = "cache"]
  BY DEF Warm, Goto
<1>2. Polled'
  BY <1>1 DEF Polled, Steps
<1>3. waiting' = waiting \/ waiting' = Append(waiting, p)
  BY DEF Warm
<1>4. Queued'
  BY <1>3 DEF Queued, Callers
<1> QED
  BY <1>2, <1>4

\* ... and so does whoever leaves the lock.
LEMMA ReturnTypes ==
  ASSUME Polled, NEW x \in Callers \cup {None}, Return(x), seen' = seen, answer' = answer
  PROVE  Polled'
<1>1. CASE x \in Pollers
  <2>1. step' = [step EXCEPT ![x] = "idle"]
    BY <1>1 DEF Return
  <2> QED
    BY <1>1, <2>1 DEF Polled, Steps
<1>2. CASE x \notin Pollers
  <2>1. step' = step
    BY <1>2 DEF Return
  <2> QED
    BY <2>1 DEF Polled
<1> QED
  BY <1>1, <1>2

\* Requests, and what the provider does, keep the types.
LEMMA AskTypes ==
  ASSUME Types, ProviderChanges \/ (\E q \in Requesters : Request(q) \/ Send(q)) \/ Receive \/ Finish
  PROVE  Types'
<1> USE UpkeepConstants DEF Types
<1>1. CASE ProviderChanges
  <2>1. truth' \in UsageControlled /\ Counts'
    BY <1>1 DEF ProviderChanges, Upset, Counts, UsageControlled
  <2> QED
    BY <1>1, <2>1 DEF ProviderChanges, Row, Asked, Polled, Held, Queued, refresh, poll, count, entryOf, rebuild
<1>2. ASSUME NEW q \in Requesters, Request(q) PROVE Types'
  <2>1. Asked'
    BY <1>2 DEF Request, Asked
  <2> QED
    BY <1>2, <2>1 DEF Request, Row, Polled, Held, Queued, Counts, poll, count, entryOf, rebuild, bounds
<1>3. ASSUME NEW q \in Requesters, Send(q) PROVE Types'
  <2>1. Asked'
    BY <1>3 DEF Send, Asked
  <2> QED
    BY <1>3, <2>1 DEF Send, Row, Polled, Held, Queued, Counts, poll, count, entryOf, rebuild, bounds
<1>4. CASE Receive
  <2>1. Asked'
    BY <1>4 DEF Receive, Asked
  <2>2. Polled'
    BY <1>4 DEF Receive, Goto, Polled, Steps, Pollers
  <2> QED
    BY <1>4, <2>1, <2>2 DEF Receive, Row, Held, Queued, Counts, count, entryOf, rebuild, bounds
<1>5. CASE Finish
  <2>1. Polled' /\ Queued'
    <3>1. CASE entry = "dirty"
      <4>1. step' = [step EXCEPT !["worker"] = "get"] /\ waiting' = waiting
        BY <1>5, <3>1 DEF Finish, Goto
      <4> QED
        BY <1>5, <4>1 DEF Finish, Polled, Queued, Steps, Pollers
    <3>2. CASE entry # "dirty"
      BY <1>5, <3>2, WarmTypes DEF Finish, Pollers
    <3> QED
      BY <3>1, <3>2
  <2>2. Asked'
    BY <1>5 DEF Finish, Asked
  <2> QED
    BY <1>5, <2>1, <2>2 DEF Finish, Row, Held, Counts, count, entryOf, rebuild, bounds
<1> QED
  BY <1>1, <1>2, <1>3, <1>4, <1>5

\* The steps of a poll keep the types.
LEMMA PollTypes ==
  ASSUME Types, NEW p \in Pollers, Polling(p) \/ PollFails(p)
  PROVE  Types'
<1> USE UpkeepConstants DEF Types
<1>0. After(p) \in Steps \ {"write", "tell"}
  BY DEF After, Steps
<1>1. CASE ReadRow(p)
  <2>1. Polled'
    BY <1>1 DEF ReadRow, Goto, Polled, Steps, Row
  <2> QED
    BY <1>1, <2>1 DEF ReadRow, Row, Asked, Held, Queued, Counts, refresh, count, entryOf, rebuild, bounds
<1>2. CASE Poll(p)
  <2>1. Polled'
    <3>1. CASE seen[p] \in UsageControlled
      <4>1. answer' = [answer EXCEPT ![p] = truth] /\ step' = [step EXCEPT ![p] = "write"]
        BY <1>2, <3>1 DEF Poll, Goto
      <4> QED
        BY <1>2, <4>1 DEF Poll, Polled, Steps, Row
    <3>2. CASE seen[p] \notin UsageControlled
      <4>1. answer' = answer /\ step' = [step EXCEPT ![p] = After(p)]
        BY <1>2, <3>2 DEF Poll, Goto
      <4> QED
        BY <1>0, <1>2, <4>1 DEF Poll, Polled
    <3> QED
      BY <3>1, <3>2
  <2>2. Asked'
    <3>1. want' \in BOOLEAN
      BY <1>2, Zenon DEF Poll, Begun
    <3> QED
      BY <1>2, <3>1 DEF Poll, Asked
  <2> QED
    BY <1>2, <2>1, <2>2 DEF Poll, Row, Held, Queued, Counts, count, entryOf, rebuild, bounds
<1>3. CASE WriteStatus(p)
  <2>1. answer[p] \in UsageControlled
    BY <1>3 DEF WriteStatus, Polled
  <2>2. Row'
    BY <1>3, <2>1 DEF WriteStatus, Replace, Row, Writers, Statuses
  <2>3. Polled'
    BY <1>3, <2>1 DEF WriteStatus, Goto, Polled, Steps
  <2> QED
    BY <1>3, <2>2, <2>3 DEF WriteStatus, Asked, Held, Queued, Counts, refresh, entryOf, rebuild, bounds
<1>4. CASE Tell(p)
  <2>1. Row'
    <3>1. gated' = (answer[p] \in Gating)
      BY <1>4 DEF Tell
    <3>2. was' = [was EXCEPT ![p] = None] /\ lost' = {}
      BY <1>4 DEF Tell, Count
    <3> QED
      BY <1>4, <3>1, <3>2 DEF Tell, Row, Writers
  <2>2. Polled'
    BY <1>0, <1>4 DEF Tell, Goto, Polled
  <2>3. Held'
    BY <1>4 DEF Tell, Count, Held
  <2> QED
    BY <1>4, <2>1, <2>2, <2>3 DEF Tell, Asked, Queued, Counts, refresh, bounds
<1>5. CASE PollFails(p)
  <2>1. Polled'
    BY <1>0, <1>5 DEF PollFails, Goto, Polled
  <2>2. Asked'
    <3>1. want' \in BOOLEAN
      BY <1>5, Zenon DEF PollFails, Begun, Asked
    <3> QED
      BY <1>5, <3>1 DEF PollFails, Asked
  <2>3. Counts'
    BY <1>5 DEF PollFails, Upset, Counts
  <2> QED
    BY <1>5, <2>1, <2>2, <2>3 DEF PollFails, Row, Held, Queued, count, entryOf, rebuild
<1> QED
  BY <1>1, <1>2, <1>3, <1>4, <1>5 DEF Polling

\* The other writers keep the types.
LEMMA EditTypes ==
  ASSUME Types, (\E s \in Statuses \ {"exhausted"} : Edit(s)) \/ EditTell \/ MarkFails \/ EditorGone
  PROVE  Types'
<1> USE UpkeepConstants DEF Types
<1>1. ASSUME NEW s \in Statuses \ {"exhausted"}, Edit(s) PROVE Types'
  <2>1. Row'
    BY <1>1 DEF Edit, Replace, Row, Writers
  <2>2. Counts'
    BY <1>1 DEF Edit, Counts
  <2> QED
    BY <1>1, <2>1, <2>2 DEF Edit, Asked, Polled, Held, Queued, refresh, poll, entryOf, rebuild
<1>2. CASE EditTell
  <2>1. Row'
    <3>1. gated' \in BOOLEAN
      <4>1. CASE edited = "reauth_required"
        BY <1>2, <4>1 DEF EditTell, Row
      <4>2. CASE edited # "reauth_required"
        <5>1. gated' = (edited \in Gating)
          BY <1>2, <4>2 DEF EditTell
        <5> QED
          BY <5>1
      <4> QED
        BY <4>1, <4>2
    <3>2. was' = [was EXCEPT !["editor"] = None] /\ lost' = {}
      BY <1>2 DEF EditTell, Count
    <3>3. truth' = truth /\ status' = status /\ edited' = None
      BY <1>2 DEF EditTell
    <3> QED
      BY <3>1, <3>2, <3>3 DEF Row, Writers
  <2>2. Held'
    BY <1>2 DEF EditTell, Count, Held
  <2> QED
    BY <1>2, <2>1, <2>2 DEF EditTell, Asked, Polled, Queued, Counts, refresh, poll, bounds
<1>3. CASE EditorGone
  <2>1. Row'
    BY <1>3 DEF EditorGone, Row, Writers
  <2> QED
    BY <1>3, <2>1 DEF EditorGone, Asked, Polled, Held, Queued, Counts, refresh, poll, entryOf, rebuild, bounds
<1>4. CASE MarkFails
  <2>1. Row' /\ Counts'
    BY <1>4 DEF MarkFails, Row, Counts, count
  <2> QED
    BY <1>4, <2>1 DEF MarkFails, Asked, Polled, Held, Queued, refresh, poll, entryOf, rebuild
<1> QED
  BY <1>1, <1>2, <1>3, <1>4

\* The snapshot cache keeps the types.
LEMMA CacheTypes ==
  ASSUME Types,
         Warmed \/ Building \/ BuildFails \/ Expire \/ (\E r \in Readers : Miss(r) \/ ReaderGone(r))
  PROVE  Types'
<1> USE UpkeepConstants DEF Types
<1>1. CASE Warmed
  <2>1. Polled' /\ Queued'
    BY <1>1, WarmTypes DEF Warmed, Pollers
  <2> QED
    BY <1>1, <2>1 DEF Warmed, Row, Asked, Held, Counts, refresh, count, entryOf, rebuild, bounds
<1>2. CASE Enter
  <2>1. Head(waiting) \in Callers /\ Queued'
    BY <1>2, HeadTailProperties DEF Enter, Queued
  <2>2. Polled'
    <3>1. CASE Fresh
      BY <1>2, <2>1, <3>1, ReturnTypes DEF Enter
    <3>2. CASE ~Fresh
      <4>1. step' = step
        BY <1>2, <3>2 DEF Enter
      <4> QED
        BY <1>2, <4>1 DEF Enter, Polled
    <3> QED
      BY <3>1, <3>2
  <2>3. Held'
    <3>1. CASE Fresh
      BY <1>2, <3>1 DEF Enter, Held, rebuild, entryOf
    <3>2. CASE ~Fresh
      BY <1>2, <2>1, <3>2 DEF Enter, Held, entryOf
    <3> QED
      BY <3>1, <3>2
  <2> QED
    BY <1>2, <2>1, <2>2, <2>3 DEF Enter, Row, Asked, Counts, refresh, count, bounds
<1>3. CASE List
  <2>1. Held'
    BY <1>3 DEF List, Held, Row, entryOf
  <2> QED
    BY <1>3, <2>1 DEF List, Row, Asked, Polled, Queued, Counts, refresh, poll, count, bounds
<1>4. CASE Install
  <2>1. Polled'
    BY <1>4, ReturnTypes DEF Install, Held
  <2>2. Held'
    BY <1>4 DEF Install, Free, Held
  <2> QED
    BY <1>4, <2>1, <2>2 DEF Install, Row, Asked, Queued, Counts, refresh, count, bounds
<1>5. CASE BuildFails
  <2>1. Polled'
    BY <1>5, ReturnTypes DEF BuildFails, Held
  <2>2. Held'
    BY <1>5 DEF BuildFails, Free, Held, entryOf
  <2> QED
    BY <1>5, <2>1, <2>2 DEF BuildFails, Row, Asked, Queued, Counts, refresh, count, bounds
<1>6. CASE Expire
  <2>1. Row' /\ Held'
    BY <1>6 DEF Expire, Row, Held, rebuild
  <2> QED
    BY <1>6, <2>1 DEF Expire, Asked, Polled, Queued, Counts, refresh, poll, bounds
<1>7. ASSUME NEW r \in Readers, Miss(r) PROVE Types'
  <2>1. Queued'
    BY <1>7 DEF Miss, Queued, Callers
  <2> QED
    BY <1>7, <2>1 DEF Miss, Row, Asked, Polled, Held, Counts, refresh, poll, count, entryOf, rebuild, bounds
<1>8. ASSUME NEW r \in Readers, ReaderGone(r) PROVE Types'
  <2>1. Queued'
    <3>1. PICK i \in 1..Len(waiting) :
            waiting' = SubSeq(waiting, 1, i - 1) \o SubSeq(waiting, i + 1, Len(waiting))
      BY <1>8 DEF ReaderGone
    <3>2. /\ SubSeq(waiting, 1, i - 1) \in Seq(Callers)
          /\ SubSeq(waiting, i + 1, Len(waiting)) \in Seq(Callers)
      BY SubSeqProperties DEF Queued
    <3> QED
      BY <3>1, <3>2, ConcatProperties DEF Queued
  <2> QED
    BY <1>8, <2>1 DEF ReaderGone, Row, Asked, Polled, Held, Counts, refresh, poll, count, entryOf, rebuild,
                      bounds
<1> QED
  BY <1>1, <1>2, <1>3, <1>4, <1>5, <1>6, <1>7, <1>8 DEF Building

\* Types is inductive.
THEOREM TypesHold == Spec => []Types
<1>1. Types /\ [Next]_vars => Types'
  <2>1. Types /\ Next => Types'
    BY AskTypes, PollTypes, EditTypes, CacheTypes
    DEF Next, Working, Sweeping, Building, Polling, Pollers
  <2>2. Types /\ UNCHANGED vars => Types'
    BY DEF Types, vars, Row, Asked, Polled, Held, Queued, Counts, refresh, poll, count, entryOf, rebuild,
           bounds
  <2> QED
    BY <2>1, <2>2
<1> QED
  BY InitTypes, <1>1, PTL DEF Spec

\* Every reachable state of the upkeep is well typed.
THEOREM TypeCorrect == Spec => []TypeOK
  BY TypesHold, TypeParts, PTL

-----------------------------------------------------------------------------
\* A poller is in the queue, or at the lock, once, and waits for that.
Parked ==
    /\ \A i \in 1..Len(waiting) :
           waiting[i] \in Pollers => step[waiting[i]] = "cache" /\ builder # waiting[i]
    /\ \A i, j \in 1..Len(waiting) : waiting[i] \in Pollers /\ waiting[i] = waiting[j] => i = j
    /\ builder \in Pollers => step[builder] = "cache"

\* Steps that leave the queue, and those who wait in it, alone.
LEMMA ParkedFrame ==
  ASSUME Parked, UNCHANGED <<waiting, builder>>,
         \A p \in Pollers : step[p] = "cache" => step'[p] = "cache"
  PROVE  Parked'
  BY DEF Parked

\* A caller joins the queue.
LEMMA ParkedJoins ==
  ASSUME Types, Parked, NEW x \in Callers, waiting' = Append(waiting, x), builder' = builder,
         \A i \in 1..Len(waiting) : waiting[i] # x,
         builder # x,
         \A p \in Pollers : step[p] = "cache" => step'[p] = "cache",
         x \in Pollers => step'[x] = "cache"
  PROVE  Parked'
<1>1. /\ Len(waiting') = Len(waiting) + 1 /\ waiting'[Len(waiting) + 1] = x
      /\ \A i \in 1..Len(waiting) : waiting'[i] = waiting[i]
      /\ Len(waiting) \in Nat
  BY AppendProperties DEF Types, Queued
<1>2. \A i \in 1..Len(waiting') : i \in 1..Len(waiting) \/ i = Len(waiting) + 1
  BY <1>1
<1>3. \A i \in 1..Len(waiting') :
          waiting'[i] \in Pollers => step'[waiting'[i]] = "cache" /\ builder' # waiting'[i]
  <2> SUFFICES ASSUME NEW i \in 1..Len(waiting'), waiting'[i] \in Pollers
               PROVE  step'[waiting'[i]] = "cache" /\ builder' # waiting'[i]
    OBVIOUS
  <2>1. CASE i \in 1..Len(waiting)
    BY <1>1, <2>1 DEF Parked
  <2>2. CASE i = Len(waiting) + 1
    BY <1>1, <2>2
  <2> QED
    BY <1>2, <2>1, <2>2
<1>4. \A i, j \in 1..Len(waiting') : waiting'[i] \in Pollers /\ waiting'[i] = waiting'[j] => i = j
  <2> SUFFICES ASSUME NEW i \in 1..Len(waiting'), NEW j \in 1..Len(waiting'),
                      waiting'[i] \in Pollers, waiting'[i] = waiting'[j]
               PROVE  i = j
    OBVIOUS
  <2>1. CASE i \in 1..Len(waiting) /\ j \in 1..Len(waiting)
    BY <1>1, <2>1 DEF Parked
  <2>2. CASE i = Len(waiting) + 1 \/ j = Len(waiting) + 1
    BY <1>1, <1>2, <2>2
  <2> QED
    BY <1>2, <2>1, <2>2
<1> QED
  BY <1>3, <1>4 DEF Parked

\* A poller that asks for a snapshot joins the queue, or need not.
LEMMA ParkedWarm ==
  ASSUME Types, Parked, NEW p \in Pollers, step[p] # "cache", Warm(p), builder' = builder
  PROVE  Parked'
<1>1. CASE Fresh
  <2>1. step' = [step EXCEPT ![p] = "idle"] /\ waiting' = waiting
    BY <1>1 DEF Warm, Goto
  <2> QED
    BY <2>1, ParkedFrame DEF Types, Polled
<1>2. CASE ~Fresh
  <2>1. step' = [step EXCEPT ![p] = "cache"] /\ waiting' = Append(waiting, p)
    BY <1>2 DEF Warm, Goto
  <2>2. (\A i \in 1..Len(waiting) : waiting[i] # p) /\ builder # p
    BY DEF Parked
  <2>3. p \in Callers
    BY DEF Callers
  <2> QED
    BY <2>1, <2>2, <2>3, ParkedJoins DEF Types, Polled
<1> QED
  BY <1>1, <1>2

\* A place falls out of the queue: the others keep their order.
LEMMA ParkedLeaves ==
  ASSUME Types, Parked, NEW k \in 1..Len(waiting),
         Len(waiting') = Len(waiting) - 1,
         \A i \in 1..(Len(waiting) - 1) : waiting'[i] = waiting[IF i < k THEN i ELSE i + 1]
  PROVE  /\ \A i \in 1..Len(waiting') :
                waiting'[i] \in Pollers => /\ step[waiting'[i]] = "cache" /\ builder # waiting'[i]
                                           /\ waiting'[i] # waiting[k]
         /\ \A i, j \in 1..Len(waiting') : waiting'[i] \in Pollers /\ waiting'[i] = waiting'[j] => i = j
<1>1. Len(waiting) \in Nat
  BY LenProperties DEF Types, Queued
<1> DEFINE at(i) == IF i < k THEN i ELSE i + 1
<1>2. \A i \in 1..Len(waiting') : at(i) \in 1..Len(waiting) /\ at(i) # k /\ waiting'[i] = waiting[at(i)]
  BY <1>1
<1>3. \A i, j \in 1..Len(waiting') : at(i) = at(j) => i = j
  BY <1>1
<1> HIDE DEF at
<1>4. \A i \in 1..Len(waiting') :
          waiting'[i] \in Pollers => /\ step[waiting'[i]] = "cache" /\ builder # waiting'[i]
                                     /\ waiting'[i] # waiting[k]
  BY <1>2 DEF Parked
<1>5. \A i, j \in 1..Len(waiting') : waiting'[i] \in Pollers /\ waiting'[i] = waiting'[j] => i = j
  BY <1>2, <1>3 DEF Parked
<1> QED
  BY <1>4, <1>5

\* Every step keeps the pollers parked.
LEMMA ParkedStep == Types /\ Parked /\ [Next]_vars => Parked'
<1> SUFFICES ASSUME Types, Parked, [Next]_vars PROVE Parked'
  OBVIOUS
<1> USE UpkeepConstants
<1>0. Len(waiting) \in Nat /\ None \notin Pollers
  BY LenProperties DEF Types, Queued, Pollers
<1>1. CASE ProviderChanges \/ (\E q \in Requesters : Request(q) \/ Send(q))
           \/ EditTell \/ MarkFails \/ EditorGone \/ (\E s \in Statuses \ {"exhausted"} : Edit(s)) \/ List \/ Expire \/ UNCHANGED vars
  <2>1. UNCHANGED <<waiting, builder, step>>
    BY <1>1 DEF ProviderChanges, Request, Send, EditTell, MarkFails, EditorGone, Edit, List, Expire, vars, poll, rebuild
  <2> QED
    BY <2>1, ParkedFrame
<1>2. ASSUME NEW p \in Pollers, Polling(p) \/ PollFails(p) PROVE Parked'
  <2>1. UNCHANGED <<waiting, builder>>
    BY <1>2 DEF Polling, ReadRow, Poll, PollFails, WriteStatus, Tell, rebuild
  <2>2. step[p] # "cache" /\ \A o \in Pollers \ {p} : step'[o] = step[o]
    BY <1>2 DEF Polling, ReadRow, Poll, PollFails, WriteStatus, Tell, Goto, Types, Polled
  <2> QED
    BY <2>1, <2>2, ParkedFrame
<1>3. CASE Receive
  <2>1. UNCHANGED <<waiting, builder>> /\ step["worker"] = "idle" /\ step' = [step EXCEPT !["worker"] = "get"]
    BY <1>3 DEF Receive, Goto, rebuild
  <2> QED
    BY <2>1, ParkedFrame DEF Types, Polled
<1>4. CASE Finish
  <2>1. step["worker"] = "finish" /\ builder' = builder
    BY <1>4 DEF Finish, rebuild
  <2>2. CASE entry = "dirty"
    <3>1. waiting' = waiting /\ step' = [step EXCEPT !["worker"] = "get"]
      BY <1>4, <2>2 DEF Finish, Goto
    <3> QED
      BY <2>1, <3>1, ParkedFrame DEF Types, Polled
  <2>3. CASE entry # "dirty"
    <3>1. Warm("worker")
      BY <1>4, <2>3 DEF Finish
    <3> QED
      BY <2>1, <3>1, ParkedWarm DEF Pollers
  <2> QED
    BY <2>2, <2>3
<1>5. CASE Warmed
  <2>1. step["sweep"] = "warm" /\ builder' = builder /\ Warm("sweep")
    BY <1>5 DEF Warmed, rebuild
  <2> QED
    BY <2>1, ParkedWarm DEF Pollers
<1>6. CASE Enter
  <2>1. /\ 1 \in 1..Len(waiting) /\ Len(waiting') = Len(waiting) - 1
        /\ \A i \in 1..(Len(waiting) - 1) : waiting'[i] = waiting[IF i < 1 THEN i ELSE i + 1]
        /\ Head(waiting) = waiting[1] /\ builder = None
    BY <1>0, <1>6, HeadTailProperties, EmptySeq DEF Enter, Types, Queued
  <2>2. /\ \A i \in 1..Len(waiting') :
                waiting'[i] \in Pollers => /\ step[waiting'[i]] = "cache" /\ builder # waiting'[i]
                                           /\ waiting'[i] # waiting[1]
        /\ \A i, j \in 1..Len(waiting') : waiting'[i] \in Pollers /\ waiting'[i] = waiting'[j] => i = j
    BY <2>1, ParkedLeaves
  <2>3. CASE Fresh
    <3>1. builder' = builder /\ Return(waiting[1])
      BY <1>6, <2>1, <2>3 DEF Enter, rebuild
    <3>2. \A p \in Pollers \ {waiting[1]} : step'[p] = step[p]
      BY <3>1 DEF Return, Types, Polled
    <3> QED
      BY <1>0, <2>1, <2>2, <3>1, <3>2 DEF Parked
  <2>4. CASE ~Fresh
    <3>1. builder' = waiting[1] /\ step' = step
      BY <1>6, <2>1, <2>4 DEF Enter
    <3>2. waiting[1] \in Pollers => step[waiting[1]] = "cache"
      BY <2>1 DEF Parked
    <3> QED
      BY <2>2, <3>1, <3>2 DEF Parked
  <2> QED
    BY <2>3, <2>4
<1>7. CASE Install \/ BuildFails
  <2>1. waiting' = waiting /\ builder' = None /\ Return(builder)
    BY <1>7 DEF Install, BuildFails, Free
  <2>2. \A p \in Pollers \ {builder} : step'[p] = step[p]
    BY <2>1 DEF Return, Types, Polled
  <2> QED
    BY <1>0, <2>1, <2>2 DEF Parked
<1>8. ASSUME NEW r \in Readers, Miss(r) PROVE Parked'
  <2>1. /\ r \in Callers \ Pollers /\ waiting' = Append(waiting, r) /\ UNCHANGED <<builder, step>>
        /\ builder # r /\ \A i \in 1..Len(waiting) : waiting[i] # r
    BY <1>8 DEF Miss, Callers, Pollers, rebuild, poll
  <2> QED
    BY <2>1, ParkedJoins
<1>9. ASSUME NEW r \in Readers, ReaderGone(r) PROVE Parked'
  <2>1. PICK k \in 1..Len(waiting) :
          waiting' = SubSeq(waiting, 1, k - 1) \o SubSeq(waiting, k + 1, Len(waiting))
    BY <1>9 DEF ReaderGone
  <2>2. UNCHANGED <<builder, step>>
    BY <1>9 DEF ReaderGone, rebuild, poll
  <2> DEFINE before == SubSeq(waiting, 1, k - 1)
             after == SubSeq(waiting, k + 1, Len(waiting))
  <2>3. /\ before \in Seq(Callers) /\ Len(before) = k - 1 /\ \A i \in 1..(k - 1) : before[i] = waiting[i]
        /\ after \in Seq(Callers) /\ Len(after) = Len(waiting) - k
        /\ \A i \in 1..(Len(waiting) - k) : after[i] = waiting[k + i]
    BY <1>0, SubSeqProperties DEF Types, Queued
  <2>4. waiting' = before \o after
    BY <2>1
  <2> HIDE DEF before, after
  <2>5. Len(waiting') = Len(waiting) - 1
    <3>1. Len(waiting') = Len(before) + Len(after)
      BY <2>3, <2>4, ConcatProperties
    <3> QED
      BY <1>0, <2>3, <3>1
  <2>6. \A i \in 1..(Len(waiting) - 1) : waiting'[i] = waiting[IF i < k THEN i ELSE i + 1]
    <3> SUFFICES ASSUME NEW i \in 1..(Len(waiting) - 1)
                 PROVE  waiting'[i] = waiting[IF i < k THEN i ELSE i + 1]
      OBVIOUS
    <3>1. waiting'[i] = IF i <= k - 1 THEN before[i] ELSE after[i - (k - 1)]
      <4>1. before \in Seq(Callers) /\ after \in Seq(Callers)
        BY <2>3
      <4>2. Len(before) = k - 1 /\ i \in 1..(Len(before) + Len(after))
        BY <1>0, <2>3
      <4>3. (before \o after)[i] = IF i <= Len(before) THEN before[i] ELSE after[i - Len(before)]
        BY <4>1, <4>2, ConcatProperties
      <4> QED
        BY <2>4, <4>2, <4>3
    <3>2. CASE i < k
      <4>1. i \in 1..(k - 1)
        BY <1>0, <3>2
      <4> QED
        BY <2>3, <3>1, <3>2, <4>1
    <3>3. CASE ~(i < k)
      <4>1. i - (k - 1) \in 1..(Len(waiting) - k) /\ k + (i - (k - 1)) = i + 1 /\ ~(i <= k - 1)
        BY <1>0, <3>3
      <4>2. after[i - (k - 1)] = waiting[i + 1]
        BY <2>3, <4>1
      <4> QED
        BY <3>1, <3>3, <4>1, <4>2
    <3> QED
      BY <3>2, <3>3
  <2> QED
    BY <2>2, <2>5, <2>6, ParkedLeaves DEF Parked
<1> QED
  BY <1>1, <1>2, <1>3, <1>4, <1>5, <1>6, <1>7, <1>8, <1>9
  DEF Next, Working, Sweeping, Building, Polling, Pollers

-----------------------------------------------------------------------------
\* Whoever replaced a status has yet to count it.
Writing ==
    /\ \A p \in Pollers : was[p] # None => step[p] = "tell"
    /\ was["editor"] # None => edited # None

\* What is shown, and what a rebuild of the current count has read, is recent.
CacheInv ==
    /\ Writing
    /\ CacheIsCurrent
    /\ building = "install" /\ current => built \in Recent

\* A write adds what it replaced to the recent statuses.
LEMMA ReplaceKeeps ==
  ASSUME Types, NEW w \in Writers, NEW s \in Statuses, was[w] = None, Replace(w, s), lost' = lost,
         NEW x \in Recent, x # None
  PROVE  x \in Recent'
<1>1. was' = [was EXCEPT ![w] = status] /\ was \in [Writers -> Statuses \cup {None}]
  BY DEF Replace, Types, Row
<1>2. CASE x = status
  <2>1. was'[w] = x
    BY <1>1, <1>2
  <2> QED
    BY <2>1 DEF Recent
<1>3. ASSUME NEW v \in Writers, x = was[v] PROVE x \in Recent'
  <2>1. v # w /\ was'[v] = x
    BY <1>1, <1>3
  <2> QED
    BY <2>1 DEF Recent
<1>4. CASE x \in lost
  BY <1>4 DEF Recent
<1> QED
  BY <1>2, <1>3, <1>4 DEF Recent

\* The cache invariant across a write.
LEMMA WriteKeeps ==
  ASSUME Types, CacheInv, NEW w \in Writers, NEW s \in Statuses, was[w] = None, Replace(w, s),
         lost' = lost, UNCHANGED <<entryOf, rebuild>>
  PROVE  CacheIsCurrent' /\ (building = "install" /\ current => built \in Recent)'
<1> USE UpkeepConstants DEF entryOf, rebuild
<1>0. None \notin Statuses
  BY DEF Statuses, UsageControlled
<1>1. CacheIsCurrent'
  <2> SUFFICES ASSUME Fresh PROVE cache \in Recent'
    BY DEF CacheIsCurrent, Fresh
  <2> QED
    BY ReplaceKeeps DEF CacheInv, CacheIsCurrent, Fresh
<1>2. ASSUME building = "install", current PROVE built \in Recent'
  <2>1. built \in Recent /\ built # None
    BY <1>0, <1>2 DEF CacheInv, Types, Held
  <2> QED
    BY <2>1, ReplaceKeeps
<1> QED
  BY <1>1, <1>2

\* Steps that leave the row, the entry and its rebuild alone.
LEMMA CacheFrame ==
  ASSUME CacheInv, UNCHANGED <<status, count, entryOf, rebuild>>
  PROVE  CacheIsCurrent' /\ (building = "install" /\ current => built \in Recent)'
<1> USE DEF CacheInv, count, entryOf, rebuild
<1>1. Recent' = Recent
  BY DEF Recent
<1> QED
  BY <1>1 DEF CacheIsCurrent, Fresh

\* CacheInv is kept by what writes and counts.
LEMMA WriterStep ==
  ASSUME Types, CacheInv,
         (\E p \in Pollers : Polling(p) \/ PollFails(p)) \/ (\E s \in Statuses \ {"exhausted"} : Edit(s))
         \/ EditTell \/ EditorGone
  PROVE  CacheInv'
<1> USE UpkeepConstants
<1>0. Pollers \subseteq Writers /\ "editor" \in Writers \ Pollers
  BY DEF Writers, Pollers
<1>1. ASSUME NEW p \in Pollers, ReadRow(p) \/ Poll(p) \/ PollFails(p) PROVE CacheInv'
  <2>1. UNCHANGED <<status, count, entryOf, rebuild, edited>>
    BY <1>1 DEF ReadRow, Poll, PollFails
  <2>2. step[p] # "tell" /\ \A o \in Pollers \ {p} : step'[o] = step[o]
    BY <1>1 DEF ReadRow, Poll, PollFails, Goto, Types, Polled
  <2>3. Writing'
    BY <2>1, <2>2 DEF CacheInv, Writing, count
  <2> QED
    BY <2>1, <2>3, CacheFrame DEF CacheInv
<1>2. ASSUME NEW p \in Pollers, WriteStatus(p) PROVE CacheInv'
  <2>1. was[p] = None
    BY <1>2 DEF WriteStatus, CacheInv, Writing
  <2>2. answer[p] \in Statuses /\ Replace(p, answer[p]) /\ lost' = lost /\ UNCHANGED <<entryOf, rebuild>>
    BY <1>2 DEF WriteStatus, Types, Polled, Statuses
  <2>3. Writing'
    <3>1. step' = [step EXCEPT ![p] = "tell"] /\ was' = [was EXCEPT ![p] = status] /\ edited' = edited
      BY <1>2 DEF WriteStatus, Goto, Replace
    <3> QED
      BY <1>0, <3>1 DEF CacheInv, Writing, Types, Row, Polled
  <2> QED
    BY <1>0, <2>1, <2>2, <2>3, WriteKeeps DEF CacheInv
<1>3. ASSUME NEW p \in Pollers, Tell(p) PROVE CacheInv'
  <2>1. was' = [was EXCEPT ![p] = None] /\ ~fresh' /\ ~current' /\ edited' = edited
    BY <1>3 DEF Tell, Count
  <2>2. \A o \in Pollers \ {p} : step'[o] = step[o]
    BY <1>3 DEF Tell, Goto, Types, Polled
  <2>3. Writing'
    BY <1>0, <2>1, <2>2 DEF CacheInv, Writing, Types, Row
  <2> QED
    BY <2>1, <2>3 DEF CacheInv, CacheIsCurrent, Fresh
<1>4. ASSUME NEW s \in Statuses \ {"exhausted"}, Edit(s) PROVE CacheInv'
  <2>1. was["editor"] = None
    BY <1>4 DEF Edit, CacheInv, Writing
  <2>2. Replace("editor", s) /\ lost' = lost /\ edited' = s /\ UNCHANGED <<entryOf, rebuild, step>>
    BY <1>4 DEF Edit, poll
  <2>3. s # None
    BY DEF Statuses, UsageControlled
  <2>4. Writing'
    BY <1>0, <2>2, <2>3 DEF CacheInv, Writing, Replace, Types, Row
  <2> QED
    BY <1>0, <2>1, <2>2, <2>4, WriteKeeps DEF CacheInv
<1>5. CASE EditTell
  <2>1. was' = [was EXCEPT !["editor"] = None] /\ ~fresh' /\ ~current' /\ step' = step
    BY <1>5 DEF EditTell, Count, poll
  <2>2. Writing'
    BY <1>0, <2>1 DEF CacheInv, Writing, Types, Row
  <2> QED
    BY <2>1, <2>2 DEF CacheInv, CacheIsCurrent, Fresh
<1>6. CASE EditorGone
  <2>1. /\ was' = [was EXCEPT !["editor"] = None] /\ lost' = lost \cup {was["editor"]}
        /\ UNCHANGED <<status, step, entryOf, rebuild>>
    BY <1>6 DEF EditorGone, poll
  <2>2. Writing'
    BY <1>0, <2>1 DEF CacheInv, Writing, Types, Row
  <2>3. Recent \subseteq Recent'
    <3>1. \A v \in Writers \ {"editor"} : was'[v] = was[v]
      BY <2>1 DEF Types, Row
    <3>2. {was[v] : v \in Writers} \subseteq {was'[v] : v \in Writers} \cup lost'
      BY <2>1, <3>1
    <3> QED
      BY <2>1, <3>2 DEF Recent
  <2>4. CacheIsCurrent'
    BY <2>1, <2>3 DEF CacheInv, CacheIsCurrent, Fresh, entryOf
  <2> QED
    BY <2>1, <2>2, <2>3, <2>4 DEF CacheInv, rebuild
<1> QED
  BY <1>1, <1>2, <1>3, <1>4, <1>5, <1>6 DEF Polling

\* CacheInv is kept by what reads and rebuilds.
LEMMA ReaderStep ==
  ASSUME Types, Parked, CacheInv,
         Warmed \/ Building \/ BuildFails \/ Expire \/ (\E r \in Readers : Miss(r) \/ ReaderGone(r))
  PROVE  CacheInv'
<1> USE UpkeepConstants
<1>1. ASSUME NEW x \in Callers \cup {None}, Return(x), x \in Pollers => step[x] # "tell",
             edited' = edited, was' = was
      PROVE  Writing'
  BY <1>1 DEF Return, CacheInv, Writing, Types, Polled
<1>2. CASE Warmed
  <2>1. step["sweep"] # "tell" /\ step'["worker"] = step["worker"] /\ UNCHANGED <<edited, was>>
    BY <1>2 DEF Warmed, Warm, Goto, Types, Polled, Pollers, count
  <2>2. Writing'
    BY <2>1 DEF CacheInv, Writing, Pollers
  <2>3. UNCHANGED <<status, count, entryOf, rebuild>>
    BY <1>2 DEF Warmed
  <2> QED
    BY <2>2, <2>3, CacheFrame DEF CacheInv
<1>3. CASE Enter
  <2>1. UNCHANGED <<status, count, entryOf, edited>>
    BY <1>3 DEF Enter
  <2>2. Head(waiting) \in Callers /\ (Head(waiting) \in Pollers => step[Head(waiting)] = "cache")
    <3>1. Head(waiting) = waiting[1] /\ waiting[1] \in Callers /\ 1 \in 1..Len(waiting)
      BY <1>3, HeadTailProperties, EmptySeq, LenProperties DEF Enter, Types, Queued
    <3> QED
      BY <3>1 DEF Parked
  <2>3. CASE Fresh
    <3>1. Return(Head(waiting)) /\ UNCHANGED rebuild
      BY <1>3, <2>3 DEF Enter
    <3>2. Writing'
      BY <1>1, <2>1, <2>2, <3>1 DEF count
    <3> QED
      BY <2>1, <3>1, <3>2, CacheFrame DEF CacheInv
  <2>4. CASE ~Fresh
    <3>1. building' = "list" /\ step' = step
      BY <1>3, <2>4 DEF Enter
    <3>2. Writing' /\ CacheIsCurrent'
      BY <2>1, <2>4, <3>1 DEF CacheInv, Writing, CacheIsCurrent, Fresh, count, entryOf
    <3> QED
      BY <3>1, <3>2 DEF CacheInv
  <2> QED
    BY <2>3, <2>4
<1>4. CASE List
  <2>1. built' = status /\ UNCHANGED <<status, count, entryOf, edited, step>>
    BY <1>4 DEF List, poll
  <2>2. Recent' = Recent /\ built' \in Recent
    BY <2>1 DEF Recent, count
  <2> QED
    BY <2>1, <2>2 DEF CacheInv, Writing, CacheIsCurrent, Fresh, count, entryOf
<1>5. CASE Install \/ BuildFails
  <2>1. /\ UNCHANGED <<status, count, edited>> /\ Return(builder) /\ building' = "idle"
        /\ builder \in Callers \cup {None} /\ (builder \in Pollers => step[builder] = "cache")
    BY <1>5 DEF Install, BuildFails, Free, Types, Held, Parked
  <2>2. Writing' /\ Recent' = Recent
    BY <1>1, <2>1 DEF count, Recent
  <2>3. CacheIsCurrent'
    <3>1. CASE Install
      BY <2>2, <3>1 DEF Install, CacheInv, CacheIsCurrent, Fresh
    <3>2. CASE BuildFails
      BY <2>2, <3>2 DEF BuildFails, entryOf, CacheInv, CacheIsCurrent, Fresh
    <3> QED
      BY <1>5, <3>1, <3>2
  <2> QED
    BY <2>1, <2>2, <2>3 DEF CacheInv
<1>6. CASE Expire
  <2>1. ~fresh' /\ UNCHANGED <<status, was, rebuild, edited, step>>
    BY <1>6 DEF Expire, poll
  <2>2. building = "install" => Recent' = Recent
    BY <1>6, <2>1 DEF Expire, Recent
  <2> QED
    BY <2>1, <2>2 DEF CacheInv, Writing, CacheIsCurrent, Fresh, rebuild
<1>7. CASE \E r \in Readers : Miss(r) \/ ReaderGone(r)
  <2>1. UNCHANGED <<status, count, entryOf, rebuild, edited, step>>
    BY <1>7 DEF Miss, ReaderGone, poll
  <2>2. Writing'
    BY <2>1 DEF CacheInv, Writing, count
  <2> QED
    BY <2>1, <2>2, CacheFrame DEF CacheInv
<1> QED
  BY <1>2, <1>3, <1>4, <1>5, <1>6, <1>7 DEF Building

\* The snapshot invariant is inductive over the types and the queue.
THEOREM UpkeepInvariant == Spec => [](Types /\ Parked /\ CacheInv)
<1>1. Init => Parked /\ CacheInv
  BY UpkeepConstants DEF Init, Parked, CacheInv, Writing, CacheIsCurrent, Fresh, Pollers, Writers
<1>2. Types /\ Parked /\ CacheInv /\ [Next]_vars => CacheInv'
  <2> SUFFICES ASSUME Types, Parked, CacheInv, [Next]_vars PROVE CacheInv'
    OBVIOUS
  <2>1. CASE ProviderChanges \/ (\E q \in Requesters : Request(q) \/ Send(q)) \/ MarkFails \/ UNCHANGED vars
    <3>1. UNCHANGED <<status, count, entryOf, rebuild, edited, step>>
      BY <2>1 DEF ProviderChanges, Request, Send, MarkFails, vars, poll
    <3>2. Writing'
      BY <3>1 DEF CacheInv, Writing, count
    <3> QED
      BY <3>1, <3>2, CacheFrame DEF CacheInv
  <2>2. CASE Receive \/ Finish
    <3>1. UNCHANGED <<status, count, entryOf, rebuild, edited>>
      BY <2>2 DEF Receive, Finish
    <3>2. step["worker"] # "tell" /\ \A o \in Pollers \ {"worker"} : step'[o] = step[o]
      BY <2>2 DEF Receive, Finish, Warm, Goto, Types, Polled
    <3>3. Writing'
      BY <3>1, <3>2 DEF CacheInv, Writing, count
    <3> QED
      BY <3>1, <3>3, CacheFrame DEF CacheInv
  <2> QED
    BY <2>1, <2>2, WriterStep, ReaderStep DEF Next, Working, Sweeping, Polling, Pollers
<1> QED
  BY <1>1, <1>2, TypesHold, ParkedStep, PTL DEF Spec

\* A snapshot that passes for fresh is one the row has held since the last write that was counted.
THEOREM SnapshotsCurrent == Spec => []CacheIsCurrent
<1>1. CacheInv => CacheIsCurrent
  BY DEF CacheInv
<1> QED
  BY <1>1, UpkeepInvariant, PTL

-----------------------------------------------------------------------------
\* One wake-up for a key in the map: about to be sent, in the channel, or being worked off.
Resting == step["worker"] \in {"idle", "cache"}

Signal == channel > 0 \/ \E q \in Requesters : req[q] = "send"

AskInv ==
    /\ entry = "none" => ~Signal /\ Resting
    /\ Signal => Resting
    /\ \A q \in Requesters : req[q] = "send" =>
           channel = 0 /\ \A o \in Requesters \ {q} : req[o] = "idle"
    /\ entry # "none" => Signal \/ ~Resting
    /\ want => entry # "none"
    /\ want /\ entry = "clean" => Signal \/ step["worker"] \in {"get", "poll"}

\* A refresh that was asked for, and not begun, has a wake-up under way, or the worker at it, or marked
\* to come round once more.
NoneForgotten == want => Signal \/ step["worker"] \in {"get", "poll"} \/ (entry = "dirty" /\ ~Resting)

\* Steps that leave requests, and where the worker is, alone.
LEMMA AskFrame ==
  ASSUME AskInv, UNCHANGED <<entry, channel, req, want>>, step'["worker"] = step["worker"]
  PROVE  AskInv'
  BY DEF AskInv, Signal, Resting

\* The requester and the worker keep the wake-up.
LEMMA WorkerAsk ==
  ASSUME Types, AskInv,
         (\E q \in Requesters : Request(q) \/ Send(q)) \/ Working \/ PollFails("worker")
  PROVE  AskInv'
<1> USE DEF Types, Asked, Polled, Pollers
<1>1. ASSUME NEW q \in Requesters, Request(q) PROVE AskInv'
  <2>1. CASE entry = "none"
    <3>1. /\ entry' = "clean" /\ req' = [req EXCEPT ![q] = "send"] /\ channel' = channel /\ step' = step
      BY <1>1, <2>1 DEF Request, poll
    <3>2. channel = 0 /\ (\A o \in Requesters : req[o] = "idle") /\ Resting
      BY <2>1 DEF AskInv, Signal
    <3>3. Signal' /\ Resting'
      BY <3>1, <3>2 DEF Signal, Resting
    <3> QED
      BY <3>1, <3>2, <3>3 DEF AskInv
  <2>2. CASE entry # "none"
    <3>1. entry' = "dirty" /\ req' = req /\ channel' = channel /\ step' = step
      BY <1>1, <2>2 DEF Request, poll
    <3> QED
      BY <2>2, <3>1 DEF AskInv, Signal, Resting
  <2> QED
    BY <2>1, <2>2
<1>2. ASSUME NEW q \in Requesters, Send(q) PROVE AskInv'
  <2>1. /\ req[q] = "send" /\ req' = [req EXCEPT ![q] = "idle"] /\ channel' = channel + 1
        /\ UNCHANGED <<entry, want, step>>
    BY <1>2 DEF Send, poll
  <2>2. Signal /\ Signal' /\ Resting /\ Resting' /\ \A o \in Requesters : req'[o] = "idle"
    BY <2>1 DEF AskInv, Signal, Resting
  <2> QED
    BY <2>1, <2>2 DEF AskInv
<1>3. CASE Receive
  <2>1. /\ channel > 0 /\ channel' = 0 /\ step'["worker"] = "get" /\ UNCHANGED <<entry, req, want>>
    BY <1>3 DEF Receive, Goto
  <2>2. entry # "none" /\ \A q \in Requesters : req[q] = "idle"
    BY <2>1 DEF AskInv, Signal
  <2> QED
    BY <2>1, <2>2 DEF AskInv, Signal, Resting
<1>4. CASE ReadRow("worker")
  <2>1. step["worker"] = "get" /\ step'["worker"] = "poll" /\ UNCHANGED <<entry, channel, req, want>>
    BY <1>4 DEF ReadRow, Goto, refresh
  <2> QED
    BY <2>1 DEF AskInv, Signal, Resting
<1>5. CASE Poll("worker") \/ PollFails("worker") \/ WriteStatus("worker") \/ Tell("worker")
  <2>1. /\ step["worker"] \in {"poll", "write", "tell"} /\ step'["worker"] \in {"write", "tell", "finish"}
        /\ UNCHANGED <<entry, channel, req>>
    BY <1>5 DEF Poll, PollFails, WriteStatus, Tell, Goto, After, refresh
  <2>2. want' => want /\ step["worker"] # "poll"
    BY <1>5 DEF Poll, PollFails, WriteStatus, Tell, Begun, refresh
  <2> QED
    BY <2>1, <2>2 DEF AskInv, Signal, Resting
<1>6. CASE Finish
  <2>1. step["worker"] = "finish" /\ UNCHANGED <<channel, req, want>>
    BY <1>6 DEF Finish
  <2>2. CASE entry = "dirty"
    <3>1. entry' = "clean" /\ step'["worker"] = "get"
      BY <1>6, <2>2 DEF Finish, Goto
    <3> QED
      BY <2>1, <3>1 DEF AskInv, Signal, Resting
  <2>3. CASE entry # "dirty"
    <3>1. entry' = "none" /\ step'["worker"] \in {"idle", "cache"}
      BY <1>6, <2>3 DEF Finish, Warm, Goto
    <3>2. ~want
      BY <2>1, <2>3 DEF AskInv, Resting
    <3> QED
      BY <2>1, <3>1, <3>2 DEF AskInv, Signal, Resting
  <2> QED
    BY <2>2, <2>3
<1> QED
  BY <1>1, <1>2, <1>3, <1>4, <1>5, <1>6 DEF Working, Polling

\* The other steps do not touch it; a call that leaves the cache only lets the worker rest on.
LEMMA OtherAsk ==
  ASSUME Types, Parked, AskInv, [Next]_vars,
         ~((\E q \in Requesters : Request(q) \/ Send(q)) \/ Working \/ PollFails("worker"))
  PROVE  AskInv'
<1> USE UpkeepConstants DEF Types, Polled, Pollers
<1>1. CASE ProviderChanges \/ EditTell \/ MarkFails \/ EditorGone \/ (\E s \in Statuses \ {"exhausted"} : Edit(s))
           \/ List \/ Expire \/ (\E r \in Readers : Miss(r) \/ ReaderGone(r)) \/ UNCHANGED vars
  <2>1. UNCHANGED <<entry, channel, req, want, step>>
    BY <1>1 DEF ProviderChanges, EditTell, MarkFails, EditorGone, Edit, List, Expire, Miss, ReaderGone, vars,
      poll, refresh
  <2> QED
    BY <2>1, AskFrame
<1>2. CASE Sweeping \/ PollFails("sweep")
  <2>1. UNCHANGED <<entry, channel, req>>
    BY <1>2 DEF Sweeping, Polling, ReadRow, Poll, PollFails, WriteStatus, Tell, Warmed, refresh
  <2>2. step'["worker"] = step["worker"]
    BY <1>2 DEF Sweeping, Polling, ReadRow, Poll, PollFails, WriteStatus, Tell, Warmed, Warm, Goto
  <2>3. want' = want
    BY <1>2 DEF Sweeping, Polling, ReadRow, Poll, PollFails, WriteStatus, Tell, Warmed, Begun, refresh, Asked
  <2> QED
    BY <2>1, <2>2, <2>3, AskFrame
<1>3. CASE Enter \/ Install \/ BuildFails
  <2>1. UNCHANGED <<entry, channel, req, want>>
    BY <1>3 DEF Enter, Install, BuildFails, refresh
  <2>2. step'["worker"] = step["worker"] \/ (step["worker"] = "cache" /\ step'["worker"] = "idle")
    <3>1. CASE Enter
      <4>1. Head(waiting) = waiting[1] /\ 1 \in 1..Len(waiting)
        BY <3>1, HeadTailProperties, EmptySeq, LenProperties DEF Enter, Queued
      <4>2. step' = step \/ Return(waiting[1])
        BY <3>1, <4>1 DEF Enter
      <4> QED
        BY <4>1, <4>2 DEF Return, Parked
    <3>2. CASE Install \/ BuildFails
      BY <3>2 DEF Install, BuildFails, Return, Parked
    <3> QED
      BY <1>3, <3>1, <3>2
  <2> QED
    BY <2>1, <2>2, AskFrame DEF AskInv, Signal, Resting
<1> QED
  BY <1>1, <1>2, <1>3 DEF Next, Sweeping, Building

\* A refresh that was asked for is never forgotten, whatever fails: what it waits for is under way.
THEOREM NoRequestForgotten == Spec => []NoneForgotten
<1>1. Init => AskInv
  BY DEF Init, AskInv, Signal, Resting, Pollers
<1>2. Types /\ Parked /\ AskInv /\ [Next]_vars => AskInv'
  BY WorkerAsk, OtherAsk
<1>3. AskInv /\ Types => NoneForgotten
  BY DEF AskInv, NoneForgotten, Types, Asked
<1> QED
  BY <1>1, <1>2, <1>3, UpkeepInvariant, PTL DEF Spec
=============================================================================
