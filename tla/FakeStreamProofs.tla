---------------------------- MODULE FakeStreamProofs ----------------------------
(***************************************************************************)
(* The fake training stream, for any consumers and any number of messages, *)
(* iterations and connects: its types, that a disconnect() lets a consumer *)
(* take one message more at most, that messages are dispatched as the real *)
(* stream promises, and what becomes of them between dispatch and yield.   *)
(***************************************************************************)
EXTENDS FakeStream, SequenceTheorems, TLAPS

------------------------------------------------------------------------------
\* Type correctness

Entries == Message \cup {Stop}

\* A waiting consumer may be woken, nothing else.
Woke(before) ==
  \A d \in Consumers : at'[d] = before[d] \/ (before[d] = "waiting" /\ at'[d] = "woken")

LEMMA Wakes ==
  ASSUME NEW places \in [Consumers -> Places], WakeNext(places)
  PROVE  at' \in [Consumers -> Places] /\ Woke(places)
  BY DEF WakeNext, Woke, Places, Suspended

LEMMA Stays ==
  ASSUME TypeOK, NEW c \in Consumers, NEW place \in Places, Place(c, place)
  PROVE  /\ at' \in [Consumers -> Places] /\ at'[c] = place
         /\ \A d \in Consumers : d # c => at'[d] = at[d]
  BY DEF TypeOK, Place

LEMMA GivesUp ==
  ASSUME TypeOK, NEW c \in Consumers, NEW place \in {"out", "next"}, GiveUp(c, place)
  PROVE  /\ at' \in [Consumers -> Places] /\ at'[c] = place
         /\ \A d \in Consumers : d # c =>
              at'[d] = at[d] \/ (at[d] = "waiting" /\ at'[d] = "woken")
<1> DEFINE places == [at EXCEPT ![c] = place]
<1>1. /\ places \in [Consumers -> Places] /\ places[c] = place
      /\ \A d \in Consumers : d # c => places[d] = at[d]
  BY DEF TypeOK, Places
<1>2. WakeNext(places) \/ at' = places
  BY DEF GiveUp
<1> HIDE DEF places
<1>3. place # "waiting"
  OBVIOUS
<1>4. CASE at' = places
  BY <1>1, <1>4
<1>5. CASE WakeNext(places)
  <2>1. at' \in [Consumers -> Places] /\ Woke(places)
    BY <1>1, <1>5, Wakes
  <2>2. QED
    BY <1>1, <1>3, <2>1 DEF Woke
<1>6. QED
  BY <1>2, <1>4, <1>5

LEMMA Puts ==
  ASSUME TypeOK, NEW m \in Entries, Put(m)
  PROVE  queue' \in Seq(Entries) /\ at' \in [Consumers -> Places] /\ Woke(at)
<1>1. queue \in Seq(Entries) /\ at \in [Consumers -> Places]
  BY DEF TypeOK, Entries
<1>2. queue' \in Seq(Entries)
  BY <1>1, AppendProperties DEF Put
<1>3. QED
  BY <1>1, <1>2, Wakes DEF Put

LEMMA NoMessageStops == Stop \notin Message
  BY DEF Stop, Message

\* What taking from the queue leaves.
Dispatches == [type : Types, on : {1}, n : Nat]
Yields == [n : Nat, by : Consumers]
YieldsTyped == held \in [Consumers -> Nat] /\ yielded \in Seq(Yields) /\ abandoned \subseteq Nat

LEMMA RecordTyped ==
  ASSUME TypeOK, NEW m \in Message, Record(m)
  PROVE  dispatched' \in Seq(Dispatches)
<1>1. [type |-> m.type, on |-> 1, n |-> m.n] \in Dispatches
  BY DEF Message, Dispatches
<1>2. QED
  BY <1>1, AppendProperties DEF Record, TypeOK, Dispatches

LEMMA YieldToTyped ==
  ASSUME TypeOK, NEW c \in Consumers, NEW n \in Nat, YieldTo(c, n)
  PROVE  yielded' \in Seq(Yields)
<1>1. [n |-> n, by |-> c] \in Yields
  BY DEF Yields
<1>2. QED
  BY <1>1, AppendProperties DEF YieldTo, TypeOK, Yields

LEMMA GetTyped ==
  ASSUME TypeOK, NEW c \in Consumers, Get(c)
  PROVE  /\ queue' \in Seq(Entries) /\ at' \in [Consumers -> Places]
         /\ at'[c] \in {"waiting", "next", "body", "paused", "out"}
         /\ \A d \in Consumers : d # c => at'[d] = at[d]
         /\ pongs' \in Nat /\ taken' \in Nat /\ late' \in [Consumers -> Nat]
         /\ dispatched' \in Seq(Dispatches) /\ YieldsTyped'
         /\ UNCHANGED <<connected, loaded, messages>>
<1>1. UNCHANGED <<connected, loaded, messages>>
  BY DEF Get
<1>2. CASE queue = <<>>
  <2>1. Place(c, "waiting") /\ UNCHANGED <<queue, taken, late, pongs, dispatched, yields>>
    BY <1>2 DEF Get
  <2>2. "waiting" \in Places
    BY DEF Places, Suspended
  <2>3. QED
    BY <1>1, <2>1, <2>2, Stays DEF TypeOK, Entries, Dispatches, YieldsTyped, Yields, yields
<1>3. CASE queue # <<>>
  <2>1. Head(queue) \in Entries /\ Tail(queue) \in Seq(Entries)
    BY <1>3, HeadTailProperties DEF TypeOK, Entries
  <2>2. CASE Head(queue) = Stop
    <3>1. TakeStop(c)
      BY <1>3, <2>2 DEF Get
    <3>2. "out" \in Places
      BY DEF Places
    <3>3. QED
      BY <1>1, <2>1, <3>1, <3>2, Stays
         DEF TakeStop, TypeOK, Dispatches, YieldsTyped, Yields, yields
  <2>3. CASE Head(queue) # Stop
    <3> DEFINE m == Head(queue)
    <3>1. TakeMessage(c, m)
      BY <1>3, <2>3 DEF Get
    <3>2. m \in Message
      BY <2>1, <2>3 DEF Entries
    <3> HIDE DEF m
    <3>3. queue' \in Seq(Entries) /\ taken' \in Nat
      BY <2>1, <3>1 DEF TakeMessage, TypeOK, m
    <3>4. late' \in [Consumers -> Nat]
      BY <3>1 DEF TakeMessage, TypeOK
    <3>5. pongs' \in Nat
      BY <3>1 DEF TakeMessage, TakePing, Dispatch, Crash, TypeOK
    <3>6. dispatched' \in Seq(Dispatches)
      <4>1. Record(m) \/ dispatched' = dispatched
        BY <3>1 DEF TakeMessage, TakePing, Dispatch, Crash
      <4>2. QED
        BY <3>2, <4>1, RecordTyped DEF TypeOK, Dispatches
    <3>7. YieldsTyped'
      <4>1. m.n \in Nat /\ YieldsTyped
        BY <3>2 DEF Message, TypeOK, YieldsTyped, Yields
      <4>2. held' = held \/ held' = [held EXCEPT ![c] = m.n]
        BY <3>1 DEF TakeMessage, TakePing, Dispatch, Crash
      <4>3. yielded' = yielded \/ YieldTo(c, m.n)
        BY <3>1 DEF TakeMessage, TakePing, Dispatch, Crash
      <4>4. held' \in [Consumers -> Nat]
        BY <4>1, <4>2 DEF YieldsTyped
      <4>5. yielded' \in Seq(Yields)
        BY <4>1, <4>3, YieldToTyped DEF YieldsTyped
      <4>6. QED
        BY <3>1, <4>1, <4>4, <4>5 DEF TakeMessage, YieldsTyped
    <3>8. PICK place \in {"next", "body", "paused", "out"} : Place(c, place)
      BY <3>1 DEF TakeMessage, TakePing, Dispatch, Crash
    <3>9. place \in Places
      BY DEF Places, Suspended
    <3>10. QED
      BY <1>1, <3>3, <3>4, <3>5, <3>6, <3>7, <3>8, <3>9, Stays
  <2>4. QED
    BY <2>2, <2>3
<1>4. QED
  BY <1>2, <1>3

LEMMA InitTyped == Init => TypeOK
<1> SUFFICES ASSUME Init
             PROVE  TypeOK
  OBVIOUS
<1>1. /\ messages \in Seq(Message) /\ queue \in Seq(Message \cup {Stop})
      /\ offered \in Seq(Types) /\ dispatched \in Seq([type : Types, on : {1}, n : Nat])
      /\ yielded \in Seq([n : Nat, by : Consumers])
  BY EmptySeq DEF Init
<1>2. /\ at \in [Consumers -> Places] /\ late \in [Consumers -> Nat]
      /\ held \in [Consumers -> Nat] /\ abandoned \subseteq Nat
  BY DEF Init, Places
<1>3. connected \in BOOLEAN /\ loaded \in BOOLEAN /\ instant \in Instant
  BY DEF Init
<1>4. pongs \in Nat /\ taken \in Nat /\ silent \subseteq Consumers /\ {starts, connects} \subseteq Nat
  BY DEF Init
<1>5. QED
  BY <1>1, <1>2, <1>3, <1>4 DEF TypeOK

LEMMA TestTyped ==
  ASSUME TypeOK, Connect \/ Disconnect \/ \E t \in Injected : Inject(t)
  PROVE  TypeOK'
<1>1. CASE Connect
  <2>1. queue' \in Seq(Message \cup {Stop})
    <3>1. messages \in Seq(Message \cup {Stop}) /\ queue \in Seq(Message \cup {Stop})
      <4>1. Seq(Message) \subseteq Seq(Message \cup {Stop})
        OBVIOUS
      <4>2. QED
        BY <4>1 DEF TypeOK
    <3>2. queue' = queue \/ queue' = queue \o messages
      BY <1>1 DEF Connect
    <3>3. QED
      BY <3>1, <3>2, ConcatProperties
  <2>2. late' \in [Consumers -> Nat] /\ connects' \in Nat
    BY <1>1 DEF Connect, TypeOK
  <2>3. connected' = TRUE /\ loaded' = TRUE
    BY <1>1 DEF Connect
  <2>4. QED
    BY <1>1, <2>1, <2>2, <2>3 DEF Connect, TypeOK, yields
<1>2. CASE Disconnect
  <2>1. queue' \in Seq(Message \cup {Stop}) /\ at' \in [Consumers -> Places]
    BY <1>2, Puts DEF Disconnect, Entries
  <2>2. connected' = FALSE
    BY <1>2 DEF Disconnect
  <2>3. QED
    BY <1>2, <2>1, <2>2 DEF Disconnect, TypeOK, counts, yields
<1>3. ASSUME NEW t \in Injected, Inject(t)
      PROVE  TypeOK'
  <2> DEFINE m == [n |-> Len(offered) + 1, type |-> t]
  <2>1. t \in Types /\ offered \in Seq(Types) /\ Len(offered) \in Nat
    BY FakeStreamAssumption, LenProperties DEF FakeStreamAssumption, TypeOK
  <2>2. m \in Message
    BY <2>1 DEF Message
  <2>3. \/ Put(m) /\ UNCHANGED messages
        \/ messages' = Append(messages, m) /\ UNCHANGED <<queue, at>>
    BY <1>3 DEF Inject
  <2> HIDE DEF m
  <2>4. queue' \in Seq(Message \cup {Stop}) /\ at' \in [Consumers -> Places]
    BY <2>2, <2>3, Puts DEF Entries, TypeOK
  <2>5. messages' \in Seq(Message)
    <3>1. messages \in Seq(Message)
      BY DEF TypeOK
    <3>2. Append(messages, m) \in Seq(Message)
      BY <2>2, <3>1, AppendProperties
    <3>3. QED
      BY <2>3, <3>1, <3>2, Zenon
  <2>6. offered' \in Seq(Types)
    BY <1>3, <2>1, AppendProperties DEF Inject
  <2>7. QED
    BY <1>3, <2>4, <2>5, <2>6 DEF Inject, TypeOK, counts, yields
<1>4. QED
  BY <1>1, <1>2, <1>3

LEMMA ConsumerTyped ==
  ASSUME TypeOK, NEW c \in Consumers,
         \/ Start(c) \/ Advance(c) \/ Woken(c) \/ Expire(c) \/ TimedOut(c)
         \/ Yield(c) \/ Resume(c) \/ Leave(c)
  PROVE  TypeOK'
<1>1. {"out", "next", "expired", "overdue", "body"} \subseteq Places
  BY DEF Places, Suspended
<1>2. YieldsTyped
  BY DEF TypeOK, YieldsTyped, Yields
<1>3. ASSUME Outside, YieldsTyped', UNCHANGED connects, starts' \in Nat,
             silent' \subseteq Consumers, NEW place \in {"out", "next", "expired", "overdue", "body"}, Place(c, place)
      PROVE  TypeOK'
  <2>1. at' \in [Consumers -> Places]
    BY <1>1, <1>3, Stays
  <2>2. QED
    BY <1>3, <2>1 DEF Outside, channel, TypeOK, YieldsTyped, Yields
<1>4. ASSUME Outside, YieldsTyped', UNCHANGED counts, silent' \subseteq Consumers,
             NEW place \in {"out", "next"}, GiveUp(c, place)
      PROVE  TypeOK'
  <2>1. at' \in [Consumers -> Places]
    BY <1>4, GivesUp
  <2>2. QED
    BY <1>4, <2>1 DEF Outside, channel, counts, TypeOK, YieldsTyped, Yields
<1>5. ASSUME Get(c), UNCHANGED <<instant, offered, silent, counts>>
      PROVE  TypeOK'
  <2>1. /\ queue' \in Seq(Entries) /\ at' \in [Consumers -> Places]
        /\ pongs' \in Nat /\ taken' \in Nat /\ late' \in [Consumers -> Nat]
        /\ dispatched' \in Seq(Dispatches) /\ YieldsTyped'
        /\ UNCHANGED <<connected, loaded, messages>>
    BY <1>5, GetTyped
  <2>2. QED
    BY <1>5, <2>1 DEF TypeOK, Entries, counts, Dispatches, YieldsTyped, Yields
<1>6. silent \subseteq Consumers /\ starts \in Nat
  BY DEF TypeOK
<1>7. Moves => Outside /\ YieldsTyped'
  BY <1>2 DEF Moves, yields, YieldsTyped
<1>8. CASE Start(c)
  BY <1>3, <1>6, <1>8, <1>7 DEF Start
<1>9. CASE Advance(c)
  BY <1>3, <1>5, <1>6, <1>7, <1>9 DEF Advance, counts
<1>10. CASE Woken(c)
  BY <1>5, <1>10 DEF Woken
<1>11. CASE Expire(c)
  BY <1>3, <1>6, <1>11, <1>7 DEF Expire, counts
<1>12. CASE TimedOut(c)
  BY <1>4, <1>6, <1>12, <1>7 DEF TimedOut
<1>13. CASE Yield(c)
  <2>1. held[c] \in Nat /\ UNCHANGED <<held, abandoned>>
    BY <1>2, <1>13 DEF Yield, YieldsTyped
  <2>2. YieldsTyped'
    BY <1>2, <1>13, <2>1, YieldToTyped DEF Yield, YieldsTyped
  <2>3. QED
    BY <1>3, <1>6, <1>13, <2>2 DEF Yield, counts
<1>14. CASE Resume(c)
  BY <1>3, <1>6, <1>14, <1>7 DEF Resume, counts
<1>15. CASE Leave(c)
  <2>1. abandoned' \subseteq Nat /\ UNCHANGED <<held, yielded>>
    BY <1>2, <1>15 DEF Leave, YieldsTyped
  <2>2. YieldsTyped'
    BY <1>2, <2>1 DEF YieldsTyped
  <2>3. QED
    BY <1>4, <1>6, <1>15, <2>2 DEF Leave
<1>16. QED
  BY <1>8, <1>9, <1>10, <1>11, <1>12, <1>13, <1>15, <1>14

LEMMA StepTyped == TypeOK /\ [Next]_vars => TypeOK'
<1> SUFFICES ASSUME TypeOK, [Next]_vars
             PROVE  TypeOK'
  OBVIOUS
<1>1. CASE UNCHANGED vars
  BY <1>1 DEF vars, channel, counts, yields, TypeOK
<1>2. CASE Next
  BY <1>2, TestTyped, ConsumerTyped DEF Next
<1>3. QED
  BY <1>1, <1>2

\* Every variable keeps its type: the queue holds messages and sentinels, and a
\* consumer is always at one of the places where stream() can be.
THEOREM TypeCorrect == Spec => []TypeOK
  BY InitTyped, StepTyped, PTL DEF Spec
------------------------------------------------------------------------------
\* One late message

\* A consumer that has taken a message after disconnect() waits for none.
Done == {"out", "next", "paused", "body"}

Lates ==
  \A c \in Consumers : late[c] <= 1 /\ (late[c] # 0 => ~connected /\ at[c] \in Done)

\* A consumer that is not done stays so or is done; one that waits may be woken.
LEMMA KeepsLates ==
  ASSUME TypeOK, Lates, late' = late, connected' => connected,
         \A c \in Consumers : at[c] \in Done => at'[c] \in Done
  PROVE  Lates'
  BY DEF Lates, TypeOK

LEMMA WokeDone ==
  ASSUME TypeOK, Woke(at)
  PROVE  \A c \in Consumers : at[c] \in Done => at'[c] \in Done
  BY DEF Woke, Done

LEMMA TestLates ==
  ASSUME TypeOK, Lates, Connect \/ Disconnect \/ \E t \in Injected : Inject(t)
  PROVE  Lates'
<1>1. CASE Connect
  BY <1>1 DEF Connect, Lates
<1>2. CASE Disconnect
  <2>1. Woke(at) /\ late' = late /\ ~connected'
    BY <1>2, Puts DEF Disconnect, Entries
  <2>2. QED
    BY <2>1, WokeDone, KeepsLates
<1>3. ASSUME NEW t \in Injected, Inject(t)
      PROVE  Lates'
  <2> DEFINE m == [n |-> Len(offered) + 1, type |-> t]
  <2>1. m \in Entries
    BY FakeStreamAssumption, LenProperties DEF FakeStreamAssumption, TypeOK, Entries, Message
  <2>2. Put(m) \/ at' = at
    BY <1>3 DEF Inject
  <2>3. late' = late /\ connected' = connected
    BY <1>3 DEF Inject
  <2> HIDE DEF m
  <2>4. \A c \in Consumers : at[c] \in Done => at'[c] \in Done
    BY <2>1, <2>2, Puts, WokeDone
  <2>5. QED
    BY <2>3, <2>4, KeepsLates
<1>4. QED
  BY <1>1, <1>2, <1>3

LEMMA GetLates ==
  ASSUME TypeOK, Lates, NEW c \in Consumers, Get(c), connected \/ at[c] \notin Done
  PROVE  Lates'
<1>1. /\ connected' = connected
      /\ \A d \in Consumers : d # c => at'[d] = at[d]
      /\ late \in [Consumers -> Nat] /\ late[c] = 0
  BY GetTyped DEF Lates, TypeOK
<1>2. CASE late' = late
  BY <1>1, <1>2 DEF Lates
<1>3. CASE late' # late
  <2>1. TakeMessage(c, Head(queue)) /\ ~connected
    BY <1>3 DEF Get, TakeStop, TakeMessage
  <2>2. late' = [late EXCEPT ![c] = @ + 1]
    BY <2>1 DEF TakeMessage
  <2>3. late'[c] = late[c] + 1 /\ \A d \in Consumers : d # c => late'[d] = late[d]
    BY <1>1, <2>2
  <2>4. at'[c] \in {"next", "body", "paused", "out"}
    BY <2>1 DEF TakeMessage, TakePing, Dispatch, Crash, Place, TypeOK
  <2>5. late'[c] = 1
    BY <1>1, <2>3
  <2>6. ASSUME NEW d \in Consumers
        PROVE  late'[d] <= 1 /\ (late'[d] # 0 => ~connected' /\ at'[d] \in Done)
    <3>1. CASE d = c
      BY <1>1, <2>1, <2>4, <2>5, <3>1 DEF Done
    <3>2. CASE d # c
      BY <1>1, <2>3, <3>2 DEF Lates
    <3>3. QED
      BY <3>1, <3>2
  <2>7. QED
    BY <2>6 DEF Lates
<1>4. QED
  BY <1>2, <1>3

LEMMA ConsumerLates ==
  ASSUME TypeOK, Lates, NEW c \in Consumers,
         \/ Start(c) \/ Advance(c) \/ Woken(c) \/ Expire(c) \/ TimedOut(c)
         \/ Yield(c) \/ Resume(c) \/ Leave(c)
  PROVE  Lates'
<1>1. ASSUME Outside, NEW place \in Places, Place(c, place),
             at[c] \in Done => place \in Done \/ connected
      PROVE  Lates'
  <2>1. at'[c] = place /\ \A d \in Consumers : d # c => at'[d] = at[d]
    BY <1>1, Stays
  <2>2. late' = late /\ connected' = connected
    BY <1>1 DEF Outside, channel
  <2>3. QED
    BY <1>1, <2>1, <2>2 DEF Lates
<1>2. ASSUME Outside, NEW place \in {"out", "next"}, GiveUp(c, place)
      PROVE  Lates'
  <2>1. /\ at'[c] = place
        /\ \A d \in Consumers : d # c =>
             at'[d] = at[d] \/ (at[d] = "waiting" /\ at'[d] = "woken")
    BY <1>2, GivesUp
  <2>2. \A d \in Consumers : at[d] \in Done => at'[d] \in Done
    BY <2>1 DEF Done
  <2>3. late' = late /\ connected' = connected
    BY <1>2 DEF Outside, channel
  <2>4. QED
    BY <2>2, <2>3, KeepsLates
<1>3. Places = {"waiting", "woken", "expired", "overdue", "paused", "body", "out", "next"}
  BY DEF Places, Suspended
<1>4. CASE Start(c)
  BY <1>1, <1>3, <1>4 DEF Start, Done, Moves
<1>5. CASE Advance(c)
  BY <1>1, <1>3, <1>5, GetLates DEF Advance, Done, Moves
<1>6. CASE Woken(c)
  BY <1>6, GetLates DEF Woken, Done
<1>7. CASE Expire(c)
  BY <1>1, <1>3, <1>7 DEF Expire, Done, Moves
<1>8. CASE TimedOut(c)
  BY <1>2, <1>8 DEF TimedOut, Moves
<1>9. CASE Yield(c) \/ Resume(c)
  BY <1>1, <1>3, <1>9 DEF Yield, Resume, Done, Moves
<1>10. CASE Leave(c)
  BY <1>2, <1>10 DEF Leave
<1>11. QED
  BY <1>4, <1>5, <1>6, <1>7, <1>8, <1>9, <1>10

LEMMA StepLates == TypeOK /\ Lates /\ [Next]_vars => Lates'
<1> SUFFICES ASSUME TypeOK, Lates, [Next]_vars
             PROVE  Lates'
  OBVIOUS
<1>1. CASE UNCHANGED vars
  BY <1>1 DEF vars, channel, counts, Lates
<1>2. CASE Next
  BY <1>2, TestLates, ConsumerLates DEF Next
<1>3. QED
  BY <1>1, <1>2

\* After disconnect() no consumer takes more than one message: it had been woken
\* for it, and the loop of stream() stops it before the next.
THEOREM LateIsOne == Spec => []OneLateAtMost
<1>1. Init => Lates
  <2> SUFFICES ASSUME Init, NEW c \in Consumers
               PROVE  late[c] <= 1 /\ late[c] = 0
    BY DEF Lates
  <2>1. late[c] = 0
    BY DEF Init
  <2>2. QED
    BY <2>1
<1>2. Lates => OneLateAtMost
  BY DEF Lates, OneLateAtMost
<1>3. QED
  BY <1>1, <1>2, StepLates, TypeCorrect, PTL DEF Spec
------------------------------------------------------------------------------
\* The promise of the real stream, as far as dispatching goes

\* The messages in the queue are the ones to deliver, in order and without a gap.
Due ==
  /\ taken <= Len(offered)
  /\ \A i \in DOMAIN queue : queue[i] # Stop =>
       /\ queue[i].n \in (taken + 1)..Len(offered)
       /\ queue[i].type = offered[queue[i].n]
  /\ \A i, j \in DOMAIN queue :
       i < j /\ queue[i] # Stop /\ queue[j] # Stop => queue[i].n < queue[j].n
  /\ loaded => \A n \in (taken + 1)..Len(offered) :
                 \E i \in DOMAIN queue : queue[i] # Stop /\ queue[i].n = n

\* Before the first connect() they are among self._messages.
Unloaded == ~loaded =>
  /\ queue = <<>> /\ taken = 0 /\ ~connected
  /\ Len(messages) = Len(offered)
  /\ \A i \in DOMAIN messages : messages[i] = [n |-> i, type |-> offered[i]]

\* What a step does to what the promise is about.
Keeps == UNCHANGED <<offered, taken, dispatched>>

Offers == \E t \in Types : offered' = Append(offered, t) /\ UNCHANGED <<taken, dispatched>>

Takes ==
  /\ taken < Len(offered) /\ taken' = taken + 1 /\ offered' = offered
  /\ LET type == offered[taken + 1]
     IN  \/ /\ type \in Seen
            /\ dispatched' = Append(dispatched, [type |-> type, on |-> 1, n |-> taken + 1])
         \/ type \notin Seen /\ UNCHANGED dispatched

LEMMA QueueFacts ==
  ASSUME TypeOK
  PROVE  /\ queue \in Seq(Entries) /\ DOMAIN queue = 1..Len(queue) /\ Len(queue) \in Nat
         /\ offered \in Seq(Types) /\ Len(offered) \in Nat /\ taken \in Nat
         /\ \A i \in DOMAIN queue : queue[i] \in Entries
         /\ \A i \in DOMAIN queue : queue[i] # Stop => queue[i].n \in Nat
<1>1. queue \in Seq(Entries) /\ offered \in Seq(Types) /\ taken \in Nat
  BY DEF TypeOK, Entries
<1>2. DOMAIN queue = 1..Len(queue) /\ Len(queue) \in Nat /\ Len(offered) \in Nat
  BY <1>1, LenProperties
<1>3. \A i \in DOMAIN queue : queue[i] \in Entries
  BY <1>1, <1>2
<1>4. \A i \in DOMAIN queue : queue[i] # Stop => queue[i].n \in Nat
  BY <1>3 DEF Entries, Message
<1>5. QED
  BY <1>1, <1>2, <1>3, <1>4

\* The first message of the queue is the next one.
LEMMA HeadIsNext ==
  ASSUME TypeOK, Due, Unloaded, queue # <<>>, Head(queue) # Stop
  PROVE  /\ taken < Len(offered) /\ Head(queue).n = taken + 1
         /\ Head(queue).type = offered[taken + 1]
<1>1. 1 \in DOMAIN queue /\ Head(queue) = queue[1] /\ loaded
  BY QueueFacts, HeadTailProperties DEF Unloaded
<1>2. queue[1].n \in (taken + 1)..Len(offered) /\ queue[1].type = offered[queue[1].n]
  BY <1>1 DEF Due
<1>3. taken < Len(offered) /\ taken + 1 \in (taken + 1)..Len(offered)
  BY <1>2, QueueFacts
<1>4. PICK i \in DOMAIN queue : queue[i] # Stop /\ queue[i].n = taken + 1
  BY <1>1, <1>3 DEF Due
<1>5. queue[1].n = taken + 1
  <2>1. CASE i = 1
    BY <1>4, <2>1
  <2>2. CASE i # 1
    <3>1. 1 < i
      BY <2>2, QueueFacts
    <3>2. queue[1].n < queue[i].n
      BY <1>1, <1>4, <3>1 DEF Due
    <3>3. QED
      BY <1>2, <1>4, <3>2, QueueFacts
  <2>3. QED
    BY <2>1, <2>2
<1>6. QED
  BY <1>1, <1>2, <1>3, <1>5

\* Taking the first message, or a sentinel, leaves the rest due.
LEMMA TailDue ==
  ASSUME TypeOK, Due, Unloaded, queue # <<>>, queue' = Tail(queue),
         UNCHANGED <<offered, loaded>>,
         taken' = (IF Head(queue) = Stop THEN taken ELSE taken + 1)
  PROVE  Due'
<1>1. /\ Len(queue') = Len(queue) - 1 /\ DOMAIN queue' = 1..(Len(queue) - 1)
      /\ \A i \in DOMAIN queue' : queue'[i] = queue[i + 1] /\ i + 1 \in DOMAIN queue
      /\ Head(queue) = queue[1] /\ 1 \in DOMAIN queue
  BY QueueFacts, HeadTailProperties, LenProperties
<1>2. \A i, j \in DOMAIN queue' :
        i < j /\ queue'[i] # Stop /\ queue'[j] # Stop => queue'[i].n < queue'[j].n
  <2> SUFFICES ASSUME NEW i \in DOMAIN queue', NEW j \in DOMAIN queue', i < j,
                      queue'[i] # Stop, queue'[j] # Stop
               PROVE  queue'[i].n < queue'[j].n
    OBVIOUS
  <2>1. i \in Nat /\ j \in Nat /\ i + 1 < j + 1
    BY <1>1, QueueFacts
  <2>2. QED
    BY <1>1, <2>1 DEF Due
<1>3. ASSUME NEW i \in DOMAIN queue', queue'[i] # Stop
      PROVE  /\ queue'[i].n \in (taken' + 1)..Len(offered)
             /\ queue'[i].type = offered[queue'[i].n]
  <2>1. queue'[i] = queue[i + 1] /\ i + 1 \in DOMAIN queue /\ 1 < i + 1
    BY <1>1, QueueFacts
  <2>2. /\ queue'[i].n \in (taken + 1)..Len(offered)
        /\ queue'[i].type = offered[queue'[i].n]
    BY <1>3, <2>1 DEF Due
  <2>3. CASE Head(queue) = Stop
    BY <2>2, <2>3
  <2>4. CASE Head(queue) # Stop
    <3>1. queue[1].n = taken + 1
      BY <1>1, <2>4, HeadIsNext
    <3>2. queue[1].n < queue[i + 1].n
      BY <1>1, <1>3, <2>1, <2>4 DEF Due
    <3>3. QED
      BY <2>1, <2>2, <2>4, <3>1, <3>2, QueueFacts
  <2>5. QED
    BY <2>3, <2>4
<1>4. taken' <= Len(offered) /\ taken' \in Nat
  <2>1. CASE Head(queue) = Stop
    BY <2>1, QueueFacts DEF Due
  <2>2. CASE Head(queue) # Stop
    BY <2>2, HeadIsNext, QueueFacts
  <2>3. QED
    BY <2>1, <2>2
<1>5. ASSUME loaded, NEW n \in (taken' + 1)..Len(offered)
      PROVE  \E i \in DOMAIN queue' : queue'[i] # Stop /\ queue'[i].n = n
  <2>1. n \in (taken + 1)..Len(offered) /\ (Head(queue) # Stop => n # taken + 1)
    BY <1>4, QueueFacts
  <2>2. PICK i \in DOMAIN queue : queue[i] # Stop /\ queue[i].n = n
    BY <1>5, <2>1 DEF Due
  <2>3. i # 1
    <3>1. CASE Head(queue) = Stop
      BY <1>1, <2>2, <3>1
    <3>2. CASE Head(queue) # Stop
      BY <1>1, <2>1, <2>2, <3>2, HeadIsNext
    <3>3. QED
      BY <3>1, <3>2
  <2>4. i - 1 \in DOMAIN queue' /\ (i - 1) + 1 = i
    BY <1>1, <2>3, QueueFacts
  <2>5. QED
    BY <1>1, <2>2, <2>4
<1>6. QED
  BY <1>2, <1>3, <1>4, <1>5 DEF Due

LEMMA GetRefines ==
  ASSUME TypeOK, Due, Unloaded, NEW c \in Consumers, Get(c), offered' = offered
  PROVE  Due' /\ (Keeps \/ Takes)
<1>1. loaded' = loaded
  BY DEF Get
<1>2. CASE queue = <<>>
  BY <1>1, <1>2 DEF Get, Due, Keeps
<1>3. CASE queue # <<>> /\ Head(queue) = Stop
  <2>1. TakeStop(c)
    BY <1>3 DEF Get
  <2>2. Due'
    BY <1>1, <1>3, <2>1, TailDue DEF TakeStop
  <2>3. QED
    BY <2>1, <2>2 DEF TakeStop, Keeps
<1>4. CASE queue # <<>> /\ Head(queue) # Stop
  <2> DEFINE m == Head(queue)
  <2>1. TakeMessage(c, m)
    BY <1>4 DEF Get
  <2>2. taken < Len(offered) /\ m.n = taken + 1 /\ m.type = offered[taken + 1]
    BY <1>4, HeadIsNext
  <2>3. Due'
    BY <1>1, <1>4, <2>1, TailDue DEF TakeMessage
  <2> HIDE DEF m
  <2>4. taken' = taken + 1
    BY <2>1 DEF TakeMessage
  <2>5. TakePing(c, m) \/ Dispatch(c, m) \/ Crash(c, m)
    BY <2>1 DEF TakeMessage
  <2>6. \/ /\ m.type \in Seen
           /\ dispatched' = Append(dispatched, [type |-> m.type, on |-> 1, n |-> m.n])
        \/ m.type \notin Seen /\ UNCHANGED dispatched
    BY <2>5, FakeStreamAssumption DEF TakePing, Dispatch, Crash, Record, Seen, Application
  <2>7. Takes
    BY <2>2, <2>4, <2>6 DEF Takes
  <2>8. QED
    BY <2>3, <2>7
<1>5. QED
  BY <1>2, <1>3, <1>4

\* A sentinel is put.
LEMMA StopDue ==
  ASSUME TypeOK, Due, queue' = Append(queue, Stop), UNCHANGED <<offered, taken, loaded>>
  PROVE  Due'
<1>1. Stop \in Entries
  BY DEF Entries
<1>2. /\ DOMAIN queue' = 1..(Len(queue) + 1) /\ DOMAIN queue \subseteq DOMAIN queue'
      /\ \A i \in DOMAIN queue : queue'[i] = queue[i]
      /\ \A i \in DOMAIN queue' : queue'[i] # Stop => i \in DOMAIN queue
  <2>1. /\ Len(queue') = Len(queue) + 1 /\ queue' \in Seq(Entries)
        /\ \A i \in 1..Len(queue) : queue'[i] = queue[i]
        /\ queue'[Len(queue) + 1] = Stop
    BY <1>1, QueueFacts, AppendProperties
  <2>2. DOMAIN queue' = 1..(Len(queue) + 1)
    BY <2>1, LenProperties
  <2>3. QED
    BY <2>1, <2>2, QueueFacts
<1>3. QED
  BY <1>2 DEF Due

\* A message is put.
LEMMA MessageDue ==
  ASSUME TypeOK, Due, NEW t \in Types,
         queue' = Append(queue, [n |-> Len(offered) + 1, type |-> t]),
         offered' = Append(offered, t), UNCHANGED <<taken, loaded>>
  PROVE  Due'
<1> DEFINE m == [n |-> Len(offered) + 1, type |-> t]
<1>1. m \in Entries /\ m # Stop /\ m.n = Len(offered) + 1 /\ m.type = t
  BY QueueFacts DEF Entries, Message, Stop
<1> HIDE DEF m
<1>2. queue' = Append(queue, m)
  BY DEF m
<1>3. /\ Len(queue') = Len(queue) + 1 /\ queue' \in Seq(Entries)
      /\ \A i \in 1..Len(queue) : queue'[i] = queue[i]
      /\ queue'[Len(queue) + 1] = m
  BY <1>1, <1>2, QueueFacts, AppendProperties
<1>4. /\ DOMAIN queue' = 1..(Len(queue) + 1) /\ Len(queue) + 1 \in DOMAIN queue'
      /\ \A i \in DOMAIN queue' : i = Len(queue) + 1 \/ i \in DOMAIN queue
  BY <1>3, QueueFacts, LenProperties
<1>5. /\ Len(offered') = Len(offered) + 1
      /\ \A n \in 1..Len(offered) : offered'[n] = offered[n]
      /\ offered'[Len(offered) + 1] = t
  BY QueueFacts, AppendProperties
<1>6. ASSUME NEW i \in DOMAIN queue', queue'[i] # Stop
      PROVE  /\ queue'[i].n \in (taken + 1)..Len(offered')
             /\ queue'[i].type = offered'[queue'[i].n]
  <2>1. CASE i = Len(queue) + 1
    BY <1>1, <1>3, <1>5, <2>1, QueueFacts DEF Due
  <2>2. CASE i \in DOMAIN queue
    <3>1. queue'[i] = queue[i]
      BY <1>3, <2>2, QueueFacts
    <3>2. queue[i].n \in (taken + 1)..Len(offered) /\ queue[i].type = offered[queue[i].n]
      BY <1>6, <2>2, <3>1 DEF Due
    <3>3. queue[i].n \in 1..Len(offered)
      BY <3>2, QueueFacts
    <3>4. QED
      BY <1>5, <3>1, <3>2, <3>3, QueueFacts
  <2>3. QED
    BY <1>4, <2>1, <2>2
<1>7. ASSUME NEW i \in DOMAIN queue', NEW j \in DOMAIN queue', i < j,
             queue'[i] # Stop, queue'[j] # Stop
      PROVE  queue'[i].n < queue'[j].n
  <2>1. i \in DOMAIN queue
    BY <1>4, <1>7, QueueFacts
  <2>2. queue'[i] = queue[i] /\ queue[i].n \in (taken + 1)..Len(offered)
    BY <1>3, <1>7, <2>1, QueueFacts DEF Due
  <2>3. CASE j = Len(queue) + 1
    BY <1>1, <1>3, <2>2, <2>3, QueueFacts
  <2>4. CASE j \in DOMAIN queue
    BY <1>3, <1>7, <2>1, <2>4, QueueFacts DEF Due
  <2>5. QED
    BY <1>4, <2>3, <2>4
<1>8. ASSUME loaded, NEW n \in (taken + 1)..Len(offered')
      PROVE  \E i \in DOMAIN queue' : queue'[i] # Stop /\ queue'[i].n = n
  <2>1. CASE n = Len(offered) + 1
    BY <1>1, <1>3, <1>4, <2>1
  <2>2. CASE n # Len(offered) + 1
    <3>1. n \in (taken + 1)..Len(offered)
      BY <1>5, <2>2, QueueFacts
    <3>2. PICK i \in DOMAIN queue : queue[i] # Stop /\ queue[i].n = n
      BY <1>8, <3>1 DEF Due
    <3>3. i \in DOMAIN queue' /\ queue'[i] = queue[i]
      BY <1>3, <1>4, QueueFacts
    <3>4. QED
      BY <3>2, <3>3
  <2>3. QED
    BY <2>1, <2>2
<1>9. taken <= Len(offered')
  BY <1>5, QueueFacts DEF Due
<1>10. QED
  BY <1>6, <1>7, <1>8, <1>9 DEF Due

\* The first connect() puts what was injected before it.
LEMMA ConnectRefines ==
  ASSUME TypeOK, Due, Unloaded, Connect
  PROVE  Due' /\ Unloaded' /\ Keeps
<1>1. Keeps /\ loaded' /\ UNCHANGED <<offered, taken>>
  BY DEF Connect, Keeps
<1>2. CASE loaded
  BY <1>1, <1>2 DEF Connect, Due, Unloaded
<1>3. CASE ~loaded
  <2>1. /\ queue = <<>> /\ taken = 0 /\ Len(messages) = Len(offered)
        /\ \A i \in DOMAIN messages : messages[i] = [n |-> i, type |-> offered[i]]
    BY <1>3 DEF Unloaded
  <2>2. messages \in Seq(Message) /\ DOMAIN messages = 1..Len(offered)
    BY <2>1, LenProperties DEF TypeOK
  <2>3. queue' = messages
    BY <1>3, <2>1, <2>2, ConcatEmptySeq DEF Connect
  <2>4. \A i \in DOMAIN queue' :
          /\ i \in 1..Len(offered) /\ queue'[i] # Stop /\ queue'[i].n = i
          /\ queue'[i].type = offered[i]
    <3> SUFFICES ASSUME NEW i \in DOMAIN queue'
                 PROVE  /\ i \in 1..Len(offered) /\ queue'[i] # Stop /\ queue'[i].n = i
                        /\ queue'[i].type = offered[i]
      OBVIOUS
    <3>1. i \in 1..Len(offered) /\ queue'[i] = [n |-> i, type |-> offered[i]] /\ i # 0
      BY <2>1, <2>2, <2>3, QueueFacts
    <3>2. QED
      BY <3>1 DEF Stop
  <2>5. taken = 0 /\ taken' = 0 /\ offered' = offered /\ DOMAIN queue' = 1..Len(offered)
    BY <1>1, <2>1, <2>2, <2>3
  <2>6. Due'
    BY <1>1, <2>4, <2>5, QueueFacts DEF Due
  <2>7. QED
    BY <1>1, <2>6 DEF Unloaded
<1>4. QED
  BY <1>2, <1>3

LEMMA InjectRefines ==
  ASSUME TypeOK, Due, Unloaded, NEW t \in Injected, Inject(t)
  PROVE  Due' /\ Unloaded' /\ (Keeps \/ Offers)
<1>1. t \in Types
  BY FakeStreamAssumption DEF FakeStreamAssumption
<1>2. UNCHANGED <<connected, loaded, taken, dispatched>>
  BY DEF Inject
<1>3. CASE connected
  <2>1. loaded
    BY <1>3 DEF Unloaded
  <2>2. /\ queue' = Append(queue, [n |-> Len(offered) + 1, type |-> t])
        /\ offered' = Append(offered, t)
    BY <1>3 DEF Inject, Put
  <2>3. Due'
    BY <1>1, <1>2, <2>2, MessageDue
  <2>4. QED
    BY <1>1, <1>2, <2>1, <2>2, <2>3 DEF Unloaded, Offers
<1>4. CASE ~connected /\ loaded
  BY <1>2, <1>4 DEF Inject, Due, Unloaded, Keeps
<1>5. CASE ~connected /\ ~loaded
  <2>1. /\ messages' = Append(messages, [n |-> Len(offered) + 1, type |-> t])
        /\ offered' = Append(offered, t) /\ queue' = queue
    BY <1>5 DEF Inject
  <2>2. /\ queue = <<>> /\ taken = 0 /\ ~connected /\ Len(messages) = Len(offered)
        /\ \A i \in DOMAIN messages : messages[i] = [n |-> i, type |-> offered[i]]
    BY <1>5 DEF Unloaded
  <2>3. [n |-> Len(offered) + 1, type |-> t] \in Message /\ messages \in Seq(Message)
    BY <1>1, QueueFacts DEF Message, TypeOK
  <2>4. /\ Len(offered') = Len(offered) + 1 /\ offered'[Len(offered) + 1] = t
        /\ \A i \in 1..Len(offered) : offered'[i] = offered[i]
    BY <1>1, <2>1, QueueFacts, AppendProperties
  <2>5. /\ Len(messages') = Len(offered) + 1 /\ messages' \in Seq(Message)
        /\ messages'[Len(offered) + 1] = [n |-> Len(offered) + 1, type |-> t]
        /\ \A i \in 1..Len(offered) : messages'[i] = messages[i]
    BY <2>1, <2>2, <2>3, AppendProperties
  <2>6. DOMAIN messages = 1..Len(offered) /\ DOMAIN messages' = 1..(Len(offered) + 1)
    BY <2>2, <2>3, <2>5, LenProperties
  <2>7. ASSUME NEW i \in DOMAIN messages'
        PROVE  messages'[i] = [n |-> i, type |-> offered'[i]]
    <3>1. CASE i = Len(offered) + 1
      BY <2>4, <2>5, <3>1
    <3>2. CASE i # Len(offered) + 1
      <4>1. i \in 1..Len(offered)
        BY <2>6, <3>2, QueueFacts
      <4>2. QED
        BY <2>2, <2>4, <2>5, <2>6, <4>1
    <3>3. QED
      BY <3>1, <3>2
  <2>8. Unloaded'
    BY <1>2, <2>1, <2>2, <2>4, <2>5, <2>7 DEF Unloaded
  <2>9. Due'
    <3>1. DOMAIN queue' = {}
      BY <2>1, <2>2
    <3>2. taken' <= Len(offered')
      BY <1>2, <2>2, <2>4, QueueFacts
    <3>3. ~loaded'
      BY <1>2, <1>5
    <3>4. QED
      BY <3>1, <3>2, <3>3 DEF Due
  <2>10. QED
    BY <1>1, <1>2, <2>1, <2>8, <2>9 DEF Offers
<1>6. QED
  BY <1>3, <1>4, <1>5

LEMMA DisconnectRefines ==
  ASSUME TypeOK, Due, Unloaded, Disconnect
  PROVE  Due' /\ Unloaded' /\ Keeps
<1>1. queue' = Append(queue, Stop) /\ UNCHANGED <<offered, taken, loaded, dispatched>> /\ loaded
  BY DEF Disconnect, Put, Unloaded
<1>2. Due'
  BY <1>1, StopDue
<1>3. QED
  BY <1>1, <1>2 DEF Unloaded, Keeps

LEMMA ConsumerRefines ==
  ASSUME TypeOK, Due, Unloaded, NEW c \in Consumers,
         \/ Start(c) \/ Advance(c) \/ Woken(c) \/ Expire(c) \/ TimedOut(c)
         \/ Yield(c) \/ Resume(c) \/ Leave(c)
  PROVE  Due' /\ Unloaded' /\ (Keeps \/ Takes)
<1>1. CASE Outside
  BY <1>1 DEF Outside, channel, Due, Unloaded, Keeps
<1>2. CASE Get(c) /\ offered' = offered
  <2>1. Due' /\ (Keeps \/ Takes) /\ UNCHANGED <<connected, loaded, messages>>
    BY <1>2, GetRefines, GetTyped
  <2>2. CASE loaded
    BY <2>1, <2>2 DEF Unloaded
  <2>3. CASE ~loaded
    <3>1. queue = <<>>
      BY <2>3 DEF Unloaded
    <3>2. UNCHANGED <<queue, taken>>
      BY <1>2, <3>1 DEF Get
    <3>3. QED
      BY <1>2, <2>1, <3>2 DEF Unloaded
  <2>4. QED
    BY <2>2, <2>3
<1>3. Outside \/ (Get(c) /\ offered' = offered)
  BY DEF Start, Advance, Woken, Expire, TimedOut, Yield, Resume, Leave, Moves
<1>4. QED
  BY <1>1, <1>2, <1>3

LEMMA StepRefines ==
  ASSUME TypeOK, Due, Unloaded, [Next]_vars
  PROVE  Due' /\ Unloaded' /\ (Keeps \/ Offers \/ Takes)
<1>1. CASE UNCHANGED vars
  BY <1>1 DEF vars, channel, Due, Unloaded, Keeps
<1>2. CASE Next
  BY <1>2, ConnectRefines, InjectRefines, DisconnectRefines, ConsumerRefines DEF Next
<1>3. QED
  BY <1>1, <1>2

LEMMA InitDue == Init => Due /\ Unloaded
  BY DEF Init, Due, Unloaded

\* The fake dispatches as the real stream promises (TrainingStreamProofs): whatever
\* consumers come and go, and however often it is connected, messages are taken off
\* once, in order, and their listeners are called, those that raise included.  What
\* is yielded afterwards is YieldsAreSound.
THEOREM FakeDispatches == Spec => ImplementsDispatch
<1> DEFINE Sent == [k \in {1} |-> offered]
           Read == [k \in {1} |-> taken]
<1>1. Init => Promise!Init
  BY DEF Init, Promise!Init
<1>2. TypeOK /\ Due /\ Unloaded /\ [Next]_vars => [Promise!Next]_<<Sent, Read, dispatched, {}>>
  <2> SUFFICES ASSUME TypeOK, Due, Unloaded, [Next]_vars
               PROVE  [Promise!Next]_<<Sent, Read, dispatched, {}>>
    OBVIOUS
  <2>1. CASE Keeps
    BY <2>1 DEF Keeps
  <2>2. CASE Offers
    <3>1. PICK t \in Types : offered' = Append(offered, t) /\ UNCHANGED <<taken, dispatched>>
      BY <2>2 DEF Offers
    <3>2. Sent' = [Sent EXCEPT ![1] = Append(@, t)] /\ Read' = Read
      BY <3>1
    <3>3. Promise!Send(1)
      BY <3>1, <3>2 DEF Promise!Send
    <3>4. QED
      BY <3>3 DEF Promise!Next
  <2>3. CASE Takes
    <3>1. Read' = [Read EXCEPT ![1] = @ + 1] /\ Sent' = Sent
      BY <2>3 DEF Takes
    <3>2. Promise!Read(1)
      BY <2>3, <3>1 DEF Takes, Promise!Read, Promise!Entry
    <3>3. QED
      BY <3>2 DEF Promise!Next
  <2>4. QED
    BY <2>1, <2>2, <2>3, StepRefines
<1>3. Spec => [](Due /\ Unloaded)
  BY InitDue, StepRefines, TypeCorrect, PTL DEF Spec
<1>4. QED
  BY <1>1, <1>2, <1>3, TypeCorrect, PTL DEF Promise!Spec, ImplementsDispatch, Spec
------------------------------------------------------------------------------
\* What becomes of messages between dispatch and yield

Holds(c) == at[c] = "paused"

\* Messages yielded or held have been taken.
Known ==
  /\ \A i \in DOMAIN yielded : yielded[i].n \in 1..taken
  /\ \A c \in Consumers : Holds(c) => held[c] \in 1..taken

\* A message that is held is nobody else's, and the latest of its consumer.
Apart ==
  \A c \in Consumers : Holds(c) =>
    /\ \A i \in DOMAIN yielded :
         /\ yielded[i].n # held[c]
         /\ yielded[i].by = c => yielded[i].n < held[c]
    /\ \A d \in Consumers : d # c /\ Holds(d) => held[d] # held[c]

Tracked == Accounted(Seen \ Faulty) /\ Known /\ Apart /\ InTurn

\* Steps that yield nothing, and begin and end no pause.
LEMMA QuietTracked ==
  ASSUME TypeOK, Tracked, UNCHANGED <<taken, yields>>,
         \A n \in 1..taken : offered'[n] = offered[n],
         \A c \in Consumers : Holds(c)' <=> Holds(c)
  PROVE  Tracked'
<1>1. UNCHANGED <<held, yielded, abandoned>>
  BY DEF yields
<1>2. Accounted(Seen \ Faulty)'
  BY <1>1 DEF Tracked, Accounted, Holds, Seen
<1>3. Known' /\ Apart' /\ InTurn'
  BY <1>1 DEF Tracked, Known, Apart, InTurn
<1>4. QED
  BY <1>2, <1>3 DEF Tracked

LEMMA Longer ==
  ASSUME TypeOK, NEW c \in Consumers, NEW n \in Nat, YieldTo(c, n)
  PROVE  /\ DOMAIN yielded = 1..Len(yielded) /\ Len(yielded) \in Nat
         /\ DOMAIN yielded' = 1..(Len(yielded) + 1)
         /\ \A i \in DOMAIN yielded : i \in DOMAIN yielded' /\ yielded'[i] = yielded[i]
         /\ \A i \in DOMAIN yielded' : i \in DOMAIN yielded \/ i = Len(yielded) + 1
         /\ yielded'[Len(yielded) + 1].n = n /\ yielded'[Len(yielded) + 1].by = c
<1>1. yielded \in Seq(Yields) /\ [n |-> n, by |-> c] \in Yields
  BY DEF TypeOK, Yields
<1>2. /\ yielded' \in Seq(Yields) /\ Len(yielded') = Len(yielded) + 1
      /\ \A i \in 1..Len(yielded) : yielded'[i] = yielded[i]
      /\ yielded'[Len(yielded) + 1] = [n |-> n, by |-> c]
  BY <1>1, AppendProperties DEF YieldTo
<1>3. /\ DOMAIN yielded = 1..Len(yielded) /\ Len(yielded) \in Nat
      /\ DOMAIN yielded' = 1..(Len(yielded) + 1)
  BY <1>1, <1>2, LenProperties
<1>4. QED
  BY <1>2, <1>3

\* A message is yielded that comes after all of its consumer, and that no other has.
LEMMA YieldInTurn ==
  ASSUME TypeOK, Tracked, NEW c \in Consumers, NEW n \in Nat, YieldTo(c, n),
         \A i \in DOMAIN yielded :
           yielded[i].n # n /\ (yielded[i].by = c => yielded[i].n < n)
  PROVE  InTurn'
<1> SUFFICES ASSUME NEW i \in DOMAIN yielded', NEW j \in DOMAIN yielded', i < j
             PROVE  /\ yielded'[i].n # yielded'[j].n
                    /\ yielded'[i].by = yielded'[j].by => yielded'[i].n < yielded'[j].n
  BY DEF InTurn
<1>1. i \in DOMAIN yielded
  BY Longer
<1>2. CASE j \in DOMAIN yielded
  BY <1>1, <1>2, Longer DEF Tracked, InTurn
<1>3. CASE j = Len(yielded) + 1
  BY <1>1, <1>3, Longer
<1>4. QED
  BY <1>2, <1>3, Longer

\* The pause of c is over.
LEMMA YieldTracked ==
  ASSUME TypeOK, Tracked, NEW c \in Consumers, Yield(c)
  PROVE  Tracked'
<1>1. /\ Holds(c) /\ held[c] \in 1..taken /\ held[c] \in Nat
      /\ UNCHANGED <<taken, offered, held, abandoned>>
  BY DEF Yield, Outside, Tracked, Known, Holds, TypeOK
<1>2. ~Holds(c)' /\ \A d \in Consumers : d # c => (Holds(d)' <=> Holds(d))
  <2>1. "body" \in Places
    BY DEF Places, Suspended
  <2>2. QED
    BY <2>1, Stays DEF Yield, Holds
<1>3. YieldTo(c, held[c])
  BY DEF Yield
<1>4. InTurn'
  BY <1>1, <1>3, YieldInTurn DEF Tracked, Apart
<1>5. Known'
  <2>1. ASSUME NEW i \in DOMAIN yielded' PROVE yielded'[i].n \in 1..taken'
    BY <1>1, <1>3, Longer DEF Tracked, Known
  <2>2. QED
    BY <1>1, <1>2, <2>1 DEF Tracked, Known
<1>6. Apart'
  <2> SUFFICES ASSUME NEW d \in Consumers, Holds(d)'
               PROVE  /\ \A i \in DOMAIN yielded' :
                           /\ yielded'[i].n # held'[d]
                           /\ yielded'[i].by = d => yielded'[i].n < held'[d]
                      /\ \A e \in Consumers : e # d /\ Holds(e)' => held'[e] # held'[d]
    BY DEF Apart
  <2>1. d # c /\ Holds(d) /\ held'[d] = held[d]
    BY <1>1, <1>2
  <2>2. held[c] # held[d]
    BY <1>1, <2>1 DEF Tracked, Apart
  <2>3. ASSUME NEW i \in DOMAIN yielded'
        PROVE  /\ yielded'[i].n # held[d]
               /\ yielded'[i].by = d => yielded'[i].n < held[d]
    BY <1>1, <1>3, <2>1, <2>2, Longer DEF Tracked, Apart
  <2>4. ASSUME NEW e \in Consumers, e # d, Holds(e)'
        PROVE  held[e] # held[d]
    BY <1>2, <2>1, <2>4 DEF Tracked, Apart
  <2>5. QED
    BY <1>1, <2>1, <2>3, <2>4
<1>7. Accounted(Seen \ Faulty)'
  <2> SUFFICES ASSUME NEW n \in 1..taken', offered'[n] \in Seen \ Faulty
               PROVE  \/ \E i \in DOMAIN yielded' : yielded'[i].n = n
                      \/ \E d \in Consumers : Holds(d)' /\ held'[d] = n
                      \/ n \in abandoned'
    BY DEF Accounted, Holds, Seen
  <2>1. \/ \E i \in DOMAIN yielded : yielded[i].n = n
        \/ \E d \in Consumers : Holds(d) /\ held[d] = n
        \/ n \in abandoned
    BY <1>1 DEF Tracked, Accounted, Holds
  <2>2. CASE held[c] = n
    BY <1>1, <1>3, <2>2, Longer
  <2>3. CASE held[c] # n
    BY <1>1, <1>2, <1>3, <2>1, <2>3, Longer
  <2>4. QED
    BY <2>2, <2>3
<1>8. QED
  BY <1>4, <1>5, <1>6, <1>7 DEF Tracked

\* c leaves, in the pause or elsewhere; others may be woken.
LEMMA LeaveTracked ==
  ASSUME TypeOK, Tracked, NEW c \in Consumers, Leave(c)
  PROVE  Tracked'
<1>1. UNCHANGED <<taken, offered, held, yielded>>
  BY DEF Leave, Outside
<1>2. ~Holds(c)' /\ \A d \in Consumers : d # c => (Holds(d)' <=> Holds(d))
  BY GivesUp DEF Leave, Holds
<1>3. abandoned \subseteq abandoned' /\ (Holds(c) => held[c] \in abandoned')
  BY DEF Leave, Holds
<1>4. Accounted(Seen \ Faulty)'
  <2> SUFFICES ASSUME NEW n \in 1..taken', offered'[n] \in Seen \ Faulty
               PROVE  \/ \E i \in DOMAIN yielded' : yielded'[i].n = n
                      \/ \E d \in Consumers : Holds(d)' /\ held'[d] = n
                      \/ n \in abandoned'
    BY DEF Accounted, Holds, Seen
  <2>1. \/ \E i \in DOMAIN yielded : yielded[i].n = n
        \/ \E d \in Consumers : Holds(d) /\ held[d] = n
        \/ n \in abandoned
    BY <1>1 DEF Tracked, Accounted, Holds
  <2>2. QED
    BY <1>1, <1>2, <1>3, <2>1
<1>5. Known' /\ Apart' /\ InTurn'
  BY <1>1, <1>2 DEF Tracked, Known, Apart, InTurn
<1>6. QED
  BY <1>4, <1>5 DEF Tracked

\* c takes a message that it is not to see, or whose listener raises,
LEMMA UnseenTracked ==
  ASSUME TypeOK, Tracked, taken' = taken + 1, UNCHANGED <<offered, yields>>,
         offered[taken + 1] \notin Seen \ Faulty,
         \A d \in Consumers : Holds(d)' <=> Holds(d)
  PROVE  Tracked'
<1>1. UNCHANGED <<held, yielded, abandoned>> /\ taken \in Nat
  BY DEF yields, TypeOK
<1>2. \A n \in 1..taken' : n \in 1..taken \/ n = taken + 1
  BY <1>1
<1>3. Accounted(Seen \ Faulty)'
  BY <1>1, <1>2 DEF Tracked, Accounted, Holds, Seen
<1>4. Known' /\ Apart' /\ InTurn'
  BY <1>1 DEF Tracked, Known, Apart, InTurn
<1>5. QED
  BY <1>3, <1>4 DEF Tracked

\* or a ping that it yields at once,
LEMMA PingTracked ==
  ASSUME TypeOK, Tracked, NEW c \in Consumers, taken' = taken + 1,
         UNCHANGED <<offered, held, abandoned>>, YieldTo(c, taken + 1), ~Holds(c),
         \A d \in Consumers : Holds(d)' <=> Holds(d)
  PROVE  Tracked'
<1>1. taken \in Nat /\ \A n \in 1..taken' : n \in 1..taken \/ n = taken + 1
  BY DEF TypeOK
<1>2. \A i \in DOMAIN yielded : yielded[i].n # taken + 1 /\ yielded[i].n < taken + 1
  BY <1>1 DEF Tracked, Known
<1>3. InTurn'
  BY <1>1, <1>2, YieldInTurn
<1>4. Known'
  <2>1. ASSUME NEW i \in DOMAIN yielded' PROVE yielded'[i].n \in 1..taken'
    BY <1>1, Longer DEF Tracked, Known
  <2>2. QED
    BY <1>1, <2>1 DEF Tracked, Known
<1>5. Apart'
  <2> SUFFICES ASSUME NEW d \in Consumers, Holds(d)'
               PROVE  /\ \A i \in DOMAIN yielded' :
                           /\ yielded'[i].n # held'[d]
                           /\ yielded'[i].by = d => yielded'[i].n < held'[d]
                      /\ \A e \in Consumers : e # d /\ Holds(e)' => held'[e] # held'[d]
    BY DEF Apart
  <2>1. Holds(d) /\ d # c /\ held'[d] = held[d] /\ held[d] \in 1..taken
    BY DEF Tracked, Known
  <2>2. ASSUME NEW i \in DOMAIN yielded'
        PROVE  /\ yielded'[i].n # held[d]
               /\ yielded'[i].by = d => yielded'[i].n < held[d]
    BY <1>1, <2>1, Longer DEF Tracked, Apart
  <2>3. ASSUME NEW e \in Consumers, e # d, Holds(e)'
        PROVE  held[e] # held[d]
    BY <2>1, <2>3 DEF Tracked, Apart
  <2>4. QED
    BY <2>1, <2>2, <2>3
<1>6. Accounted(Seen \ Faulty)'
  <2> SUFFICES ASSUME NEW n \in 1..taken', offered'[n] \in Seen \ Faulty
               PROVE  \/ \E i \in DOMAIN yielded' : yielded'[i].n = n
                      \/ \E d \in Consumers : Holds(d)' /\ held'[d] = n
                      \/ n \in abandoned'
    BY DEF Accounted, Holds, Seen
  <2>1. CASE n \in 1..taken
    <3>1. \/ \E i \in DOMAIN yielded : yielded[i].n = n
          \/ \E d \in Consumers : Holds(d) /\ held[d] = n
          \/ n \in abandoned
      BY <2>1 DEF Tracked, Accounted, Holds
    <3>2. QED
      BY <1>1, <3>1, Longer
  <2>2. CASE n = taken + 1
    <3>1. yielded'[Len(yielded) + 1].n = n /\ Len(yielded) + 1 \in DOMAIN yielded'
      BY <1>1, <2>2, Longer
    <3>2. QED
      BY <3>1
  <2>3. QED
    BY <1>1, <2>1, <2>2
<1>7. QED
  BY <1>3, <1>4, <1>5, <1>6 DEF Tracked

\* or one that it holds until the pause is over.
LEMMA PauseTracked ==
  ASSUME TypeOK, Tracked, NEW c \in Consumers, taken' = taken + 1,
         UNCHANGED <<offered, yielded, abandoned>>, held' = [held EXCEPT ![c] = taken + 1],
         ~Holds(c), Holds(c)', \A d \in Consumers : d # c => (Holds(d)' <=> Holds(d))
  PROVE  Tracked'
<1>1. /\ taken \in Nat /\ \A n \in 1..taken' : n \in 1..taken \/ n = taken + 1
      /\ held'[c] = taken + 1 /\ \A d \in Consumers : d # c => held'[d] = held[d]
  BY DEF TypeOK
<1>2. /\ \A i \in DOMAIN yielded : yielded[i].n # taken + 1 /\ yielded[i].n < taken + 1
      /\ \A d \in Consumers : Holds(d) => held[d] # taken + 1
  BY <1>1 DEF Tracked, Known
<1>3. Known' /\ InTurn'
  BY <1>1 DEF Tracked, Known, InTurn
<1>4. Apart'
  <2> SUFFICES ASSUME NEW d \in Consumers, Holds(d)'
               PROVE  /\ \A i \in DOMAIN yielded :
                           /\ yielded[i].n # held'[d]
                           /\ yielded[i].by = d => yielded[i].n < held'[d]
                      /\ \A e \in Consumers : e # d /\ Holds(e)' => held'[e] # held'[d]
    BY DEF Apart
  <2>1. CASE d = c
    BY <1>1, <1>2, <2>1
  <2>2. CASE d # c
    BY <1>1, <1>2, <2>2 DEF Tracked, Apart
  <2>3. QED
    BY <2>1, <2>2
<1>5. Accounted(Seen \ Faulty)'
  <2> SUFFICES ASSUME NEW n \in 1..taken', offered'[n] \in Seen \ Faulty
               PROVE  \/ \E i \in DOMAIN yielded' : yielded'[i].n = n
                      \/ \E d \in Consumers : Holds(d)' /\ held'[d] = n
                      \/ n \in abandoned'
    BY DEF Accounted, Holds, Seen
  <2>1. CASE n \in 1..taken
    <3>1. \/ \E i \in DOMAIN yielded : yielded[i].n = n
          \/ \E d \in Consumers : Holds(d) /\ held[d] = n
          \/ n \in abandoned
      BY <2>1 DEF Tracked, Accounted, Holds
    <3>2. QED
      BY <1>1, <3>1
  <2>2. CASE n = taken + 1
    BY <1>1, <2>2
  <2>3. QED
    BY <1>1, <2>1, <2>2
<1>6. QED
  BY <1>3, <1>4, <1>5 DEF Tracked

LEMMA GetTracked ==
  ASSUME TypeOK, Due, Unloaded, Tracked, NEW c \in Consumers, ~Holds(c), Get(c),
         offered' = offered
  PROVE  Tracked'
<1>1. \A d \in Consumers : d # c => (Holds(d)' <=> Holds(d))
  BY GetTyped DEF Holds
<1>2. ASSUME NEW place \in Places, Place(c, place)
      PROVE  at'[c] = place /\ (place # "paused" => \A d \in Consumers : Holds(d)' <=> Holds(d))
  BY <1>1, <1>2, Stays DEF Holds
<1>3. {"waiting", "out", "next", "body", "paused"} \subseteq Places
  BY DEF Places, Suspended
<1>4. CASE queue = <<>> \/ Head(queue) = Stop
  <2>1. UNCHANGED <<taken, yields>> /\ (Place(c, "waiting") \/ Place(c, "out"))
    BY <1>4 DEF Get, TakeStop
  <2>2. QED
    BY <1>2, <1>3, <2>1, QuietTracked
<1>5. CASE queue # <<>> /\ Head(queue) # Stop
  <2> DEFINE m == Head(queue)
  <2>1. TakeMessage(c, m)
    BY <1>5 DEF Get
  <2>2. m.n = taken + 1 /\ m.type = offered[taken + 1]
    BY <1>5, HeadIsNext
  <2> HIDE DEF m
  <2>3. taken' = taken + 1 /\ abandoned' = abandoned /\ taken + 1 \in Nat
    BY <2>1 DEF TakeMessage, TypeOK
  <2>4. CASE TakePing(c, m) /\ AutoPong
    <3>1. UNCHANGED yields /\ Place(c, "next") /\ offered[taken + 1] \notin Seen
      BY <2>2, <2>3, <2>4 DEF TakePing, yields, Seen, Application
    <3>2. QED
      BY <1>2, <1>3, <2>3, <3>1, UnseenTracked
  <2>5. CASE TakePing(c, m) /\ ~AutoPong
    <3>1. YieldTo(c, taken + 1) /\ Place(c, "body") /\ held' = held
      BY <2>2, <2>5 DEF TakePing
    <3>2. QED
      BY <1>2, <1>3, <2>3, <3>1, PingTracked
  <2>6. CASE Dispatch(c, m) /\ m.type \in Faulty
    <3>1. UNCHANGED yields /\ Place(c, "out") /\ offered[taken + 1] \in Faulty
      BY <2>2, <2>3, <2>6 DEF Dispatch, yields
    <3>2. QED
      BY <1>2, <1>3, <2>3, <3>1, UnseenTracked
  <2>7. CASE Dispatch(c, m) /\ m.type \notin Faulty
    <3>1. /\ held' = [held EXCEPT ![c] = taken + 1] /\ UNCHANGED yielded
          /\ Place(c, "paused")
      BY <2>2, <2>7 DEF Dispatch
    <3>2. Holds(c)'
      BY <1>2, <1>3, <3>1 DEF Holds
    <3>3. QED
      BY <1>1, <2>3, <3>1, <3>2, PauseTracked
  <2>8. CASE Crash(c, m)
    <3>1. UNCHANGED yields /\ Place(c, "out") /\ offered[taken + 1] \notin Seen
      BY <2>2, <2>3, <2>8 DEF Crash, yields, Seen, Application
    <3>2. QED
      BY <1>2, <1>3, <2>3, <3>1, UnseenTracked
  <2>9. QED
    BY <2>1, <2>4, <2>5, <2>6, <2>7, <2>8 DEF TakeMessage
<1>6. QED
  BY <1>4, <1>5

LEMMA TestTracked ==
  ASSUME TypeOK, Due, Tracked, Connect \/ Disconnect \/ \E t \in Injected : Inject(t)
  PROVE  Tracked'
<1>1. UNCHANGED <<taken, yields>>
  BY DEF Connect, Disconnect, Inject
<1>2. ASSUME NEW n \in 1..taken PROVE offered'[n] = offered[n]
  <2>1. n \in 1..Len(offered) /\ offered \in Seq(Types)
    BY QueueFacts DEF Due
  <2>2. offered' = offered \/ \E t \in Types : offered' = Append(offered, t)
    BY FakeStreamAssumption DEF Connect, Disconnect, Inject, FakeStreamAssumption
  <2>3. QED
    BY <2>1, <2>2, AppendProperties
<1>3. at' = at \/ WakeNext(at)
  BY DEF Connect, Disconnect, Inject, Put
<1>4. \A c \in Consumers : Holds(c)' <=> Holds(c)
  BY <1>3, Wakes DEF Holds, Woke, TypeOK
<1>5. QED
  BY <1>1, <1>2, <1>4, QuietTracked

LEMMA ConsumerTracked ==
  ASSUME TypeOK, Due, Unloaded, Tracked, NEW c \in Consumers,
         \/ Start(c) \/ Advance(c) \/ Woken(c) \/ Expire(c) \/ TimedOut(c)
         \/ Yield(c) \/ Resume(c) \/ Leave(c)
  PROVE  Tracked'
<1>1. {"out", "next", "expired", "overdue", "body"} \subseteq Places
  BY DEF Places, Suspended
<1>2. Moves => UNCHANGED <<taken, yields, offered>>
  BY DEF Moves, Outside
<1>3. ASSUME ~Holds(c), NEW place \in {"out", "next", "expired", "overdue", "body"},
             Place(c, place) \/ (place \in {"out", "next"} /\ GiveUp(c, place))
      PROVE  \A d \in Consumers : Holds(d)' <=> Holds(d)
  BY <1>1, <1>3, Stays, GivesUp DEF Holds
<1>4. CASE Moves /\ ~Holds(c) /\ \E place \in {"out", "next", "expired", "overdue", "body"} :
             Place(c, place) \/ (place \in {"out", "next"} /\ GiveUp(c, place))
  BY <1>2, <1>3, <1>4, QuietTracked
<1>5. CASE ~Holds(c) /\ Get(c) /\ offered' = offered
  BY <1>5, GetTracked
<1>6. CASE Start(c) \/ Advance(c) \/ Woken(c) \/ Expire(c) \/ TimedOut(c) \/ Resume(c)
  BY <1>4, <1>5, <1>6 DEF Start, Advance, Woken, Expire, TimedOut, Resume, Holds
<1>7. QED
  BY <1>6, YieldTracked, LeaveTracked

LEMMA StepTracked == TypeOK /\ Due /\ Unloaded /\ Tracked /\ [Next]_vars => Tracked'
<1> SUFFICES ASSUME TypeOK, Due, Unloaded, Tracked, [Next]_vars
             PROVE  Tracked'
  OBVIOUS
<1>1. CASE UNCHANGED vars
  <2>1. UNCHANGED <<taken, yields, offered, at>>
    BY <1>1 DEF vars
  <2>2. QED
    BY <2>1, QuietTracked DEF Holds
<1>2. CASE Next
  BY <1>2, TestTracked, ConsumerTracked DEF Next
<1>3. QED
  BY <1>1, <1>2

\* A message is yielded at most once, to a consumer in order, and lost only with a
\* consumer that is cancelled in the pause or by a dispatch that raises, whatever
\* consumers do and however often the stream is connected and disconnected.
THEOREM YieldsAreSound == Spec => []YieldsSound
<1>1. Init => Tracked
  BY DEF Init, Tracked, Accounted, Known, Apart, InTurn, Holds
<1>2. Tracked => YieldsSound
  BY DEF Tracked, YieldsSound
<1>3. Spec => [](Due /\ Unloaded)
  BY InitDue, StepRefines, TypeCorrect, PTL DEF Spec
<1>4. QED
  BY <1>1, <1>2, <1>3, StepTracked, TypeCorrect, PTL DEF Spec

==============================================================================
