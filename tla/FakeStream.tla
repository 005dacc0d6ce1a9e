------------------------------ MODULE FakeStream ------------------------------
(***************************************************************************)
(* FakeCascorTrainingStream (src/juniper_cascor_client/testing/            *)
(* fake_ws_client.py): the in-memory stream that consumer tests use in     *)
(* place of CascorTrainingStream.                                          *)
(*                                                                         *)
(* Consumers iterate stream() as generators on one asyncio event loop and  *)
(* wait for messages on self._queue, each under its own timer; the test    *)
(* injects messages, connects and disconnects.  A consumer runs from one   *)
(* await or yield to the next without interruption: it is at "next" only   *)
(* within its turn, and nobody else moves meanwhile.                       *)
(*                                                                         *)
(* The messages given to __init__ are messages injected before connect().  *)
(***************************************************************************)
EXTENDS Integers, Sequences

CONSTANTS
  Consumers,    \* tasks that iterate stream() or run listen()
  Injected,     \* types of the messages that the test injects
  Faulty,       \* types on which a listener of the application raises
  AutoPong,     \* auto_pong
  Instant,      \* the values of delay == 0
  MaxMessages,  \* bound: messages injected
  MaxStarts,    \* bound: iterations of all consumers
  MaxConnects   \* bound: calls of connect()

\* Listeners are called for application messages.  A message that is not an object
\* is of no type: _dispatch() raises before it looks for listeners.
Application == {"metrics", "state"}
Types == Application \cup {"ping", "not_object"}

ASSUME FakeStreamAssumption ==
  /\ Injected \subseteq Types /\ Faulty \subseteq Application /\ AutoPong \in BOOLEAN /\ Instant \subseteq BOOLEAN
  /\ {MaxMessages, MaxStarts, MaxConnects} \subseteq Nat

VARIABLES
  connected,  \* self._connected
  loaded,     \* self._initial_loaded
  messages,   \* self._messages
  queue,      \* self._queue
  at,         \* where the iteration of each consumer is
  pongs,      \* self._pongs_sent
  instant,    \* self._delay == 0
  held,       \* the local `message` of each iteration, while it pauses
  offered,    \* history: types of the messages due for delivery, in order
  taken,      \* history: how many of them have been taken off the queue
  dispatched, \* history: messages whose listeners were called, and pings yielded
  yielded,    \* history: messages that iterations have yielded, in order
  abandoned,  \* history: messages whose consumer was cancelled in the pause
  silent,     \* history: consumers whose latest iteration ended by the timer
  late,       \* history: messages a consumer took after the latest disconnect()
  starts, connects  \* history: iterations, calls of connect()

channel == <<connected, loaded, messages, queue>>
counts  == <<starts, connects>>
yields  == <<held, yielded, abandoned>>
vars == <<channel, at, pongs, instant, offered, taken, dispatched, yields, silent, late, counts>>

Message == [n : Nat \ {0}, type : Types]
Stop == [n |-> 0, type |-> "stop"]
Suspended == {"waiting", "woken", "expired", "overdue", "paused", "body"}
Places == Suspended \cup {"out", "next"}

TypeOK ==
  /\ connected \in BOOLEAN /\ loaded \in BOOLEAN /\ instant \in Instant
  /\ messages \in Seq(Message) /\ queue \in Seq(Message \cup {Stop})
  /\ at \in [Consumers -> Places]
  /\ pongs \in Nat /\ taken \in Nat
  /\ offered \in Seq(Types) /\ dispatched \in Seq([type : Types, on : {1}, n : Nat])
  /\ held \in [Consumers -> Nat] /\ abandoned \subseteq Nat
  /\ yielded \in Seq([n : Nat, by : Consumers])
  /\ silent \subseteq Consumers /\ late \in [Consumers -> Nat]
  /\ {starts, connects} \subseteq Nat

Init ==
  /\ connected = FALSE /\ loaded = FALSE /\ messages = <<>> /\ queue = <<>>
  /\ at = [c \in Consumers |-> "out"]
  /\ pongs = 0 /\ instant \in Instant
  /\ offered = <<>> /\ taken = 0 /\ dispatched = <<>>
  /\ held = [c \in Consumers |-> 0] /\ yielded = <<>> /\ abandoned = {}
  /\ silent = {} /\ late = [c \in Consumers |-> 0]
  /\ starts = 0 /\ connects = 0

BetweenTurns == \A c \in Consumers : at[c] # "next"

------------------------------------------------------------------------------
\* asyncio.Queue

\* A consumer that waits, if there is one, is woken (asyncio: the one that has
\* waited longest); it takes its message at its next turn, if another consumer
\* has not taken it by then.
WakeNext(places) ==
  \/ \E c \in Consumers : places[c] = "waiting" /\ at' = [places EXCEPT ![c] = "woken"]
  \/ (\A c \in Consumers : places[c] # "waiting") /\ at' = places

Put(m) == queue' = Append(queue, m) /\ WakeNext(at)

\* c is cancelled, by its timer or by the application; a wakeup that it cannot
\* use it hands on.
GiveUp(c, place) ==
  LET places == [at EXCEPT ![c] = place]
  IN  IF at[c] \in {"woken", "overdue"} /\ queue # <<>> THEN WakeNext(places) ELSE at' = places

------------------------------------------------------------------------------
\* The test

\* connect(), which loads what was injected before it the first time only.
\* Mutant: every time.
ConnectReloads ==
  /\ BetweenTurns /\ connects < MaxConnects /\ connects' = connects + 1
  /\ connected' = TRUE /\ loaded' = TRUE
  /\ queue' = queue \o messages
  /\ late' = [c \in Consumers |-> 0]
  /\ UNCHANGED <<messages, at, pongs, instant, offered, taken, dispatched, yields, silent, starts>>

Connect ==
  /\ BetweenTurns /\ connects < MaxConnects /\ connects' = connects + 1
  /\ connected' = TRUE /\ loaded' = TRUE
  /\ queue' = (IF loaded THEN queue ELSE queue \o messages)
  /\ late' = [c \in Consumers |-> 0]
  /\ UNCHANGED <<messages, at, pongs, instant, offered, taken, dispatched, yields, silent, starts>>

Disconnect ==
  /\ BetweenTurns /\ connected
  /\ connected' = FALSE /\ Put(Stop)
  /\ UNCHANGED <<loaded, messages, pongs, instant, offered, taken, dispatched, yields>>
  /\ UNCHANGED <<silent, late, counts>>

\* inject_message(): into the queue; while disconnected, to what the first
\* connect() loads, where no later one looks.
Inject(type) ==
  /\ BetweenTurns /\ Len(offered) < MaxMessages /\ Len(messages) < MaxMessages
  /\ LET m == [n |-> Len(offered) + 1, type |-> type]
     IN  \/ connected /\ Put(m) /\ UNCHANGED messages
         \/ ~connected /\ messages' = Append(messages, m) /\ UNCHANGED <<queue, at>>
  /\ offered' = (IF connected \/ ~loaded THEN Append(offered, type) ELSE offered)
  /\ UNCHANGED <<connected, loaded, pongs, instant, taken, dispatched, yields>>
  /\ UNCHANGED <<silent, late, counts>>

------------------------------------------------------------------------------
\* stream()

Place(c, place) == at' = [at EXCEPT ![c] = place]
Record(m) == dispatched' = Append(dispatched, [type |-> m.type, on |-> 1, n |-> m.n])
YieldTo(c, n) == yielded' = Append(yielded, [n |-> n, by |-> c])

\* The first message of the queue is c's.  Pings are answered, or yielded at once.
TakePing(c, m) ==
  /\ m.type = "ping"
  /\ \/ /\ AutoPong
        /\ pongs' = pongs + 1 /\ Place(c, "next") /\ UNCHANGED <<dispatched, yielded>>
     \/ /\ ~AutoPong
        /\ Record(m) /\ YieldTo(c, m.n) /\ Place(c, "body") /\ UNCHANGED pongs
  /\ UNCHANGED held

\* Of others the listeners are called, without a guard: one that raises ends the
\* iteration.  The message is yielded after a pause of delay seconds.
Dispatch(c, m) ==
  /\ m.type \in Application /\ Record(m)
  /\ \/ m.type \in Faulty /\ Place(c, "out") /\ UNCHANGED held
     \/ m.type \notin Faulty /\ Place(c, "paused") /\ held' = [held EXCEPT ![c] = m.n]
  /\ UNCHANGED <<pongs, yielded>>

\* message.get raises.
Crash(c, m) ==
  /\ m.type = "not_object" /\ Place(c, "out")
  /\ UNCHANGED <<pongs, dispatched, held, yielded>>

TakeMessage(c, m) ==
  /\ queue' = Tail(queue) /\ taken' = taken + 1
  /\ late' = (IF connected THEN late ELSE [late EXCEPT ![c] = @ + 1])
  /\ TakePing(c, m) \/ Dispatch(c, m) \/ Crash(c, m)
  /\ UNCHANGED abandoned

\* Mutant: the sentinel is a message like any other.
TakeStopAsMessage(c) ==
  /\ queue' = Tail(queue) /\ Record(Stop) /\ Place(c, "body")
  /\ UNCHANGED <<taken, late, pongs, yields>>

TakeStop(c) ==
  /\ queue' = Tail(queue) /\ Place(c, "out")
  /\ UNCHANGED <<taken, late, pongs, dispatched, yields>>

\* queue.get(), or what is left of it after a wakeup.
Get(c) ==
  /\ \/ /\ queue = <<>>
        /\ Place(c, "waiting")
        /\ UNCHANGED <<queue, taken, late, pongs, dispatched, yields>>
     \/ /\ queue # <<>>
        /\ IF Head(queue) = Stop THEN TakeStop(c) ELSE TakeMessage(c, Head(queue))
  /\ UNCHANGED <<connected, loaded, messages>>

\* Outside the queue; and without a yield.
Outside == UNCHANGED <<channel, pongs, instant, offered, taken, dispatched, late>>
Moves == Outside /\ UNCHANGED yields

\* An iteration begins, as stream() or listen(); the stream must be connected.
Start(c) ==
  /\ BetweenTurns /\ at[c] = "out" /\ connected /\ starts < MaxStarts
  /\ starts' = starts + 1 /\ silent' = silent \ {c} /\ Place(c, "next")
  /\ Moves /\ UNCHANGED connects

\* The head of the loop.  wait_for() with a timeout of 0 cancels get() before
\* it has run, whatever is in the queue.
\* Mutant: the loop does not look whether the stream is connected.
AdvanceAnyway(c) ==
  /\ at[c] = "next"
  /\ \/ instant /\ Place(c, "expired") /\ Moves
     \/ ~instant /\ Get(c) /\ UNCHANGED <<instant, offered>>
  /\ UNCHANGED <<silent, counts>>

Advance(c) ==
  /\ at[c] = "next"
  /\ \/ ~connected /\ Place(c, "out") /\ Moves
     \/ connected /\ instant /\ Place(c, "expired") /\ Moves
     \/ connected /\ ~instant /\ Get(c) /\ UNCHANGED <<instant, offered>>
  /\ UNCHANGED <<silent, counts>>

Woken(c) ==
  /\ BetweenTurns /\ at[c] = "woken"
  /\ Get(c)
  /\ UNCHANGED <<instant, offered, silent, counts>>

\* The timer of wait_for(), 10 delays.  The future that c waits on is done with,
\* and c raises TimeoutError at its next turn.
\* Mutant: queue.get() without a timeout.
ExpireNever(c) == FALSE

Expire(c) ==
  /\ BetweenTurns
  /\ \/ at[c] = "waiting" /\ Place(c, "expired")
     \/ at[c] = "woken" /\ Place(c, "overdue")
  /\ Moves /\ UNCHANGED <<silent, counts>>

\* Mutant: the queue is not looked at.
TimedOutForGood(c) ==
  /\ BetweenTurns /\ at[c] \in {"expired", "overdue"}
  /\ GiveUp(c, "out") /\ silent' = silent \cup {c}
  /\ Moves /\ UNCHANGED counts

TimedOut(c) ==
  /\ BetweenTurns /\ at[c] \in {"expired", "overdue"}
  /\ \/ queue = <<>> /\ GiveUp(c, "out") /\ silent' = silent \cup {c}
     \/ queue # <<>> /\ GiveUp(c, "next") /\ UNCHANGED silent
  /\ Moves /\ UNCHANGED counts

\* The pause is over, and the message is yielded.
\* Mutant: not if the stream was disconnected in the pause.
YieldIfConnected(c) ==
  /\ BetweenTurns /\ at[c] = "paused"
  /\ \/ connected /\ Place(c, "body") /\ YieldTo(c, held[c])
     \/ ~connected /\ Place(c, "out") /\ UNCHANGED yielded
  /\ Outside /\ UNCHANGED <<held, abandoned, silent, counts>>

Yield(c) ==
  /\ BetweenTurns /\ at[c] = "paused" /\ Place(c, "body") /\ YieldTo(c, held[c])
  /\ Outside /\ UNCHANGED <<held, abandoned, silent, counts>>

\* The consumer asks for the next message,
Resume(c) ==
  /\ BetweenTurns /\ at[c] = "body" /\ Place(c, "next")
  /\ Moves /\ UNCHANGED <<silent, counts>>

\* or it leaves the loop, or is cancelled wherever it is suspended: in the pause
\* it leaves with the message.
Leave(c) ==
  /\ BetweenTurns /\ at[c] \in Suspended
  /\ GiveUp(c, "out")
  /\ abandoned' = abandoned \cup (IF at[c] = "paused" THEN {held[c]} ELSE {})
  /\ Outside /\ UNCHANGED <<held, yielded, silent, counts>>

Next ==
  \/ Connect \/ Disconnect \/ \E t \in Injected : Inject(t)
  \/ \E c \in Consumers : \/ Start(c) \/ Advance(c) \/ Woken(c) \/ Expire(c) \/ TimedOut(c)
                          \/ Yield(c) \/ Resume(c) \/ Leave(c)

Spec == Init /\ [][Next]_vars

\* The event loop runs what is ready, timers fire, and consumers come back.
Proceed(c) == Woken(c) \/ Expire(c) \/ TimedOut(c) \/ Yield(c) \/ Resume(c)

FairSpec == Spec /\ \A c \in Consumers : WF_vars(Advance(c)) /\ SF_vars(Proceed(c))

------------------------------------------------------------------------------
\* Properties

\* The types that a consumer is to see.
Seen == Application \cup (IF AutoPong THEN {} ELSE {"ping"})

Promise == INSTANCE FrameDelivery WITH
  Conns <- {1}, Application <- Seen, sent <- [k \in {1} |-> offered],
  read <- [k \in {1} |-> taken], handed <- dispatched, ended <- {}

\* Whatever is injected before the first connect() or while connected is taken off
\* once, in order, and its listeners are called then; across reconnects and
\* consumers that come and go, nothing is repeated or skipped (_initial_loaded,
\* one queue).  It is what the real stream promises (TrainingStream), as far as
\* the listeners go: there a message is yielded in the same turn, here after a
\* pause, and only if no listener raises.
ImplementsDispatch == Promise!Spec

\* Every message taken of these types has been yielded, or is held in the pause, or
\* has lost its consumer in it.
Accounted(types) ==
  \A n \in 1..taken : offered[n] \in types =>
    \/ \E i \in DOMAIN yielded : yielded[i].n = n
    \/ \E c \in Consumers : at[c] = "paused" /\ held[c] = n
    \/ n \in abandoned

InTurn ==
  \A i, j \in DOMAIN yielded : i < j =>
    /\ yielded[i].n # yielded[j].n
    /\ yielded[i].by = yielded[j].by => yielded[i].n < yielded[j].n

\* No message is yielded twice, no consumer sees messages out of order, and none
\* gets lost but in two ways: its consumer is cancelled in the pause, or a listener
\* raises, which ends the iteration (the order of dispatch, sleep and yield in
\* stream(); the real stream guards its listeners, and yields in the same turn).
YieldsSound == Accounted(Seen \ Faulty) /\ InTurn

\* After disconnect() a consumer takes one message more at most, the one it had
\* been woken for (the condition of the loop in stream()).
OneLateAtMost == \A c \in Consumers : late[c] <= 1

\* After disconnect() every iteration ends, also those that the one sentinel
\* does not reach, unless the stream is connected again.
IterationsEnd ==
  \A c \in Consumers :
    (~connected /\ at[c] # "out") ~> (connected \/ at[c] = "out")

\* An iteration does not end by silence over a message that waits: it takes the
\* message, another consumer does, or it ends for another reason.  With
\* delay=0 it does not: see the README.
Delivered ==
  \A c \in Consumers : \A n \in 1..MaxMessages :
    (~instant /\ n <= Len(offered) /\ taken < n /\ at[c] # "out") ~>
       (taken >= n \/ (at[c] = "out" /\ c \notin silent))
==============================================================================
