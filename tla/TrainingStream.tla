---------------------------- MODULE TrainingStream ----------------------------
(***************************************************************************)
(* CascorTrainingStream (src/juniper_cascor_client/ws_client.py):          *)
(* coroutines iterate over stream(), an asynchronous generator that reads  *)
(* the connection, answers heartbeat pings, dispatches each frame to the   *)
(* registered listeners and yields it; an owner connects and disconnects.  *)
(*                                                                         *)
(* A generator runs only while its consumer asks for the next frame.  It   *)
(* is suspended in recv(), in the send() of a pong or at its yield; what   *)
(* it does in between happens in one turn of the event loop (`reading`),   *)
(* one frame per action.  The websockets library and the server are        *)
(* external: a connection keeps what was sent on it and how much of it has *)
(* been read.                                                              *)
(***************************************************************************)
EXTENDS Integers, FiniteSets, SequencesExt

CONSTANTS
  Consumers,   \* coroutines that iterate over the stream
  Listeners,   \* callables registered with on_metrics(), on_disconnect(), ...
  KindsOf,     \* KindsOf[l]: what l is registered for, types or "disconnect"
  Faulty,      \* listeners that raise when called
  Setup,       \* the listeners of each kind registered before anything happens
  AutoPong,    \* self._auto_pong
  Pushed,      \* types of the frames the server sends
  MaxConns,    \* bound: connections opened
  MaxFrames,   \* bound: frames sent on all connections
  MaxStarts    \* bound: iterations each consumer begins

Conns == 1..MaxConns
\* "metrics" and "state" stand for the types of application messages.
Types == {"metrics", "state", "ping", "malformed", "not_object"}
Kinds == {"metrics", "state", "disconnect"}

ASSUME TrainingStreamAssumption ==
  /\ IsFiniteSet(Listeners) /\ KindsOf \in [Listeners -> SUBSET Kinds] /\ Faulty \subseteq Listeners
  /\ Setup \in [Kinds -> Seq(Listeners)]
  /\ \A l \in Listeners : \/ \A kind \in Kinds : l \notin Range(Setup[kind])
                          \/ \A kind \in Kinds : l \in Range(Setup[kind]) <=> kind \in KindsOf[l]
  /\ Pushed \subseteq Types /\ AutoPong \in BOOLEAN
  /\ MaxConns \in Nat \ {0} /\ MaxFrames \in Nat /\ MaxStarts \in Nat

VARIABLES
  ws,         \* self._ws: 0 for None, or the connection
  callbacks,  \* self._callbacks and, for "disconnect", self._disconnect_callbacks
  gen,        \* each consumer's generator, see GenRecord
  owner,      \* where connect() or disconnect() stands
  conn,       \* external: connections, see ConnRecord
  pongs,      \* pongs sent: ping's connection and position, connection answered on
  events,     \* history: frames yielded and disconnects reported, in order
  heard,      \* history: the positions in events each listener was called for
  since,      \* history: how many events there were when a listener registered
  ended       \* history: connections on which an iteration has ended regularly

vars == <<ws, callbacks, gen, owner, conn, pongs, events, heard, since, ended>>
history == <<events, heard, since, ended>>

GenRecord == [at : {"none", "reading", "recv", "pong", "yielded"},
              on : Conns,      \* the connection `async for` iterates over
              via : Conns,     \* the connection a pong is being sent on,
              ping : Nat,      \* and the position of the ping it answers
              starts : 0..MaxStarts]
ConnRecord == [state : {"unused", "open", "closing", "ok", "error"},
               sent : Seq(Types), read : Nat]
Event == [type : Types \cup {"disconnect"}, on : Conns, n : Nat]

TypeOK ==
  /\ ws \in Conns \cup {0}
  /\ callbacks \in [Kinds -> Seq(Listeners)]
  /\ gen \in [Consumers -> GenRecord]
  /\ owner \in {"idle", "dialing", "closing"}
  /\ conn \in [Conns -> ConnRecord]
  /\ pongs \subseteq Conns \X Nat \X Conns
  /\ events \in Seq(Event)
  /\ heard \in [Listeners -> Seq(Nat)]
  /\ since \in [Listeners -> Nat]
  /\ ended \subseteq Conns

Init ==
  /\ ws = 0 /\ owner = "idle"
  /\ callbacks = Setup
  /\ gen = [c \in Consumers |-> [at |-> "none", on |-> 1, via |-> 1, ping |-> 0,
                               starts |-> 0]]
  /\ conn = [k \in Conns |-> [state |-> "unused", sent |-> <<>>, read |-> 0]]
  /\ pongs = {} /\ events = <<>> /\ ended = {}
  /\ heard = [l \in Listeners |-> <<>>]
  /\ since = [l \in Listeners |-> 0]

------------------------------------------------------------------------------
\* No generator is in the middle of a turn.
BetweenTurns == \A c \in Consumers : gen[c].at # "reading"

Unread(k)     == conn[k].read < Len(conn[k].sent)
NextType(k)   == conn[k].sent[conn[k].read + 1]
Closed(k)     == conn[k].state \in {"ok", "error"}
Registered(l) == \E kind \in KindsOf[l] : l \in Range(callbacks[kind])
Ask(c, at)    == gen' = [gen EXCEPT ![c].at = at]

\* Mutant: no try around a callback, so the first that raises stops the rest.
DispatchUnguarded(kind) ==
  LET cbs       == callbacks[kind]
      Called(i) == \A j \in 1..(i - 1) : cbs[j] \notin Faulty
  IN  heard' = [l \in Listeners |->
                  IF \E i \in DOMAIN cbs : cbs[i] = l /\ Called(i)
                  THEN Append(heard[l], Len(events) + 1) ELSE heard[l]]

\* The listeners of a kind are called one after the other; what one of them
\* raises is logged.
Dispatch(kind) ==
  heard' = [l \in Listeners |->
              IF l \in Range(callbacks[kind])
              THEN Append(heard[l], Len(events) + 1) ELSE heard[l]]

Report(type, k, n) ==
  /\ events' = Append(events, [type |-> type, on |-> k, n |-> n])
  /\ Dispatch(type)

Take(k) == conn' = [conn EXCEPT ![k].read = @ + 1]

------------------------------------------------------------------------------
\* What the generator does with a frame

\* A malformed frame is dropped, and the loop goes on.
DropFrame(c) ==
  LET k == gen[c].on IN
  /\ NextType(k) = "malformed"
  /\ Take(k) /\ Ask(c, "reading")
  /\ UNCHANGED <<pongs, history>>

\* Mutants of AnswerPing: no test for self._ws; a ping is consumed and not answered.
AnswerPingUnchecked(c) ==
  LET k == gen[c].on IN
  /\ AutoPong /\ NextType(k) = "ping"
  /\ Take(k)
  /\ gen' = [gen EXCEPT ![c].at = "pong", ![c].via = ws, ![c].ping = conn[k].read + 1]
  /\ UNCHANGED <<pongs, history>>

AnswerPingNever(c) ==
  LET k == gen[c].on IN
  /\ AutoPong /\ NextType(k) = "ping"
  /\ Take(k) /\ Ask(c, "reading")
  /\ UNCHANGED <<pongs, history>>

\* A ping is answered on self._ws, whichever connection that is by now.  The
\* send may have to wait for the transport; on a closing connection it waits
\* for its end.  On a closed one it fails, which is ignored.
AnswerPing(c) ==
  LET k == gen[c].on IN
  /\ AutoPong /\ NextType(k) = "ping"
  /\ Take(k)
  /\ \/ /\ ws = 0 \/ (ws # 0 /\ Closed(ws))
        /\ Ask(c, "reading") /\ UNCHANGED pongs
     \/ /\ ws # 0 /\ conn[ws].state = "open"
        /\ Ask(c, "reading") /\ pongs' = pongs \cup {<<k, conn[k].read + 1, ws>>}
     \/ /\ ws # 0 /\ conn[ws].state \in {"open", "closing"}
        /\ gen' = [gen EXCEPT ![c].at = "pong", ![c].via = ws,
                              ![c].ping = conn[k].read + 1]
        /\ UNCHANGED pongs
  /\ UNCHANGED history

\* auto_pong=False: the consumer sees the ping.
YieldPing(c) ==
  LET k == gen[c].on IN
  /\ ~AutoPong /\ NextType(k) = "ping"
  /\ Take(k) /\ Ask(c, "yielded")
  /\ events' = Append(events, [type |-> "ping", on |-> k, n |-> conn[k].read + 1])
  /\ UNCHANGED <<pongs, heard, since, ended>>

\* A JSON value that is not an object: message.get raises in _dispatch, and the
\* generator is finished.
Crash(c) ==
  LET k == gen[c].on IN
  /\ NextType(k) = "not_object"
  /\ Take(k) /\ Ask(c, "none")
  /\ UNCHANGED <<pongs, history>>

\* Any other frame is dispatched to its listeners and then yielded.
HandOver(c) ==
  LET k == gen[c].on IN
  /\ NextType(k) \in {"metrics", "state"}
  /\ Take(k) /\ Ask(c, "yielded")
  /\ Report(NextType(k), k, conn[k].read + 1)
  /\ UNCHANGED <<pongs, since, ended>>

Handle(c) ==
  /\ Unread(gen[c].on)
  /\ DropFrame(c) \/ AnswerPing(c) \/ YieldPing(c) \/ Crash(c) \/ HandOver(c)
  /\ UNCHANGED <<ws, callbacks, owner>>

\* Mutant of Finish: what is left in the connection's buffer is not read.
FinishEarly(c) ==
  LET k == gen[c].on IN
  /\ Closed(k)
  /\ Ask(c, "none") /\ ended' = ended \cup {k}
  /\ \/ conn[k].state = "ok" /\ UNCHANGED <<events, heard>>
     \/ conn[k].state = "error" /\ Report("disconnect", k, 0)
  /\ UNCHANGED <<ws, callbacks, owner, conn, pongs, since>>

\* recv() finds the connection closed and nothing left to read.  A normal close
\* ends the iteration of the connection; anything else raises, and stream()
\* tells the on_disconnect callbacks before it ends.
Finish(c) ==
  LET k == gen[c].on IN
  /\ Closed(k) /\ ~Unread(k)
  /\ Ask(c, "none") /\ ended' = ended \cup {k}
  /\ \/ conn[k].state = "ok" /\ UNCHANGED <<events, heard>>
     \/ conn[k].state = "error" /\ Report("disconnect", k, 0)
  /\ UNCHANGED <<ws, callbacks, owner, conn, pongs, since>>

------------------------------------------------------------------------------
\* Consumers

\* The first __anext__() of a new stream(); without a connection it raises.
Start(c) ==
  /\ BetweenTurns
  /\ gen[c].at = "none" /\ gen[c].starts < MaxStarts /\ ws # 0
  /\ gen' = [gen EXCEPT ![c].at = "reading", ![c].on = ws, ![c].starts = @ + 1]
  /\ UNCHANGED <<ws, callbacks, owner, conn, pongs, history>>

\* The consumer asks for the next frame.
Resume(c) ==
  /\ BetweenTurns /\ gen[c].at = "yielded" /\ Ask(c, "reading")
  /\ UNCHANGED <<ws, callbacks, owner, conn, pongs, history>>

\* The consumer leaves its loop, or is cancelled while it waits for a frame or
\* for a pong to be sent: the generator is closed.
Leave(c) ==
  /\ BetweenTurns /\ gen[c].at \in {"yielded", "recv", "pong"} /\ Ask(c, "none")
  /\ UNCHANGED <<ws, callbacks, owner, conn, pongs, history>>

\* recv() in the turn of c: ConcurrencyError while another generator waits in
\* it; a frame that is there or the end at once; or wait.
Receive(c) ==
  /\ gen[c].at = "reading"
  /\ IF \E d \in Consumers : gen[d].at = "recv" /\ gen[d].on = gen[c].on
     THEN Ask(c, "none") /\ UNCHANGED <<ws, callbacks, owner, conn, pongs, history>>
     ELSE \/ Handle(c)
          \/ Finish(c)
          \/ /\ ~Unread(gen[c].on) /\ ~Closed(gen[c].on)
             /\ Ask(c, "recv")
             /\ UNCHANGED <<ws, callbacks, owner, conn, pongs, history>>

\* recv() returns or raises.
Woken(c) == BetweenTurns /\ gen[c].at = "recv" /\ (Handle(c) \/ Finish(c))

\* send() of a pong returns, or raises because the connection is gone.
PongSent(c) ==
  /\ BetweenTurns /\ gen[c].at = "pong"
  /\ \/ /\ conn[gen[c].via].state = "open"
        /\ pongs' = pongs \cup {<<gen[c].on, gen[c].ping, gen[c].via>>}
     \/ Closed(gen[c].via) /\ UNCHANGED pongs
  /\ Ask(c, "reading")
  /\ UNCHANGED <<ws, callbacks, owner, conn, history>>

\* The application registers a listener with on_metrics(), on_disconnect(), ...;
\* each listener once.
Register(l) ==
  /\ BetweenTurns /\ ~Registered(l)
  /\ callbacks' = [kind \in Kinds |-> IF kind \in KindsOf[l]
                                      THEN Append(callbacks[kind], l) ELSE callbacks[kind]]
  /\ since' = [since EXCEPT ![l] = Len(events)]
  /\ UNCHANGED <<ws, gen, owner, conn, pongs, events, heard, ended>>

------------------------------------------------------------------------------
\* The owner: connect() and disconnect(), each split at its await

\* websockets.connect() is called; a supervisor may do so while self._ws is set.
Connect ==
  /\ BetweenTurns /\ owner = "idle" /\ \E k \in Conns : conn[k].state = "unused"
  /\ owner' = "dialing"
  /\ UNCHANGED <<ws, callbacks, gen, conn, pongs, history>>

\* ... fails, and self._ws stays what it was, or returns a connection.
ConnectFails ==
  /\ BetweenTurns /\ owner = "dialing" /\ owner' = "idle"
  /\ UNCHANGED <<ws, callbacks, gen, conn, pongs, history>>

Connected ==
  /\ BetweenTurns /\ owner = "dialing" /\ owner' = "idle"
  /\ \E k \in Conns :
       /\ conn[k].state = "unused" /\ \A j \in 1..(k - 1) : conn[j].state # "unused"
       /\ conn' = [conn EXCEPT ![k].state = "open"]
       /\ ws' = k
  /\ UNCHANGED <<callbacks, gen, pongs, history>>

Disconnect ==
  /\ BetweenTurns /\ owner = "idle" /\ ws # 0
  /\ owner' = "closing"
  /\ conn' = [conn EXCEPT ![ws].state = IF @ = "open" THEN "closing" ELSE @]
  /\ UNCHANGED <<ws, callbacks, gen, pongs, history>>

\* close() returns when the connection is closed, and self._ws is forgotten.
Disconnected ==
  /\ BetweenTurns /\ owner = "closing" /\ Closed(ws)
  /\ owner' = "idle" /\ ws' = 0
  /\ UNCHANGED <<callbacks, gen, conn, pongs, history>>

------------------------------------------------------------------------------
\* External: the server and the network

FramesSent == LET Add(k, total) == Len(conn[k].sent) + total
              IN  FoldSet(Add, 0, Conns)

Push(k, t) ==
  /\ BetweenTurns /\ conn[k].state \in {"open", "closing"} /\ FramesSent < MaxFrames
  /\ conn' = [conn EXCEPT ![k].sent = Append(@, t)]
  /\ UNCHANGED <<ws, callbacks, gen, owner, pongs, history>>

\* The closing handshake of either side is completed, or the connection is lost.
Close(k) ==
  /\ BetweenTurns /\ conn[k].state \in {"open", "closing"}
  /\ \E s \in {"ok", "error"} : conn' = [conn EXCEPT ![k].state = s]
  /\ UNCHANGED <<ws, callbacks, gen, owner, pongs, history>>

------------------------------------------------------------------------------
Next ==
  \/ \E c \in Consumers : \/ Start(c) \/ Resume(c) \/ Leave(c)
                          \/ Receive(c) \/ Woken(c) \/ PongSent(c)
  \/ \E l \in Listeners : Register(l)
  \/ Connect \/ ConnectFails \/ Connected \/ Disconnect \/ Disconnected
  \/ \E k \in Conns : Close(k) \/ \E t \in Pushed : Push(k, t)

Spec == Init /\ [][Next]_vars

\* Consumers come back for the next frame, the event loop runs what is ready, a
\* transport drains.
FairSpec ==
  /\ Spec
  /\ \A c \in Consumers : /\ WF_vars(Resume(c)) /\ WF_vars(Receive(c))
                          /\ WF_vars(Woken(c)) /\ WF_vars(PongSent(c))

------------------------------------------------------------------------------
\* Properties

Promise == INSTANCE FrameDelivery WITH
  Application <- {"metrics", "state"} \cup (IF AutoPong THEN {} ELSE {"ping"}),
  sent <- [k \in Conns |-> conn[k].sent], read <- [k \in Conns |-> conn[k].read],
  handed <- events, ended <- ended

\* However many coroutines iterate, leave, are cancelled and come back, the
\* frames of each connection are yielded once each, in order, and an iteration
\* that ends by itself has left nothing unread (stream(), recv() on close).
ImplementsDelivery == Promise!Spec

\* Hence what was yielded of each connection is what was read of it, in order and
\* once each (stream()).
HandedInOrder == Promise!HandedInOrder

\* A listener is called once, in order, for each event of its kind that the
\* stream hands over after its registration, whatever other listeners raise
\* (_dispatch, _dispatch_disconnect).
ListenersHearAll ==
  \A l \in Listeners :
    /\ Range(heard[l]) = {i \in DOMAIN events : /\ Registered(l) /\ since[l] < i
                                               /\ events[i].type \in KindsOf[l]}
    /\ \A i, j \in DOMAIN heard[l] : i < j => heard[l][i] < heard[l][j]

\* A ping on the current connection is answered on it as long as one consumer
\* alone keeps iterating over that connection (stream(), _send_pong).
Iterated(k) ==
  /\ ws = k /\ conn[k].state = "open"
  /\ \E c \in Consumers : /\ gen[c].at # "none" /\ gen[c].on = k
                          /\ \A d \in Consumers \ {c} : gen[d].at = "none"

PingsAnswered ==
  \A k \in Conns, n \in 1..MaxFrames :
    (/\ Iterated(k) /\ conn[k].read < n /\ n <= Len(conn[k].sent)
     /\ AutoPong /\ conn[k].sent[n] = "ping")
      ~> (<<k, n, k>> \in pongs \/ ~Iterated(k))

\* src/tests/test_inbound_validation.py: a bad frame never interrupts the stream.
NoFrameEndsStream ==
  [][\A c \in Consumers : gen[c].at # "none" /\ gen'[c].at = "none" => conn' = conn]_vars
==============================================================================
