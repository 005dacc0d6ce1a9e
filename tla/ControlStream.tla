---------------------------- MODULE ControlStream ----------------------------
(***************************************************************************)
(* CascorControlStream (src/juniper_cascor_client/ws_client.py): one       *)
(* object shared by several coroutines of one asyncio event loop.          *)
(*                                                                         *)
(*  - Callers run `await set_params(...)` or `await command(...)`;         *)
(*  - Loops are the background recv tasks the object creates; recvTask is  *)
(*    the one self._recv_task names;                                       *)
(*  - the Owner runs `await connect()` and `await disconnect()`;           *)
(*  - the websockets library and the server are external.                  *)
(*                                                                         *)
(* asyncio runs one task at a time, from one suspension to the next, in    *)
(* the order of its FIFO queue of ready handles: a task's turn is one      *)
(* action, and `ready` is that queue.  What a timer, another task's        *)
(* cancel() or the transport does to a suspended task is an action of its  *)
(* own that puts the task at the end of `ready`.                           *)
(***************************************************************************)
EXTENDS Integers, FiniteSets, SequencesExt

CONSTANTS
  Callers,     \* coroutines that send commands
  Owner,       \* the coroutine that connects and disconnects
  UserIds,     \* command_id values callers may supply to set_params
  NoId,        \* no command_id
  AutoPong,    \* self._auto_pong
  MaxPending,  \* MAX_PENDING_COMMANDS
  MaxLoops,    \* bound: recv tasks alive at once (a dead one's slot is reused)
  MaxConns,    \* bound: connections opened
  MaxCalls,    \* bound: calls per caller
  MaxPushes,   \* bound: pings, bad frames and repeated responses of the server
  Events       \* what the environment may do, a subset of AllEvents

AllEvents == {"command", "early_call", "timeout", "cancel", "drain",
              "duplicate", "malformed", "not_object", "bad_handshake",
              "close", "disconnect", "reconnect"}

Loops == 1..MaxLoops
Conns == 1..MaxConns
Tasks == Callers \cup Loops \cup {Owner}
Uuids == Callers \X (1..MaxCalls)     \* uuid4() per call: the id names the call
Ids   == Uuids \cup UserIds
NoCaller == Owner                     \* the owner never has a future
NoReply  == <<>>

ASSUME ControlStreamAssumption ==
  /\ IsFiniteSet(Callers) /\ Callers \cap Loops = {}
  /\ Owner \notin Callers \cup Loops
  /\ UserIds \cap Uuids = {} /\ NoId \notin Ids
  /\ AutoPong \in BOOLEAN /\ Events \subseteq AllEvents
  /\ MaxPending \in Nat /\ MaxCalls \in Nat /\ MaxPushes \in Nat
  /\ MaxLoops \in Nat \ {0} /\ MaxConns \in Nat \ {0}

VARIABLES
  ws,        \* self._ws: 0 for None, or the connection
  recvTask,  \* self._recv_task: 0 for None, or the recv task
  pending,   \* self._pending: command_id -> caller awaiting the future, or NoCaller
  ready,     \* the event loop's queue of tasks
  loop,      \* recv tasks: where each stands, whose recv() blocks it, cancel() asked
  call,      \* callers: their latest call, see CallRecord
  owner,     \* where connect() or disconnect() stands
  conn,      \* external: connections as the library and the server see them
  pushes     \* external: frames counted against MaxPushes

vars == <<ws, recvTask, pending, ready, loop, call, owner, conn, pushes>>

Dead       == {"absent", "returned", "closed", "crashed", "cancelled"}
Correlated == {"sending", "waiting"}
Direct     == {"directSending", "directLoop", "directRecv", "directPong"}

LoopRecord == [at : Dead \cup {"start", "slept", "recv", "pong"}, ws : Conns,
               cancelled : BOOLEAN]
CallRecord ==
  [n : 0..MaxCalls,                         \* how many calls the caller has begun
   at : {"idle"} \cup Correlated \cup Direct,
   id : Ids \cup {NoId},                    \* command_id, NoId on the direct path
   ws : Conns,                              \* connection it sends to or reads from
   fut : {"none", "pending", "result", "exception", "cancelled"},
   reply : Uuids \cup {NoReply},            \* the call its response answers
   interrupt : {"none", "timeout", "cancelled"},  \* to be raised at its next turn
   outcome : {"none", "ok", "timeout", "cancelled", "disconnected", "closed",
              "overload", "not_connected", "protocol", "concurrency"}]
Request == [call : Uuids, id : Ids \cup {NoId}]
Frame   == [type : {"connection_established", "ping", "malformed", "not_object",
                    "command_response"},
            id : Ids \cup {NoId}, re : Uuids \cup {NoReply}]
ConnRecord == [state : {"unused", "open", "closed"}, greeted : BOOLEAN,
               pinged : BOOLEAN,            \* a heartbeat ping is unanswered
               inbox : Seq(Frame),          \* received and not yet read
               sent : SUBSET Request, answered : SUBSET Request]

TypeOK ==
  /\ ws \in Conns \cup {0}
  /\ recvTask \in Loops \cup {0}
  /\ pending \in [Ids \cup {NoId} -> Callers \cup {NoCaller}]
  /\ ready \in Seq(Tasks)
  /\ loop \in [Loops -> LoopRecord]
  /\ call \in [Callers -> CallRecord]
  /\ owner \in {"idle", "dialing", "handshake", "joining", "closing"}
  /\ conn \in [Conns -> ConnRecord]
  /\ pushes \in 0..MaxPushes

------------------------------------------------------------------------------
\* The event loop

Turn(t)   == ready # <<>> /\ Head(ready) = t
Rest      == Tail(ready)
Queued(t) == t \in Range(ready)
Wake(t)   == ready' = IF Queued(t) THEN ready ELSE Append(ready, t)

\* A caller inside `while True` of _recv_skipping_pings, not suspended: its
\* turn goes on, so no other code of the object may run.
MidTurn == \E c \in Callers : Turn(c) /\ call[c].at = "directLoop"

Open(k)    == k # 0 /\ conn[k].state = "open"
LoopAlive  == recvTask # 0 /\ loop[recvTask].at \notin Dead
PendingIds == {k \in Ids : pending[k] # NoCaller}

\* websockets: recv() raises ConcurrencyError while another recv() is under way.
Reading(k) ==
  \/ \E r \in Loops : loop[r].at = "recv" /\ loop[r].ws = k
  \/ \E c \in Callers : call[c].at = "directRecv" /\ call[c].ws = k
  \/ owner = "handshake" /\ ws = k

\* create_task(self._recv_loop()) unless a recv task is running; q is the queue
\* as the rest of the turn leaves it.
EnsureRecvTask(q) ==
  IF LoopAlive
  THEN ready' = q /\ UNCHANGED <<recvTask, loop>>
  ELSE \E r \in Loops :
         /\ loop[r].at \in Dead /\ \A s \in Loops : loop[s].at \in Dead => r <= s
         /\ recvTask' = r
         /\ loop' = [loop EXCEPT ![r].at = "start"]
         /\ ready' = Append(q, r)

------------------------------------------------------------------------------
\* Callers: set_params() and command()

CanCall(c) ==
  /\ ~MidTurn
  /\ call[c].at = "idle" /\ call[c].n < MaxCalls
  /\ owner \in {"dialing", "handshake"} => "early_call" \in Events

NextUuid(c) == <<c, call[c].n + 1>>

Refuse(c, why) ==
  /\ call' = [call EXCEPT ![c].n = @ + 1, ![c].id = NoId, ![c].reply = NoReply,
                          ![c].outcome = why]
  /\ UNCHANGED <<ws, recvTask, pending, ready, loop, owner, conn, pushes>>

\* ws.send(): an open connection takes the frame at once, and the coroutine goes
\* on to `next` or is suspended until the transport drains; on a closing one it
\* is suspended until the transport is gone, and then raises ConnectionClosed.
Send(c, id, fut, next, suspended, at) ==
  /\ at = next => Open(ws)
  /\ at = suspended => ~Open(ws) \/ "drain" \in Events
  /\ call' = [call EXCEPT ![c] =
       [n |-> @.n + 1, at |-> at, id |-> id, ws |-> ws, fut |-> fut,
        reply |-> NoReply, interrupt |-> "none", outcome |-> "none"]]
  /\ conn' = IF Open(ws)
             THEN [conn EXCEPT ![ws].sent = @ \cup {[call |-> NextUuid(c), id |-> id]}]
             ELSE conn

SendCorrelated(c, id) ==
  /\ pending' = [pending EXCEPT ![id] = c]
  /\ EnsureRecvTask(ready)
  /\ \E at \in Correlated : Send(c, id, "pending", "waiting", "sending", at)
  /\ UNCHANGED <<ws, owner, pushes>>

SendDirect(c) ==
  /\ \E at \in {"directLoop", "directSending"} :
       /\ Send(c, NoId, "none", "directLoop", "directSending", at)
       /\ ready' = IF at = "directLoop" THEN <<c>> \o ready ELSE ready
  /\ UNCHANGED <<ws, recvTask, pending, loop, owner, pushes>>

SetParams(c) ==
  /\ CanCall(c)
  /\ \/ ws = 0 /\ Refuse(c, "not_connected")
     \/ ws # 0 /\ Cardinality(PendingIds) >= MaxPending /\ Refuse(c, "overload")
     \/ /\ ws # 0 /\ Cardinality(PendingIds) < MaxPending
        /\ \E id \in {NextUuid(c)} \cup UserIds : SendCorrelated(c, id)

Command(c) ==
  /\ "command" \in Events /\ CanCall(c)
  /\ \/ ws = 0 /\ Refuse(c, "not_connected")
     \/ ws # 0 /\ LoopAlive /\ SendCorrelated(c, NextUuid(c))
     \/ ws # 0 /\ ~LoopAlive /\ SendDirect(c)

EndCall(c, how, re, remaining) ==
  /\ call' = [call EXCEPT ![c].at = "idle", ![c].fut = "none", ![c].reply = re,
                          ![c].interrupt = "none", ![c].outcome = how]
  /\ pending' = remaining
  /\ ready' = Rest
  /\ UNCHANGED <<ws, recvTask, loop, owner, pushes>>

\* Mutants of Finish: the entry is popped on success only; _pending is cleared.
FinishPopsOnSuccess(c, how, re) ==
  EndCall(c, how, re,
          IF how = "ok" THEN [pending EXCEPT ![call[c].id] = NoCaller] ELSE pending)
FinishClears(c, how, re) ==
  EndCall(c, how, re, [k \in DOMAIN pending |-> NoCaller])

\* The call returns or raises; `finally` pops its command_id, whoever owns it.
Finish(c, how, re) == EndCall(c, how, re, [pending EXCEPT ![call[c].id] = NoCaller])

FutureDone(c) ==
  \/ call[c].fut = "result" /\ Finish(c, "ok", call[c].reply)
  \/ call[c].fut = "exception" /\ Finish(c, "disconnected", NoReply)

\* ws.send() of _send_correlated returns or raises, and wait_for() begins.
SendDone(c) ==
  /\ Turn(c) /\ call[c].at = "sending"
  /\ UNCHANGED conn
  /\ \/ call[c].interrupt # "none" /\ Finish(c, "cancelled", NoReply)
     \/ /\ call[c].interrupt = "none" /\ ~Open(call[c].ws)
        /\ Finish(c, "closed", NoReply)
     \/ /\ call[c].interrupt = "none" /\ Open(call[c].ws)
        /\ FutureDone(c)
     \/ /\ call[c].interrupt = "none" /\ Open(call[c].ws) /\ call[c].fut = "pending"
        /\ call' = [call EXCEPT ![c].at = "waiting"]
        /\ ready' = Rest
        /\ UNCHANGED <<ws, recvTask, pending, loop, owner, pushes>>

\* wait_for() returns or raises; an interrupt wins over a result.
WaitDone(c) ==
  /\ Turn(c) /\ call[c].at = "waiting"
  /\ UNCHANGED conn
  /\ \/ call[c].interrupt # "none" /\ Finish(c, call[c].interrupt, NoReply)
     \/ call[c].interrupt = "none" /\ FutureDone(c)

\* The timer of wait_for(), or task.cancel(): an unfinished future the task
\* awaits is cancelled on the spot, a finished one is left alone; either way
\* the task is told at its next turn.
Interrupt(c, how) ==
  /\ call' = [call EXCEPT ![c].interrupt = how,
       ![c].fut = IF call[c].at = "waiting" /\ @ = "pending" THEN "cancelled" ELSE @]
  /\ Wake(c)
  /\ UNCHANGED <<ws, recvTask, pending, loop, owner, conn, pushes>>

\* Mutant of Timeout: the direct path reads without wait_for().
TimeoutCorrelatedOnly(c) ==
  /\ "timeout" \in Events /\ call[c].interrupt = "none" /\ call[c].at = "waiting"
  /\ Interrupt(c, "timeout")

Timeout(c) ==
  /\ "timeout" \in Events /\ call[c].interrupt = "none"
  /\ call[c].at \in {"waiting", "directRecv", "directPong"}
  /\ Interrupt(c, "timeout")

Cancel(c) ==
  /\ "cancel" \in Events /\ call[c].interrupt # "cancelled"
  /\ call[c].at \notin {"idle", "directLoop"}
  /\ Interrupt(c, "cancelled")

------------------------------------------------------------------------------
\* Callers: the direct path of command()

\* The pong goes to self._ws, whichever connection the ping came from.
PongSent == AutoPong /\ Open(ws)
\* Mutant of ReadPing: pings are consumed and not answered.
ReadPingSilently(k) == conn' = [conn EXCEPT ![k].inbox = Tail(@)]
ReadPing(k) ==
  LET read == [conn EXCEPT ![k].inbox = Tail(@)]
  IN  conn' = IF PongSent THEN [read EXCEPT ![ws].pinged = FALSE] ELSE read
ReadOther(k) == conn' = [conn EXCEPT ![k].inbox = Tail(@)]

\* _recv_skipping_pings handles the frame recv() returned from connection k.
DirectFrame(c, k) ==
  LET f == Head(conn[k].inbox)
  IN  \/ /\ f.type = "ping" /\ ReadPing(k)
         /\ \/ /\ call' = [call EXCEPT ![c].at = "directLoop"]
               /\ UNCHANGED ready
            \/ /\ PongSent /\ "drain" \in Events
               /\ call' = [call EXCEPT ![c].at = "directPong"]
               /\ ready' = Rest
         /\ UNCHANGED <<ws, recvTask, pending, loop, owner, pushes>>
      \/ f.type = "malformed" /\ ReadOther(k) /\ Finish(c, "protocol", NoReply)
      \/ f.type \notin {"ping", "malformed"} /\ ReadOther(k) /\ Finish(c, "ok", f.re)

\* The command or a pong is drained: the `while True` loop begins or goes on.
DirectResume(c) ==
  /\ Turn(c) /\ call[c].at \in {"directSending", "directPong"}
  /\ UNCHANGED conn
  /\ LET refused == call[c].at = "directSending" /\ ~Open(call[c].ws)
     IN  \/ call[c].interrupt # "none" /\ Finish(c, call[c].interrupt, NoReply)
         \/ call[c].interrupt = "none" /\ refused /\ Finish(c, "closed", NoReply)
         \/ /\ call[c].interrupt = "none" /\ ~refused
            /\ call' = [call EXCEPT ![c].at = "directLoop"]
            /\ UNCHANGED <<ws, recvTask, pending, ready, loop, owner, pushes>>

\* One iteration, up to a frame or to the suspension in recv().
DirectRead(c) ==
  /\ Turn(c) /\ call[c].at = "directLoop"
  /\ \/ ws = 0 /\ Finish(c, "not_connected", NoReply) /\ UNCHANGED conn
     \/ ws # 0 /\ Reading(ws) /\ Finish(c, "concurrency", NoReply) /\ UNCHANGED conn
     \/ ws # 0 /\ ~Reading(ws) /\ conn[ws].inbox # <<>> /\ DirectFrame(c, ws)
     \/ /\ ws # 0 /\ ~Reading(ws) /\ conn[ws].inbox = <<>> /\ ~Open(ws)
        /\ Finish(c, "closed", NoReply) /\ UNCHANGED conn
     \/ /\ Open(ws) /\ ~Reading(ws) /\ conn[ws].inbox = <<>>
        /\ call' = [call EXCEPT ![c].at = "directRecv", ![c].ws = ws]
        /\ ready' = Rest
        /\ UNCHANGED <<ws, recvTask, pending, loop, owner, conn, pushes>>

\* recv() returns, or raises ConnectionClosed, after a suspension.
DirectWoken(c) ==
  /\ Turn(c) /\ call[c].at = "directRecv"
  /\ LET k == call[c].ws
     IN  \/ /\ call[c].interrupt # "none" /\ UNCHANGED conn
            /\ Finish(c, call[c].interrupt, NoReply)
         \/ call[c].interrupt = "none" /\ conn[k].inbox # <<>> /\ DirectFrame(c, k)
         \/ /\ call[c].interrupt = "none" /\ conn[k].inbox = <<>> /\ UNCHANGED conn
            /\ Finish(c, "closed", NoReply)

------------------------------------------------------------------------------
\* _recv_loop

LoopEnds(r, how) == loop' = [loop EXCEPT ![r].at = how] /\ ready' = Rest

\* Mutant of LoopAgain: without sleep(0) the loop keeps its turn.
LoopAgainAtOnce(r, q) ==
  IF ws = 0 THEN loop' = [loop EXCEPT ![r].at = "returned"] /\ ready' = q
  ELSE loop' = [loop EXCEPT ![r].at = "slept"] /\ ready' = <<r>> \o q

\* Back to `while self._ws: await asyncio.sleep(0)`; q is the queue before.
LoopAgain(r, q) ==
  IF ws = 0 THEN loop' = [loop EXCEPT ![r].at = "returned"] /\ ready' = q
  ELSE loop' = [loop EXCEPT ![r].at = "slept"] /\ ready' = Append(q, r)

\* Mutant of ResolveFuture: a response resolves any pending future.
ResolveAny(r, f) ==
  \E c \in {pending[k] : k \in PendingIds} :
    /\ call[c].fut = "pending"
    /\ call' = [call EXCEPT ![c].fut = "result", ![c].reply = f.re]
    /\ LoopAgain(r, IF call[c].at = "waiting" THEN Append(Rest, c) ELSE Rest)

\* set_result() on the future registered under the frame's id: InvalidStateError
\* if that future is finished.
ResolveFuture(r, f) ==
  LET c == pending[f.id]
  IN  IF call[c].fut = "pending"
      THEN /\ call' = [call EXCEPT ![c].fut = "result", ![c].reply = f.re]
           /\ LoopAgain(r, IF call[c].at = "waiting" THEN Append(Rest, c) ELSE Rest)
      ELSE LoopEnds(r, "crashed") /\ UNCHANGED call

\* The loop handles the frame recv() returned from connection k.
LoopFrame(r, k) ==
  LET f == Head(conn[k].inbox)
      known == f.type = "command_response" /\ f.id \in PendingIds
  IN  /\ \/ /\ f.type \in {"malformed", "connection_established", "command_response"}
            /\ ~known
            /\ ReadOther(k) /\ LoopAgain(r, Rest) /\ UNCHANGED call
         \/ known /\ ReadOther(k) /\ ResolveFuture(r, f)
         \/ /\ f.type = "not_object"               \* AttributeError on msg.get
            /\ ReadOther(k) /\ LoopEnds(r, "crashed") /\ UNCHANGED call
         \/ /\ f.type = "ping" /\ ReadPing(k) /\ UNCHANGED call
            /\ \/ LoopAgain(r, Rest)
               \/ PongSent /\ "drain" \in Events /\ LoopEnds(r, "pong")
      /\ UNCHANGED <<ws, recvTask, pending, owner, pushes>>

\* Mutant of LoopDisconnected: the loop just returns.
LoopJustReturns(r) ==
  /\ LoopEnds(r, "closed")
  /\ UNCHANGED <<ws, recvTask, pending, call, owner, conn, pushes>>

\* ConnectionClosed: every unfinished future in self._pending fails.
LoopDisconnected(r) ==
  LET failed == {c \in Callers : call[c].fut = "pending"
                                 /\ \E k \in Ids : pending[k] = c}
  IN  /\ call' = [c \in Callers |-> IF c \in failed
                    THEN [call[c] EXCEPT !.fut = "exception"] ELSE call[c]]
      /\ loop' = [loop EXCEPT ![r].at = "closed"]
      /\ \E q \in SetToSeqs({c \in failed : call[c].at = "waiting"}) : ready' = Rest \o q
      /\ UNCHANGED <<ws, recvTask, pending, owner, conn, pushes>>

\* The first `while` test, or the one after a pong is drained.
LoopResume(r) ==
  /\ Turn(r) /\ ~loop[r].cancelled /\ loop[r].at \in {"start", "pong"}
  /\ LoopAgain(r, Rest)
  /\ UNCHANGED <<ws, recvTask, pending, call, owner, conn, pushes>>

\* After sleep(0): self._ws.recv().
LoopRecv(r) ==
  /\ Turn(r) /\ ~loop[r].cancelled /\ loop[r].at = "slept"
  /\ \/ /\ ws = 0 \/ Reading(ws)              \* AttributeError, ConcurrencyError
        /\ LoopEnds(r, "crashed")
        /\ UNCHANGED <<ws, recvTask, pending, call, owner, conn, pushes>>
     \/ ws # 0 /\ ~Reading(ws) /\ conn[ws].inbox # <<>> /\ LoopFrame(r, ws)
     \/ /\ ws # 0 /\ ~Reading(ws) /\ conn[ws].inbox = <<>> /\ ~Open(ws)
        /\ LoopDisconnected(r)
     \/ /\ Open(ws) /\ ~Reading(ws) /\ conn[ws].inbox = <<>>
        /\ loop' = [loop EXCEPT ![r].at = "recv", ![r].ws = ws]
        /\ ready' = Rest
        /\ UNCHANGED <<ws, recvTask, pending, call, owner, conn, pushes>>

\* Mutant of LoopWoken: frames received before the connection closed are dropped.
LoopWokenDrops(r) ==
  /\ Turn(r) /\ ~loop[r].cancelled /\ loop[r].at = "recv"
  /\ \/ Open(loop[r].ws) /\ LoopFrame(r, loop[r].ws)
     \/ ~Open(loop[r].ws) /\ LoopDisconnected(r)

\* recv() returns, or raises ConnectionClosed, after a suspension.
LoopWoken(r) ==
  /\ Turn(r) /\ ~loop[r].cancelled /\ loop[r].at = "recv"
  /\ \/ conn[loop[r].ws].inbox # <<>> /\ LoopFrame(r, loop[r].ws)
     \/ conn[loop[r].ws].inbox = <<>> /\ LoopDisconnected(r)

\* Mutant of LoopCancelled: the loop swallows CancelledError.
LoopSwallowsCancel(r) ==
  /\ Turn(r) /\ loop[r].cancelled
  /\ loop' = [loop EXCEPT ![r].at = "slept", ![r].cancelled = FALSE]
  /\ ready' = Append(Rest, r)
  /\ UNCHANGED <<ws, recvTask, pending, call, owner, conn, pushes>>

\* CancelledError, at any suspension, ends the task and wakes disconnect().
LoopCancelled(r) ==
  /\ Turn(r) /\ loop[r].cancelled
  /\ loop' = [loop EXCEPT ![r].at = "cancelled", ![r].cancelled = FALSE]
  /\ ready' = Append(Rest, Owner)
  /\ UNCHANGED <<ws, recvTask, pending, call, owner, conn, pushes>>

------------------------------------------------------------------------------
\* The owner: connect() and disconnect()

Connect ==
  /\ owner = "idle" /\ \E k \in Conns : conn[k].state = "unused"
  /\ ws # 0 => "reconnect" \in Events
  /\ owner' = "dialing"
  /\ UNCHANGED <<ws, recvTask, pending, ready, loop, call, conn, pushes>>

ConnectFails ==
  /\ owner = "dialing" /\ "bad_handshake" \in Events
  /\ owner' = "idle"
  /\ UNCHANGED <<ws, recvTask, pending, ready, loop, call, conn, pushes>>

\* websockets.connect() returns: self._ws is set, then recv() waits.
Connected ==
  /\ ~MidTurn /\ owner = "dialing"
  /\ \E k \in Conns :
       /\ conn[k].state = "unused" /\ \A j \in 1..(k - 1) : conn[j].state # "unused"
       /\ ws' = k
       /\ conn' = [conn EXCEPT ![k].state = "open"]
  /\ owner' = "handshake"
  /\ UNCHANGED <<recvTask, pending, ready, loop, call, pushes>>

\* Mutant of Handshake: the recv loop is not started before the first set_params().
HandshakeLazy ==
  /\ Turn(Owner) /\ owner = "handshake"
  /\ owner' = "idle"
  /\ IF conn[ws].inbox = <<>> THEN UNCHANGED conn ELSE ReadOther(ws)
  /\ ready' = Rest
  /\ UNCHANGED <<ws, recvTask, pending, loop, call, pushes>>

\* connect() judges the first frame; whatever it is, self._ws stays set.
Handshake ==
  /\ Turn(Owner) /\ owner = "handshake"
  /\ owner' = "idle"
  /\ IF conn[ws].inbox = <<>> THEN UNCHANGED conn ELSE ReadOther(ws)
  /\ IF conn[ws].inbox # <<>> /\ Head(conn[ws].inbox).type = "connection_established"
     THEN EnsureRecvTask(Rest)
     ELSE ready' = Rest /\ UNCHANGED <<recvTask, loop>>
  /\ UNCHANGED <<ws, pending, call, pushes>>

\* `if self._ws: await self._ws.close()`
CloseSocket ==
  IF ws = 0 THEN owner' = "idle" /\ UNCHANGED conn
  ELSE owner' = "closing" /\ conn' = [conn EXCEPT ![ws].state = "closed"]

\* Mutant of Disconnect: self._recv_task is cancelled without testing it.
DisconnectUntested ==
  /\ ~MidTurn /\ owner = "idle" /\ "disconnect" \in Events
  /\ loop' = [loop EXCEPT ![recvTask].cancelled = TRUE]
  /\ Wake(recvTask)
  /\ owner' = "joining"
  /\ UNCHANGED <<ws, recvTask, pending, call, conn, pushes>>

Disconnect ==
  /\ ~MidTurn /\ owner = "idle" /\ "disconnect" \in Events
  /\ \/ /\ LoopAlive
        /\ loop' = [loop EXCEPT ![recvTask].cancelled = TRUE]
        /\ Wake(recvTask)
        /\ owner' = "joining" /\ UNCHANGED conn
     \/ ~LoopAlive /\ ws # 0 /\ CloseSocket /\ UNCHANGED <<ready, loop>>
  /\ UNCHANGED <<ws, recvTask, pending, call, pushes>>

\* The cancelled recv task is over; self._recv_task = None whatever it names by now.
Joined ==
  /\ Turn(Owner) /\ owner = "joining"
  /\ recvTask' = 0
  /\ CloseSocket
  /\ ready' = Rest
  /\ UNCHANGED <<ws, pending, loop, call, pushes>>

Closed ==
  /\ Turn(Owner) /\ owner = "closing"
  /\ ws' = 0
  /\ owner' = "idle"
  /\ ready' = Rest
  /\ UNCHANGED <<recvTask, pending, loop, call, conn, pushes>>

------------------------------------------------------------------------------
\* External: the websockets library and the server

CanRead(k)     == conn[k].inbox # <<>> \/ ~Open(k)
BlockedOnIo(t) ==
  \/ t \in Loops /\ loop[t].at = "recv" /\ CanRead(loop[t].ws)
  \/ t \in Loops /\ loop[t].at = "pong"
  \/ t \in Callers /\ call[t].at \in {"sending", "directSending", "directPong"}
  \/ t \in Callers /\ call[t].at = "directRecv" /\ CanRead(call[t].ws)
  \/ t = Owner /\ owner = "handshake" /\ CanRead(ws)
  \/ t = Owner /\ owner = "closing"

\* A suspended task whose I/O can go on is made ready.
IoReady(t) ==
  /\ ~Queued(t) /\ BlockedOnIo(t)
  /\ ready' = Append(ready, t)
  /\ UNCHANGED <<ws, recvTask, pending, loop, call, owner, conn, pushes>>

Plain(type) == [type |-> type, id |-> NoId, re |-> NoReply]

Greet(k) ==
  /\ Open(k) /\ ~conn[k].greeted
  /\ conn' = [conn EXCEPT ![k].greeted = TRUE,
                          ![k].inbox = Append(@, Plain("connection_established"))]
  /\ UNCHANGED <<ws, recvTask, pending, ready, loop, call, owner, pushes>>

Push(k, type) ==
  /\ Open(k) /\ pushes < MaxPushes
  /\ conn[k].greeted \/ "bad_handshake" \in Events
  /\ type # "ping" => type \in Events
  /\ conn' = [conn EXCEPT ![k].greeted = TRUE,
                          ![k].inbox = Append(@, Plain(type)),
                          ![k].pinged = @ \/ type = "ping"]
  /\ pushes' = pushes + 1
  /\ UNCHANGED <<ws, recvTask, pending, ready, loop, call, owner>>

Respond(k, q) ==
  /\ Open(k) /\ conn[k].greeted
  /\ conn' = [conn EXCEPT ![k].answered = @ \cup {q},
       ![k].inbox = Append(@, [type |-> "command_response", id |-> q.id, re |-> q.call])]
  /\ \/ q \notin conn[k].answered /\ UNCHANGED pushes
     \/ /\ q \in conn[k].answered /\ "duplicate" \in Events /\ pushes < MaxPushes
        /\ pushes' = pushes + 1
  /\ UNCHANGED <<ws, recvTask, pending, ready, loop, call, owner>>

ServerCloses(k) ==
  /\ "close" \in Events /\ Open(k)
  /\ conn' = [conn EXCEPT ![k].state = "closed"]
  /\ UNCHANGED <<ws, recvTask, pending, ready, loop, call, owner, pushes>>

------------------------------------------------------------------------------
Init ==
  /\ ws = 0 /\ recvTask = 0 /\ owner = "idle" /\ ready = <<>> /\ pushes = 0
  /\ pending = [k \in Ids \cup {NoId} |-> NoCaller]
  /\ loop = [r \in Loops |-> [at |-> "absent", ws |-> 1, cancelled |-> FALSE]]
  /\ call = [c \in Callers |->
       [n |-> 0, at |-> "idle", id |-> NoId, ws |-> 1, fut |-> "none",
        reply |-> NoReply, interrupt |-> "none", outcome |-> "none"]]
  /\ conn = [k \in Conns |->
       [state |-> "unused", greeted |-> FALSE, pinged |-> FALSE, inbox |-> <<>>,
        sent |-> {}, answered |-> {}]]

\* The event loop runs the first task of its queue.
RunNext ==
  \/ \E c \in Callers :
       SendDone(c) \/ WaitDone(c) \/ DirectResume(c) \/ DirectRead(c) \/ DirectWoken(c)
  \/ \E r \in Loops : LoopResume(r) \/ LoopRecv(r) \/ LoopWoken(r) \/ LoopCancelled(r)
  \/ Handshake \/ Joined \/ Closed

Next ==
  \/ RunNext
  \/ \E c \in Callers : SetParams(c) \/ Command(c) \/ Timeout(c) \/ Cancel(c)
  \/ Connect \/ ConnectFails \/ Connected \/ Disconnect
  \/ \E t \in Tasks : IoReady(t)
  \/ \E k \in Conns :
       \/ Greet(k) \/ ServerCloses(k)
       \/ \E type \in {"ping", "malformed", "not_object"} : Push(k, type)
       \/ \E q \in conn[k].sent : Respond(k, q)

Spec == Init /\ [][Next]_vars

\* The event loop runs its queue, timers fire, and suspended I/O ends: drained, or
\* cut off by websockets' own keepalive; close() ends by its close timeout.
FairSpec ==
  /\ Spec
  /\ WF_vars(RunNext)
  /\ \A t \in Tasks : WF_vars(IoReady(t))
  /\ \A c \in Callers : WF_vars(Timeout(c))

------------------------------------------------------------------------------
\* Properties

\* Every entry of _pending belongs to a call still in flight under that
\* command_id: the `finally` of _send_correlated leaves nothing behind,
\* whichever way the call ends.
PendingSound ==
  \A k \in PendingIds :
    LET c == pending[k] IN call[c].at \in Correlated /\ call[c].id = k

\* A correlated call that did not choose its own command_id stays registered
\* until it ends, whatever its peers do with theirs.
PendingComplete ==
  \A c \in Callers :
    call[c].at \in Correlated /\ call[c].id \in Uuids => pending[call[c].id] = c

\* A call correlated under a uuid gets the response to that call or none:
\* late, repeated or reordered responses never reach another call.
OwnReply ==
  \A c \in Callers :
    call[c].id \in Uuids /\ call[c].reply # NoReply => call[c].reply = call[c].id

\* No frame, however often repeated, and no two readers kill the recv loop, as
\* long as no caller is interrupted, no sender is suspended and every command_id
\* is a uuid: sleep(0) lets a resolved caller leave _pending before the loop reads
\* again.  (An id that is used again can resolve a call that is still sending.)
LoopSurvives == \A r \in Loops : loop[r].at # "crashed"

\* A caller waiting on an unfinished future has a recv loop that will resolve
\* or fail it: a disconnect seen by the loop leaves no caller behind.  (Of two
\* callers with one id between them, it may leave one.)
WaiterHasReader ==
  \A c \in Callers : call[c].at = "waiting" /\ call[c].fut = "pending" => LoopAlive

\* After connect(), command() goes through the correlation path while the
\* connection is open.
CorrelatedWhileOpen ==
  \A c \in Callers : call[c].at \in Direct => ~Open(call[c].ws)

\* To its callers the object is CommandCalls: each call reaches the server at
\* most once and, if it is correlated, returns the server's answer to itself or
\* nothing.  What command() returns on the direct path is not promised.
Promise == INSTANCE CommandCalls WITH
  inCall   <- {c \in Callers : call[c].at # "idle"},
  n        <- [c \in Callers |-> call[c].n],
  accepted <- {q.call : q \in UNION {conn[k].sent : k \in Conns}},
  answered <- {q.call : q \in UNION {conn[k].answered : k \in Conns}},
  result   <- [c \in Callers |->
                 IF call[c].at = "idle" /\ call[c].id \in Uuids
                 THEN call[c].reply ELSE NoReply]
ImplementsCommandCalls == Promise!Spec

\* Every call returns or raises, whatever the network and the peers do.
CallsReturn == \A c \in Callers : call[c].at # "idle" ~> call[c].at = "idle"

\* disconnect() returns, and joins the recv task it cancelled.
DisconnectReturns == owner \in {"joining", "closing"} ~> owner = "idle"

\* The heartbeat of the connection in use is answered while it is open.
PingsAnswered ==
  \A k \in Conns : conn[k].pinged /\ ws = k ~> ~conn[k].pinged \/ ~Open(k) \/ ws # k

\* A response that arrived is returned to its caller, even if the connection
\* closes behind it.
ReceivedIsReturned ==
  \A c \in Callers :
    call[c].at = "waiting" /\ call[c].id \in {f.id : f \in Range(conn[call[c].ws].inbox)}
      ~> call[c].outcome = "ok"
==============================================================================
