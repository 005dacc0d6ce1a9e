------------------------- MODULE ControlStreamProofs -------------------------
(***************************************************************************)
(* CascorControlStream, for any number of callers, connections, calls and  *)
(* frames.                                                                 *)
(*                                                                         *)
(* 1. Type correctness.                                                    *)
(*                                                                         *)
(* 2. The safety of the correlation of responses with calls.  Every action *)
(*    has one of a few effects, as far as ids and replies are concerned;   *)
(*    the invariant is shown to survive each effect, and each effect to be *)
(*    allowed by CommandCalls.                                             *)
(*                                                                         *)
(* 3. What keeps the recv loop alive: as long as nobody is interrupted, no *)
(*    send is suspended on an open connection, frames are JSON objects,    *)
(*    the owner stays connected and every command_id is a uuid, the loop   *)
(*    ends with the connection only.  The heart of the argument is the     *)
(*    order of the event loop's queue: a caller whose future the loop has  *)
(*    resolved is ahead of the loop, which is at its sleep(0), and has     *)
(*    popped its command_id before the loop reads another frame.           *)
(***************************************************************************)
EXTENDS ControlStream, SequenceTheorems, FiniteSetTheorems, TLAPS

------------------------------------------------------------------------------
\* Type correctness: the sub-actions

\* A queue is extended or shortened by its own kind of elements.
LEMMA QueueType ==
  ASSUME NEW q \in Seq(Tasks)
  PROVE  /\ \A t \in Tasks : Append(q, t) \in Seq(Tasks) /\ <<t>> \o q \in Seq(Tasks)
         /\ q # <<>> => Head(q) \in Tasks /\ Tail(q) \in Seq(Tasks)
  OBVIOUS

LEMMA FunctionIsSeq ==
  ASSUME NEW S, NEW m \in Nat, NEW q \in [1..m -> S]
  PROVE  q \in Seq(S)
  BY SeqDef

\* One caller's record changes.
LEMMA CallUpdate ==
  ASSUME TypeOK, NEW c \in Callers, NEW rec \in CallRecord,
         call' = [call EXCEPT ![c] = rec]
  PROVE  call' \in [Callers -> CallRecord]
  BY DEF TypeOK

\* A recv task is started, or is there already.
LEMMA EnsureType ==
  ASSUME TypeOK, NEW q \in Seq(Tasks), EnsureRecvTask(q)
  PROVE  /\ ready' \in Seq(Tasks) /\ recvTask' \in Loops \cup {0}
         /\ loop' \in [Loops -> LoopRecord]
<1>1. CASE LoopAlive
  BY <1>1 DEF TypeOK, EnsureRecvTask
<1>2. CASE ~LoopAlive
  <2>1. PICK r \in Loops : /\ recvTask' = r
                           /\ loop' = [loop EXCEPT ![r].at = "start"]
                           /\ ready' = Append(q, r)
    BY <1>2 DEF EnsureRecvTask
  <2>2. loop' \in [Loops -> LoopRecord]
    BY <2>1 DEF TypeOK, LoopRecord
  <2>3. QED
    BY <2>1, <2>2, QueueType DEF Tasks
<1>3. QED
  BY <1>1, <1>2

\* The recv loop goes back to its `while`, or is over.
LEMMA LoopAgainType ==
  ASSUME TypeOK, NEW r \in Loops, NEW q \in Seq(Tasks), LoopAgain(r, q)
  PROVE  ready' \in Seq(Tasks) /\ loop' \in [Loops -> LoopRecord]
<1>1. r \in Tasks
  BY DEF Tasks
<1>2. loop' \in [Loops -> LoopRecord]
  <2>1. PICK how \in {"returned", "slept"} : loop' = [loop EXCEPT ![r].at = how]
    BY DEF LoopAgain
  <2>2. QED
    BY <2>1 DEF TypeOK, LoopRecord, Dead
<1>3. ready' \in Seq(Tasks)
  BY <1>1, QueueType DEF LoopAgain
<1>4. QED
  BY <1>2, <1>3

LEMMA LoopEndsType ==
  ASSUME TypeOK, NEW r \in Loops, ready # <<>>,
         NEW how \in Dead \cup {"pong"}, LoopEnds(r, how)
  PROVE  ready' \in Seq(Tasks) /\ loop' \in [Loops -> LoopRecord]
<1>1. loop' \in [Loops -> LoopRecord]
  BY SMTT(30) DEF TypeOK, LoopEnds, LoopRecord, Dead
<1>2. ready' \in Seq(Tasks)
  BY QueueType DEF TypeOK, LoopEnds, Rest
<1>3. QED
  BY <1>1, <1>2

\* A frame is taken off an inbox, and a ping may be answered.
LEMMA ReadOtherType ==
  ASSUME TypeOK, NEW k \in Conns, conn[k].inbox # <<>>, ReadOther(k)
  PROVE  conn' \in [Conns -> ConnRecord]
<1>1. Tail(conn[k].inbox) \in Seq(Frame)
  BY DEF TypeOK, ConnRecord
<1>2. QED
  BY ZenonT(30), <1>1 DEF TypeOK, ReadOther, ConnRecord

LEMMA ReadPingType ==
  ASSUME TypeOK, NEW k \in Conns, conn[k].inbox # <<>>, ReadPing(k)
  PROVE  conn' \in [Conns -> ConnRecord]
<1> DEFINE read == [conn EXCEPT ![k].inbox = Tail(@)]
<1>1. Tail(conn[k].inbox) \in Seq(Frame)
  BY DEF TypeOK, ConnRecord
<1>2. read \in [Conns -> ConnRecord]
  BY ZenonT(30), <1>1 DEF TypeOK, ConnRecord
<1>3. [read EXCEPT ![ws].pinged = FALSE] \in [Conns -> ConnRecord]
  <2> HIDE DEF read
  <2> QED BY <1>2 DEF ConnRecord
<1>4. conn' = read \/ conn' = [read EXCEPT ![ws].pinged = FALSE]
  BY DEF ReadPing
<1>5. QED
  BY <1>2, <1>3, <1>4

LEMMA HeadType ==
  ASSUME TypeOK, NEW k \in Conns, conn[k].inbox # <<>>
  PROVE  Head(conn[k].inbox) \in Frame
  BY DEF TypeOK, ConnRecord

\* Finish leaves every variable in its type.
LEMMA FinishType ==
  ASSUME TypeOK, NEW c \in Callers, ready # <<>>,
         NEW how \in {"ok", "timeout", "cancelled", "disconnected", "closed",
                      "not_connected", "protocol", "concurrency"},
         NEW re \in Uuids \cup {NoReply},
         conn' \in [Conns -> ConnRecord],
         Finish(c, how, re)
  PROVE  TypeOK'
<1> DEFINE rec == [call[c] EXCEPT !.at = "idle", !.fut = "none", !.reply = re,
                                  !.interrupt = "none", !.outcome = how]
<1>1. call' = [call EXCEPT ![c] = rec]
  BY DEF Finish, EndCall
<1>2. rec \in CallRecord
  <2>1. call[c] \in CallRecord
    BY DEF TypeOK
  <2>2. QED
    BY <2>1 DEF CallRecord
<1>3. call' \in [Callers -> CallRecord]
  BY <1>1, <1>2, CallUpdate
<1>4. pending' \in [Ids \cup {NoId} -> Callers \cup {NoCaller}]
  BY DEF TypeOK, Finish, EndCall
<1>5. ready' \in Seq(Tasks)
  BY QueueType DEF TypeOK, Finish, EndCall, Rest
<1>6. QED
  BY <1>3, <1>4, <1>5 DEF TypeOK, Finish, EndCall

\* A request is sent, or its sender is suspended.
LEMMA SendType ==
  ASSUME TypeOK, NEW c \in Callers, CanCall(c), ws # 0, NEW id \in Ids \cup {NoId},
         NEW fut \in {"none", "pending"}, NEW next, NEW suspended,
         NEW at \in Correlated \cup Direct,
         Send(c, id, fut, next, suspended, at)
  PROVE  call' \in [Callers -> CallRecord] /\ conn' \in [Conns -> ConnRecord]
<1> DEFINE rec == [n |-> call[c].n + 1, at |-> at, id |-> id, ws |-> ws, fut |-> fut,
                   reply |-> NoReply, interrupt |-> "none", outcome |-> "none"]
           q == [call |-> NextUuid(c), id |-> id]
<1>1. call[c].n + 1 \in 1..MaxCalls
  BY ControlStreamAssumption DEF TypeOK, CallRecord, CanCall
<1>2. ws \in Conns
  BY DEF TypeOK
<1>3. rec \in CallRecord
  BY <1>1, <1>2, ControlStreamAssumption DEF CallRecord
<1>4. call' = [call EXCEPT ![c] = rec]
  BY DEF Send
<1>5. q \in Request
  BY <1>1 DEF Request, NextUuid, Uuids
<1>6. conn' \in [Conns -> ConnRecord]
  <2>1. CASE Open(ws)
    <3>1. conn' = [conn EXCEPT ![ws].sent = @ \cup {q}]
      BY <2>1 DEF Send
    <3>2. QED
      BY ZenonT(60), <3>1, <1>2, <1>5 DEF TypeOK, ConnRecord
  <2>2. CASE ~Open(ws)
    BY <2>2 DEF Send, TypeOK
  <2>3. QED
    BY <2>1, <2>2
<1>7. QED
  BY <1>3, <1>4, <1>6, CallUpdate

\* Finish with the result or exception of the caller's future.
LEMMA FutureDoneType ==
  ASSUME TypeOK, NEW c \in Callers, ready # <<>>, UNCHANGED conn, FutureDone(c)
  PROVE  TypeOK'
<1>1. call[c].reply \in Uuids \cup {NoReply} /\ NoReply \in Uuids \cup {NoReply}
  BY DEF TypeOK, CallRecord
<1>2. conn' \in [Conns -> ConnRecord]
  BY DEF TypeOK
<1>3. CASE Finish(c, "ok", call[c].reply)
  BY <1>1, <1>2, <1>3, FinishType
<1>4. CASE Finish(c, "disconnected", NoReply)
  BY <1>1, <1>2, <1>4, FinishType
<1>5. QED
  BY <1>3, <1>4 DEF FutureDone

\* A frame read on the direct path.
LEMMA DirectFrameType ==
  ASSUME TypeOK, NEW c \in Callers, ready # <<>>, NEW k \in Conns,
         conn[k].inbox # <<>>, DirectFrame(c, k)
  PROVE  TypeOK'
<1> DEFINE f == Head(conn[k].inbox)
<1>1. f \in Frame
  BY HeadType
<1>2. CASE f.type = "ping" /\ ReadPing(k)
             /\ UNCHANGED <<ws, recvTask, pending, loop, owner, pushes>>
             /\ \E at \in {"directLoop", "directPong"} :
                  call' = [call EXCEPT ![c].at = at]
             /\ ready' \in {ready, Rest}
  <2>1. PICK at \in {"directLoop", "directPong"} : call' = [call EXCEPT ![c].at = at]
    BY <1>2
  <2>2. call' \in [Callers -> CallRecord]
    <3>1. call[c] \in CallRecord
      BY DEF TypeOK
    <3>2. [call[c] EXCEPT !.at = at] \in CallRecord
      BY <3>1 DEF CallRecord, Direct
    <3>3. call' = [call EXCEPT ![c] = [call[c] EXCEPT !.at = at]]
      BY <2>1
    <3>4. QED
      BY <3>2, <3>3, CallUpdate
  <2>3. ready' \in Seq(Tasks)
    BY <1>2, QueueType DEF TypeOK, Rest
  <2>4. conn' \in [Conns -> ConnRecord]
    BY <1>2, ReadPingType
  <2>5. QED
    BY <1>2, <2>2, <2>3, <2>4 DEF TypeOK
<1>3. CASE ReadOther(k) /\ Finish(c, "protocol", NoReply)
  BY <1>3, FinishType, ReadOtherType
<1>4. CASE ReadOther(k) /\ Finish(c, "ok", f.re)
  <2>1. f.re \in Uuids \cup {NoReply}
    BY <1>1 DEF Frame
  <2>2. QED
    BY <1>4, <2>1, FinishType, ReadOtherType
<1>5. QED
  BY <1>2, <1>3, <1>4 DEF DirectFrame

\* ConnectionClosed seen by the recv loop.
LEMMA LoopDisconnectedType ==
  ASSUME TypeOK, NEW r \in Loops, ready # <<>>, LoopDisconnected(r)
  PROVE  TypeOK'
<1> DEFINE failed == {c \in Callers : call[c].fut = "pending"
                                       /\ \E k \in Ids : pending[k] = c}
           W == {c \in failed : call[c].at = "waiting"}
<1>1. call' \in [Callers -> CallRecord]
  <2>1. \A c \in Callers : call[c] \in CallRecord
                            /\ [call[c] EXCEPT !.fut = "exception"] \in CallRecord
    BY ZenonT(60) DEF TypeOK, CallRecord
  <2>2. call' = [c \in Callers |-> IF c \in failed
                   THEN [call[c] EXCEPT !.fut = "exception"] ELSE call[c]]
    BY DEF LoopDisconnected
  <2>3. QED
    BY <2>1, <2>2
<1>2. ready' \in Seq(Tasks)
  <2>1. PICK q \in SetToSeqs(W) : ready' = Rest \o q
    BY DEF LoopDisconnected
  <2>2. W \subseteq Tasks /\ IsFiniteSet(W)
    <3>1. W \subseteq Callers
      OBVIOUS
    <3>2. QED
      BY <3>1, ControlStreamAssumption, FS_Subset DEF Tasks
  <2>3. q \in [1..Cardinality(W) -> W] /\ Cardinality(W) \in Nat
    BY <2>2, FS_CardinalityType DEF SetToSeqs
  <2>4. q \in Seq(Tasks)
    <3>1. q \in [1..Cardinality(W) -> Tasks]
      BY <2>2, <2>3
    <3>2. QED
      BY <3>1, <2>3, FunctionIsSeq
  <2>5. Rest \in Seq(Tasks)
    BY QueueType DEF TypeOK, Rest
  <2>6. QED
    BY <2>1, <2>4, <2>5
<1>3. loop' \in [Loops -> LoopRecord]
  BY ZenonT(30) DEF TypeOK, LoopDisconnected, LoopRecord, Dead
<1>4. QED
  BY <1>1, <1>2, <1>3 DEF TypeOK, LoopDisconnected

\* A frame read by the recv loop.
LEMMA LoopFrameType ==
  ASSUME TypeOK, NEW r \in Loops, ready # <<>>, NEW k \in Conns,
         conn[k].inbox # <<>>, LoopFrame(r, k)
  PROVE  TypeOK'
<1> DEFINE f == Head(conn[k].inbox)
<1>1. f \in Frame
  BY HeadType
<1>2. Rest \in Seq(Tasks) /\ \A c \in Callers : Append(Rest, c) \in Seq(Tasks)
  BY QueueType DEF TypeOK, Rest, Tasks
<1>3. conn' \in [Conns -> ConnRecord]
  BY ReadOtherType, ReadPingType DEF LoopFrame
<1>4. /\ call' \in [Callers -> CallRecord]
      /\ ready' \in Seq(Tasks) /\ loop' \in [Loops -> LoopRecord]
  <2>1. CASE LoopAgain(r, Rest) /\ UNCHANGED call
    BY <2>1, <1>2, LoopAgainType DEF TypeOK
  <2>2. CASE (LoopEnds(r, "crashed") \/ LoopEnds(r, "pong")) /\ UNCHANGED call
    BY <2>2, LoopEndsType DEF TypeOK, Dead
  <2>3. CASE f.id \in PendingIds /\ ResolveFuture(r, f)
    <3> DEFINE c == pending[f.id]
               rec == [call[c] EXCEPT !.fut = "result", !.reply = f.re]
    <3>1. c \in Callers
      BY <2>3 DEF PendingIds, TypeOK
    <3>2. CASE call[c].fut # "pending"
      BY <2>3, <3>2, LoopEndsType DEF ResolveFuture, TypeOK, Dead
    <3>3. CASE call[c].fut = "pending"
      <4>1. call' = [call EXCEPT ![c] = rec]
        BY <2>3, <3>3 DEF ResolveFuture
      <4>2. call[c] \in CallRecord /\ f.re \in Uuids \cup {NoReply}
        BY <3>1, <1>1 DEF TypeOK, Frame
      <4>3. rec \in CallRecord
        BY <4>2 DEF CallRecord
      <4>4. LoopAgain(r, IF call[c].at = "waiting" THEN Append(Rest, c) ELSE Rest)
        BY <2>3, <3>3 DEF ResolveFuture
      <4>5. QED
        <5> HIDE DEF rec, c
        <5> QED BY <3>1, <4>1, <4>3, <4>4, <1>2, CallUpdate, LoopAgainType
    <3>4. QED
      BY <3>2, <3>3
  <2>4. QED
    BY <2>1, <2>2, <2>3 DEF LoopFrame
<1>5. QED
  BY <1>3, <1>4 DEF LoopFrame, TypeOK

------------------------------------------------------------------------------
\* Type correctness: the actions

LEMMA RegisterType ==
  ASSUME TypeOK, NEW c \in Callers, CanCall(c), ws # 0, NEW id \in Ids,
         SendCorrelated(c, id)
  PROVE  TypeOK'
<1>1. PICK at \in Correlated : Send(c, id, "pending", "waiting", "sending", at)
  BY DEF SendCorrelated
<1>2. call' \in [Callers -> CallRecord] /\ conn' \in [Conns -> ConnRecord]
  BY <1>1, SendType
<1>3. pending' \in [Ids \cup {NoId} -> Callers \cup {NoCaller}]
  BY DEF TypeOK, SendCorrelated
<1>4. /\ ready' \in Seq(Tasks) /\ recvTask' \in Loops \cup {0}
      /\ loop' \in [Loops -> LoopRecord]
  BY EnsureType DEF SendCorrelated, TypeOK
<1>5. QED
  BY <1>2, <1>3, <1>4 DEF TypeOK, SendCorrelated

LEMMA RefuseType ==
  ASSUME TypeOK, NEW c \in Callers, CanCall(c), NEW why \in {"not_connected", "overload"},
         Refuse(c, why)
  PROVE  TypeOK'
<1> DEFINE rec == [call[c] EXCEPT !.n = @ + 1, !.id = NoId, !.reply = NoReply,
                                  !.outcome = why]
<1>1. call[c] \in CallRecord
  BY DEF TypeOK
<1>2. call[c].n + 1 \in 0..MaxCalls
  BY <1>1, ControlStreamAssumption DEF CanCall, CallRecord
<1>3. rec \in CallRecord
  BY <1>1, <1>2 DEF CallRecord
<1>4. call' = [call EXCEPT ![c] = rec]
  BY DEF Refuse
<1>5. QED
  BY <1>3, <1>4, CallUpdate DEF Refuse, TypeOK

LEMMA SetParamsType ==
  ASSUME TypeOK, NEW c \in Callers, SetParams(c)
  PROVE  TypeOK'
<1>1. CanCall(c)
  BY DEF SetParams
<1>2. NextUuid(c) \in Ids
  BY <1>1, ControlStreamAssumption DEF NextUuid, Ids, Uuids, CanCall, TypeOK, CallRecord
<1>3. CASE Refuse(c, "not_connected") \/ Refuse(c, "overload")
  BY <1>1, <1>3, RefuseType
<1>4. CASE ws # 0 /\ \E id \in {NextUuid(c)} \cup UserIds : SendCorrelated(c, id)
  BY <1>1, <1>2, <1>4, RegisterType DEF Ids
<1>5. QED
  BY <1>3, <1>4 DEF SetParams

LEMMA CommandType ==
  ASSUME TypeOK, NEW c \in Callers, Command(c)
  PROVE  TypeOK'
<1>1. CanCall(c)
  BY DEF Command
<1>2. NextUuid(c) \in Ids
  BY <1>1, ControlStreamAssumption DEF NextUuid, Ids, Uuids, CanCall, TypeOK, CallRecord
<1>3. CASE Refuse(c, "not_connected")
  BY <1>1, <1>3, RefuseType
<1>4. CASE ws # 0 /\ SendCorrelated(c, NextUuid(c))
  BY <1>1, <1>2, <1>4, RegisterType
<1>5. CASE ws # 0 /\ SendDirect(c)
  <2>1. PICK at \in {"directLoop", "directSending"} :
          /\ Send(c, NoId, "none", "directLoop", "directSending", at)
          /\ ready' = IF at = "directLoop" THEN <<c>> \o ready ELSE ready
    BY <1>5 DEF SendDirect
  <2>2. at \in Correlated \cup Direct
    BY DEF Direct
  <2>3. call' \in [Callers -> CallRecord] /\ conn' \in [Conns -> ConnRecord]
    BY <1>1, <1>5, <2>1, <2>2, SendType
  <2>4. ready' \in Seq(Tasks)
    BY <2>1, QueueType DEF TypeOK, Tasks
  <2>5. QED
    BY <1>5, <2>3, <2>4 DEF SendDirect, TypeOK
<1>6. QED
  BY <1>3, <1>4, <1>5 DEF Command

\* A caller's turn moves it on without ending the call.
LEMMA CallMoves ==
  ASSUME TypeOK, NEW c \in Callers, ready # <<>>,
         NEW at \in Correlated \cup Direct,
         call' = [call EXCEPT ![c].at = at],
         ready' \in {ready, Rest},
         UNCHANGED <<ws, recvTask, pending, loop, owner, conn, pushes>>
  PROVE  TypeOK'
<1>1. call[c] \in CallRecord
  BY DEF TypeOK
<1>2. [call[c] EXCEPT !.at = at] \in CallRecord
  BY <1>1 DEF CallRecord
<1>3. call' = [call EXCEPT ![c] = [call[c] EXCEPT !.at = at]]
  OBVIOUS
<1>4. ready' \in Seq(Tasks)
  BY QueueType DEF TypeOK, Rest
<1>5. QED
  BY <1>2, <1>3, <1>4, CallUpdate DEF TypeOK

LEMMA SendDoneType ==
  ASSUME TypeOK, NEW c \in Callers, SendDone(c)
  PROVE  TypeOK'
<1>1. ready # <<>> /\ conn' = conn /\ conn' \in [Conns -> ConnRecord]
  BY DEF SendDone, Turn, TypeOK
<1>2. CASE Finish(c, "cancelled", NoReply) \/ Finish(c, "closed", NoReply)
  BY <1>1, <1>2, FinishType
<1>3. CASE FutureDone(c)
  BY <1>1, <1>3, FutureDoneType
<1>4. CASE /\ call' = [call EXCEPT ![c].at = "waiting"] /\ ready' = Rest
           /\ UNCHANGED <<ws, recvTask, pending, loop, owner, pushes>>
  BY <1>1, <1>4, CallMoves DEF Correlated
<1>5. QED
  BY <1>2, <1>3, <1>4 DEF SendDone

LEMMA WaitDoneType ==
  ASSUME TypeOK, NEW c \in Callers, WaitDone(c)
  PROVE  TypeOK'
<1>1. ready # <<>> /\ conn' = conn /\ conn' \in [Conns -> ConnRecord]
  BY DEF WaitDone, Turn, TypeOK
<1>2. call[c].interrupt \in {"none", "timeout", "cancelled"}
  BY DEF TypeOK, CallRecord
<1>3. CASE call[c].interrupt # "none" /\ Finish(c, call[c].interrupt, NoReply)
  BY <1>1, <1>2, <1>3, FinishType
<1>4. CASE FutureDone(c)
  BY <1>1, <1>4, FutureDoneType
<1>5. QED
  BY <1>3, <1>4 DEF WaitDone

LEMMA WakeType ==
  ASSUME TypeOK, NEW t \in Tasks, Wake(t)
  PROVE  ready' \in Seq(Tasks)
  BY QueueType DEF TypeOK, Wake

LEMMA InterruptType ==
  ASSUME TypeOK, NEW c \in Callers, NEW how \in {"timeout", "cancelled"},
         Interrupt(c, how)
  PROVE  TypeOK'
<1>1. call[c] \in CallRecord
  BY DEF TypeOK
<1>2. PICK fut \in {call[c].fut, "cancelled"} :
        call' = [call EXCEPT ![c].interrupt = how, ![c].fut = fut]
  BY DEF Interrupt
<1> DEFINE rec == [call[c] EXCEPT !.interrupt = how, !.fut = fut]
<1>3. rec \in CallRecord
  BY <1>1, <1>2 DEF CallRecord
<1>4. call' = [call EXCEPT ![c] = rec]
  BY <1>2
<1>5. ready' \in Seq(Tasks)
  BY WakeType DEF Interrupt, Tasks
<1>6. QED
  BY <1>3, <1>4, <1>5, CallUpdate DEF Interrupt, TypeOK

LEMMA DirectResumeType ==
  ASSUME TypeOK, NEW c \in Callers, DirectResume(c)
  PROVE  TypeOK'
<1>1. ready # <<>> /\ conn' = conn /\ conn' \in [Conns -> ConnRecord]
  BY DEF DirectResume, Turn, TypeOK
<1>2. call[c].interrupt \in {"none", "timeout", "cancelled"}
  BY DEF TypeOK, CallRecord
<1>3. CASE call[c].interrupt # "none" /\ Finish(c, call[c].interrupt, NoReply)
  BY <1>1, <1>2, <1>3, FinishType
<1>4. CASE Finish(c, "closed", NoReply)
  BY <1>1, <1>4, FinishType
<1>5. CASE /\ call' = [call EXCEPT ![c].at = "directLoop"]
           /\ UNCHANGED <<ws, recvTask, pending, ready, loop, owner, pushes>>
  BY <1>1, <1>5, CallMoves DEF Direct
<1>6. QED
  BY <1>3, <1>4, <1>5 DEF DirectResume

LEMMA DirectReadType ==
  ASSUME TypeOK, NEW c \in Callers, DirectRead(c)
  PROVE  TypeOK'
<1>1. ready # <<>> /\ (UNCHANGED conn => conn' \in [Conns -> ConnRecord])
  BY DEF DirectRead, Turn, TypeOK
<1>2. CASE /\ UNCHANGED conn
           /\ \E how \in {"not_connected", "concurrency", "closed"} :
                Finish(c, how, NoReply)
  BY <1>1, <1>2, FinishType
<1>3. CASE ws # 0 /\ conn[ws].inbox # <<>> /\ DirectFrame(c, ws)
  BY <1>1, <1>3, DirectFrameType DEF TypeOK
<1>4. CASE /\ Open(ws) /\ ready' = Rest
           /\ call' = [call EXCEPT ![c].at = "directRecv", ![c].ws = ws]
           /\ UNCHANGED <<ws, recvTask, pending, loop, owner, conn, pushes>>
  <2> DEFINE rec == [call[c] EXCEPT !.at = "directRecv", !.ws = ws]
  <2>1. call[c] \in CallRecord /\ ws \in Conns
    BY <1>4 DEF TypeOK, Open
  <2>2. rec \in CallRecord
    BY <2>1 DEF CallRecord, Direct
  <2>3. call' = [call EXCEPT ![c] = rec]
    BY <1>4
  <2>4. ready' \in Seq(Tasks)
    BY <1>1, <1>4, QueueType DEF TypeOK, Rest
  <2>5. QED
    BY <1>4, <2>2, <2>3, <2>4, CallUpdate DEF TypeOK
<1>5. QED
  BY <1>2, <1>3, <1>4 DEF DirectRead

LEMMA DirectWokenType ==
  ASSUME TypeOK, NEW c \in Callers, DirectWoken(c)
  PROVE  TypeOK'
<1>1. /\ ready # <<>> /\ (UNCHANGED conn => conn' \in [Conns -> ConnRecord])
      /\ call[c].ws \in Conns
  BY DEF DirectWoken, Turn, TypeOK, CallRecord
<1>2. call[c].interrupt \in {"none", "timeout", "cancelled"}
  BY DEF TypeOK, CallRecord
<1>3. CASE UNCHANGED conn /\ call[c].interrupt # "none"
             /\ Finish(c, call[c].interrupt, NoReply)
  BY <1>1, <1>2, <1>3, FinishType
<1>4. CASE UNCHANGED conn /\ Finish(c, "closed", NoReply)
  BY <1>1, <1>4, FinishType
<1>5. CASE conn[call[c].ws].inbox # <<>> /\ DirectFrame(c, call[c].ws)
  BY <1>1, <1>5, DirectFrameType
<1>6. QED
  BY <1>3, <1>4, <1>5 DEF DirectWoken

LEMMA LoopResumeType ==
  ASSUME TypeOK, NEW r \in Loops, LoopResume(r)
  PROVE  TypeOK'
<1>1. Rest \in Seq(Tasks)
  BY QueueType DEF LoopResume, Turn, TypeOK, Rest
<1>2. ready' \in Seq(Tasks) /\ loop' \in [Loops -> LoopRecord]
  BY <1>1, LoopAgainType DEF LoopResume
<1>3. QED
  BY <1>2 DEF LoopResume, TypeOK

LEMMA LoopRecvType ==
  ASSUME TypeOK, NEW r \in Loops, LoopRecv(r)
  PROVE  TypeOK'
<1>1. ready # <<>>
  BY DEF LoopRecv, Turn
<1>2. CASE /\ LoopEnds(r, "crashed")
           /\ UNCHANGED <<ws, recvTask, pending, call, owner, conn, pushes>>
  <2>1. ready' \in Seq(Tasks) /\ loop' \in [Loops -> LoopRecord]
    BY <1>1, <1>2, LoopEndsType DEF Dead
  <2>2. QED
    BY <1>2, <2>1 DEF TypeOK
<1>3. CASE ws # 0 /\ conn[ws].inbox # <<>> /\ LoopFrame(r, ws)
  BY <1>1, <1>3, LoopFrameType DEF TypeOK
<1>4. CASE LoopDisconnected(r)
  BY <1>1, <1>4, LoopDisconnectedType
<1>5. CASE /\ Open(ws) /\ ready' = Rest
           /\ loop' = [loop EXCEPT ![r].at = "recv", ![r].ws = ws]
           /\ UNCHANGED <<ws, recvTask, pending, call, owner, conn, pushes>>
  <2> DEFINE rec == [loop[r] EXCEPT !.at = "recv", !.ws = ws]
  <2>1. loop[r] \in LoopRecord /\ ws \in Conns
    BY <1>5 DEF TypeOK, Open
  <2>2. rec \in LoopRecord
    BY <2>1 DEF LoopRecord
  <2>3. loop' = [loop EXCEPT ![r] = rec]
    BY <1>5
  <2>4. loop' \in [Loops -> LoopRecord]
    <3> HIDE DEF rec
    <3> QED BY <2>2, <2>3 DEF TypeOK
  <2>5. ready' \in Seq(Tasks)
    BY <1>1, <1>5, QueueType DEF TypeOK, Rest
  <2>6. QED
    BY <1>5, <2>4, <2>5 DEF TypeOK
<1>6. QED
  BY <1>2, <1>3, <1>4, <1>5 DEF LoopRecv

LEMMA LoopWokenType ==
  ASSUME TypeOK, NEW r \in Loops, LoopWoken(r)
  PROVE  TypeOK'
<1>1. ready # <<>> /\ loop[r].ws \in Conns
  BY DEF LoopWoken, Turn, TypeOK, LoopRecord
<1>2. QED
  BY <1>1, LoopFrameType, LoopDisconnectedType DEF LoopWoken

LEMMA LoopCancelledType ==
  ASSUME TypeOK, NEW r \in Loops, LoopCancelled(r)
  PROVE  TypeOK'
<1> DEFINE rec == [loop[r] EXCEPT !.at = "cancelled", !.cancelled = FALSE]
<1>1. loop[r] \in LoopRecord
  BY DEF TypeOK
<1>2. rec \in LoopRecord
  BY <1>1 DEF LoopRecord, Dead
<1>3. loop' = [loop EXCEPT ![r] = rec]
  BY DEF LoopCancelled
<1>4. loop' \in [Loops -> LoopRecord]
  <2> HIDE DEF rec
  <2> QED BY <1>2, <1>3 DEF TypeOK
<1>5. Rest \in Seq(Tasks) /\ Owner \in Tasks
  BY QueueType DEF LoopCancelled, Turn, TypeOK, Rest, Tasks
<1>6. ready' \in Seq(Tasks)
  BY <1>5, QueueType DEF LoopCancelled
<1>7. QED
  BY <1>4, <1>6 DEF LoopCancelled, TypeOK

LEMMA ConnectedType ==
  ASSUME TypeOK, Connected
  PROVE  TypeOK'
<1>1. PICK k \in Conns : ws' = k /\ conn' = [conn EXCEPT ![k].state = "open"]
  BY DEF Connected
<1>2. conn' \in [Conns -> ConnRecord]
  BY ZenonT(30), <1>1 DEF TypeOK, ConnRecord
<1>3. QED
  BY <1>1, <1>2 DEF Connected, TypeOK

LEMMA HandshakeType ==
  ASSUME TypeOK, Handshake
  PROVE  TypeOK'
<1>1. Rest \in Seq(Tasks)
  BY QueueType DEF Handshake, Turn, TypeOK, Rest
<1>2. conn' \in [Conns -> ConnRecord]
  <2>1. CASE ws \in Conns
    BY <2>1, ReadOtherType DEF Handshake, TypeOK
  <2>2. CASE ws \notin Conns
    BY <2>2 DEF Handshake, TypeOK, ReadOther
  <2>3. QED
    BY <2>1, <2>2
<1>3. /\ ready' \in Seq(Tasks) /\ recvTask' \in Loops \cup {0}
      /\ loop' \in [Loops -> LoopRecord]
  <2>1. CASE EnsureRecvTask(Rest)
    BY <1>1, <2>1, EnsureType
  <2>2. CASE ready' = Rest /\ UNCHANGED <<recvTask, loop>>
    BY <1>1, <2>2 DEF TypeOK
  <2>3. QED
    BY <2>1, <2>2 DEF Handshake
<1>4. QED
  BY <1>2, <1>3 DEF Handshake, TypeOK

LEMMA CloseSocketType ==
  ASSUME TypeOK, CloseSocket
  PROVE  /\ owner' \in {"idle", "dialing", "handshake", "joining", "closing"}
         /\ conn' \in [Conns -> ConnRecord]
<1>1. CASE ws = 0
  BY <1>1 DEF CloseSocket, TypeOK
<1>2. CASE ws # 0
  <2>1. conn' = [conn EXCEPT ![ws].state = "closed"] /\ owner' = "closing"
    BY <1>2 DEF CloseSocket
  <2>2. conn' \in [Conns -> ConnRecord]
    BY ZenonT(30), <2>1, <1>2 DEF TypeOK, ConnRecord
  <2>3. QED
    BY <2>1, <2>2
<1>3. QED
  BY <1>1, <1>2

LEMMA DisconnectType ==
  ASSUME TypeOK, Disconnect
  PROVE  TypeOK'
<1>1. CASE /\ LoopAlive /\ loop' = [loop EXCEPT ![recvTask].cancelled = TRUE]
           /\ Wake(recvTask) /\ owner' = "joining" /\ UNCHANGED conn
  <2>1. recvTask \in Tasks
    BY <1>1 DEF LoopAlive, TypeOK, Tasks
  <2>2. loop' \in [Loops -> LoopRecord]
    BY <1>1 DEF TypeOK, LoopRecord
  <2>3. ready' \in Seq(Tasks)
    BY <1>1, <2>1, WakeType
  <2>4. QED
    BY <1>1, <2>2, <2>3 DEF Disconnect, TypeOK
<1>2. CASE CloseSocket /\ UNCHANGED <<ready, loop>>
  BY <1>2, CloseSocketType DEF Disconnect, TypeOK
<1>3. QED
  BY <1>1, <1>2 DEF Disconnect

LEMMA JoinedType ==
  ASSUME TypeOK, Joined
  PROVE  TypeOK'
<1>1. ready' \in Seq(Tasks)
  BY QueueType DEF Joined, Turn, TypeOK, Rest
<1>2. /\ owner' \in {"idle", "dialing", "handshake", "joining", "closing"}
      /\ conn' \in [Conns -> ConnRecord]
  BY CloseSocketType DEF Joined
<1>3. QED
  BY <1>1, <1>2 DEF Joined, TypeOK

LEMMA ClosedType ==
  ASSUME TypeOK, Closed
  PROVE  TypeOK'
<1>1. ready' \in Seq(Tasks)
  BY QueueType DEF Closed, Turn, TypeOK, Rest
<1>2. QED
  BY <1>1 DEF Closed, TypeOK

LEMMA IoReadyType ==
  ASSUME TypeOK, NEW t \in Tasks, IoReady(t)
  PROVE  TypeOK'
<1>1. ready' \in Seq(Tasks)
  BY QueueType DEF IoReady, TypeOK
<1>2. QED
  BY <1>1 DEF IoReady, TypeOK

\* One connection's record changes.
LEMMA ConnUpdate ==
  ASSUME TypeOK, NEW k \in Conns, NEW rec \in ConnRecord,
         conn' = [conn EXCEPT ![k] = rec],
         pushes' \in 0..MaxPushes,
         UNCHANGED <<ws, recvTask, pending, ready, loop, call, owner>>
  PROVE  TypeOK'
  BY DEF TypeOK

LEMMA InboxGrows ==
  ASSUME TypeOK, NEW k \in Conns, NEW f \in Frame
  PROVE  conn[k] \in ConnRecord /\ Append(conn[k].inbox, f) \in Seq(Frame)
<1>1. conn[k] \in ConnRecord
  BY DEF TypeOK
<1>2. conn[k].inbox \in Seq(Frame)
  BY <1>1 DEF ConnRecord
<1>3. QED
  BY <1>1, <1>2

LEMMA GreetType ==
  ASSUME TypeOK, NEW k \in Conns, Greet(k)
  PROVE  TypeOK'
<1> DEFINE f == Plain("connection_established")
           rec == [conn[k] EXCEPT !.greeted = TRUE, !.inbox = Append(@, f)]
<1>1. f \in Frame
  BY DEF Plain, Frame
<1>2. conn[k] \in ConnRecord /\ Append(conn[k].inbox, f) \in Seq(Frame)
  BY <1>1, InboxGrows
<1>3. rec \in ConnRecord
  BY <1>2 DEF ConnRecord
<1>4. conn' = [conn EXCEPT ![k] = rec]
  BY DEF Greet
<1>5. QED
  <2> HIDE DEF rec
  <2> QED BY <1>3, <1>4, ConnUpdate DEF Greet, TypeOK

LEMMA PushType ==
  ASSUME TypeOK, NEW k \in Conns, NEW type \in {"ping", "malformed", "not_object"},
         Push(k, type)
  PROVE  TypeOK'
<1> DEFINE f == Plain(type)
           rec == [conn[k] EXCEPT !.greeted = TRUE, !.inbox = Append(@, f),
                                  !.pinged = @ \/ type = "ping"]
<1>1. f \in Frame
  BY DEF Plain, Frame
<1>2. conn[k] \in ConnRecord /\ Append(conn[k].inbox, f) \in Seq(Frame)
  BY <1>1, InboxGrows
<1>3. rec \in ConnRecord
  <2>1. (conn[k].pinged \/ type = "ping") \in BOOLEAN
    OBVIOUS
  <2>2. QED
    BY <1>2, <2>1 DEF ConnRecord
<1>4. conn' = [conn EXCEPT ![k] = rec]
  BY DEF Push
<1>5. pushes' \in 0..MaxPushes
  BY ControlStreamAssumption DEF Push, TypeOK
<1>6. QED
  <2> HIDE DEF rec
  <2> QED BY <1>3, <1>4, <1>5, ConnUpdate DEF Push, TypeOK

LEMMA RespondType ==
  ASSUME TypeOK, NEW k \in Conns, NEW q \in conn[k].sent, Respond(k, q)
  PROVE  TypeOK'
<1> DEFINE f == [type |-> "command_response", id |-> q.id, re |-> q.call]
           rec == [conn[k] EXCEPT !.answered = @ \cup {q}, !.inbox = Append(@, f)]
<1>1. q \in Request
  BY DEF TypeOK, ConnRecord
<1>2. f \in Frame
  BY <1>1 DEF Request, Frame
<1>3. conn[k] \in ConnRecord /\ Append(conn[k].inbox, f) \in Seq(Frame)
  BY <1>2, InboxGrows
<1>4. rec \in ConnRecord
  BY <1>1, <1>3 DEF ConnRecord
<1>5. conn' = [conn EXCEPT ![k] = rec]
  BY DEF Respond
<1>6. pushes' \in 0..MaxPushes
  BY ControlStreamAssumption DEF Respond, TypeOK
<1>7. QED
  <2> HIDE DEF rec
  <2> QED BY <1>4, <1>5, <1>6, ConnUpdate DEF Respond, TypeOK

LEMMA ServerClosesType ==
  ASSUME TypeOK, NEW k \in Conns, ServerCloses(k)
  PROVE  TypeOK'
<1> DEFINE rec == [conn[k] EXCEPT !.state = "closed"]
<1>1. rec \in ConnRecord
  BY DEF TypeOK, ConnRecord
<1>2. conn' = [conn EXCEPT ![k] = rec]
  BY DEF ServerCloses
<1>3. QED
  <2> HIDE DEF rec
  <2> QED BY <1>1, <1>2, ConnUpdate DEF ServerCloses, TypeOK

------------------------------------------------------------------------------
\* Type correctness: the specification

LEMMA InitType == Init => TypeOK
<1> SUFFICES ASSUME Init PROVE TypeOK
  OBVIOUS
<1>1. loop \in [Loops -> LoopRecord]
  BY ControlStreamAssumption DEF Init, LoopRecord, Dead, Conns
<1>2. call \in [Callers -> CallRecord]
  BY ControlStreamAssumption DEF Init, CallRecord, Conns
<1>3. conn \in [Conns -> ConnRecord]
  BY DEF Init, ConnRecord
<1>4. pushes \in 0..MaxPushes
  BY ControlStreamAssumption DEF Init
<1>5. QED
  BY <1>1, <1>2, <1>3, <1>4 DEF Init, TypeOK

LEMMA RunType == TypeOK /\ RunNext => TypeOK'
<1> SUFFICES ASSUME TypeOK, RunNext PROVE TypeOK'
  OBVIOUS
<1>1. CASE \E c \in Callers :
             SendDone(c) \/ WaitDone(c) \/ DirectResume(c) \/ DirectRead(c) \/ DirectWoken(c)
  BY <1>1, SendDoneType, WaitDoneType, DirectResumeType, DirectReadType, DirectWokenType
<1>2. CASE \E r \in Loops :
             LoopResume(r) \/ LoopRecv(r) \/ LoopWoken(r) \/ LoopCancelled(r)
  BY <1>2, LoopResumeType, LoopRecvType, LoopWokenType, LoopCancelledType
<1>3. CASE Handshake \/ Joined \/ Closed
  BY <1>3, HandshakeType, JoinedType, ClosedType
<1>4. QED
  BY <1>1, <1>2, <1>3 DEF RunNext

LEMMA StepType == TypeOK /\ [Next]_vars => TypeOK'
<1> SUFFICES ASSUME TypeOK, [Next]_vars PROVE TypeOK'
  OBVIOUS
<1>1. CASE RunNext
  BY <1>1, RunType
<1>2. CASE \E c \in Callers : SetParams(c) \/ Command(c) \/ Timeout(c) \/ Cancel(c)
  BY <1>2, SetParamsType, CommandType, InterruptType DEF Timeout, Cancel
<1>3. CASE Connect \/ ConnectFails
  BY <1>3 DEF Connect, ConnectFails, TypeOK
<1>4. CASE Connected \/ Disconnect
  BY <1>4, ConnectedType, DisconnectType
<1>5. CASE \E t \in Tasks : IoReady(t)
  BY <1>5, IoReadyType
<1>6. CASE \E k \in Conns :
             \/ Greet(k) \/ ServerCloses(k)
             \/ \E type \in {"ping", "malformed", "not_object"} : Push(k, type)
             \/ \E q \in conn[k].sent : Respond(k, q)
  BY <1>6, GreetType, ServerClosesType, PushType, RespondType
<1>7. CASE UNCHANGED vars
  BY <1>7 DEF vars, TypeOK
<1>8. QED
  BY <1>1, <1>2, <1>3, <1>4, <1>5, <1>6, <1>7 DEF Next

\* Every variable of CascorControlStream keeps its type: in particular _ws and
\* _recv_task name a connection and a task whenever they are not None, and
\* _pending maps ids to the callers awaiting them.
THEOREM TypeCorrect == Spec => []TypeOK
  BY InitType, StepType, PTL DEF Spec

------------------------------------------------------------------------------
\* The correlation of responses with calls

\* A command_id taken from uuid4() names the call that holds it.
IdsOwn == \A c \in Callers : call[c].id \in Uuids => call[c].id = <<c, call[c].n>>

\* A call on the direct path has no command_id.
DirectHasNoId == \A c \in Callers : call[c].at \in Direct => call[c].id = NoId

\* A request that carries a uuid was sent by the call the uuid names, and a frame
\* that carries one answers that call.
RequestsOwn ==
  \A k \in Conns : \A q \in conn[k].sent : q.id \in Uuids => q.call = q.id
FramesOwn ==
  \A k \in Conns : \A f \in Range(conn[k].inbox) : f.id \in Uuids => f.re = f.id

\* A response in an inbox, and a reply taken from one, was sent by the server.
Answered == {q.call : q \in UNION {conn[k].answered : k \in Conns}}
FramesAnswered ==
  \A k \in Conns : \A f \in Range(conn[k].inbox) : f.re \in Answered \cup {NoReply}
RepliesAnswered == \A c \in Callers : call[c].reply \in Answered \cup {NoReply}

Inv ==
  /\ TypeOK /\ PendingSound /\ PendingComplete /\ OwnReply
  /\ IdsOwn /\ DirectHasNoId /\ RequestsOwn /\ FramesOwn
  /\ FramesAnswered /\ RepliesAnswered

------------------------------------------------------------------------------
\* The effects of a step

Reads == \A k \in Conns : /\ conn'[k].sent = conn[k].sent
                          /\ conn'[k].answered = conn[k].answered
                          /\ Range(conn'[k].inbox) \subseteq Range(conn[k].inbox)

Same(d) == /\ call'[d].id = call[d].id /\ call'[d].n = call[d].n
           /\ call'[d].reply = call[d].reply
           /\ call'[d].at = "idle" <=> call[d].at = "idle"
           /\ call'[d].at \in Correlated <=> call[d].at \in Correlated
           /\ call'[d].at \in Direct => call[d].at \in Direct

\* Nothing is registered, popped, sent or resolved.
Quiet == pending' = pending /\ Reads /\ \A d \in Callers : Same(d)

\* The call of c returns or raises; only on the direct path is what it returns
\* taken from the inbox at that moment.
Ends(c, re) ==
  /\ call[c].at # "idle"
  /\ \/ re \in {NoReply, call[c].reply}
     \/ /\ call[c].at \in Direct
        /\ \E k \in Conns : \E f \in Range(conn[k].inbox) : re = f.re
  /\ Reads
  /\ pending' = [pending EXCEPT ![call[c].id] = NoCaller]
  /\ call'[c].id = call[c].id /\ call'[c].n = call[c].n
  /\ call'[c].reply = re /\ call'[c].at = "idle"
  /\ \A d \in Callers \ {c} : call'[d] = call[d]

\* A future is resolved by frame f.
Resolves(f) ==
  /\ f.id \in PendingIds
  /\ \E k \in Conns : f \in Range(conn[k].inbox)
  /\ pending' = pending /\ Reads
  /\ LET c == pending[f.id]
     IN  /\ call'[c].id = call[c].id /\ call'[c].n = call[c].n
         /\ call'[c].at = call[c].at /\ call'[c].reply = f.re
         /\ \A d \in Callers \ {c} : call'[d] = call[d]

\* A call of c begins under id, or is refused; at says where it stands then.
Begins(c, id, at) ==
  /\ call[c].at = "idle" /\ call[c].n < MaxCalls
  /\ call'[c].id = id /\ call'[c].n = call[c].n + 1
  /\ call'[c].at = at /\ call'[c].reply = NoReply
  /\ \A d \in Callers \ {c} : call'[d] = call[d]
  /\ \A k \in Conns : /\ conn'[k].inbox = conn[k].inbox
                      /\ conn'[k].answered = conn[k].answered
  /\ \/ /\ at # "idle" /\ ws \in Conns
        /\ \A k \in Conns \ {ws} : conn'[k].sent = conn[k].sent
        /\ conn'[ws].sent = conn[ws].sent \cup {[call |-> NextUuid(c), id |-> id]}
     \/ \A k \in Conns : conn'[k].sent = conn[k].sent
  /\ \/ /\ at \in Correlated /\ id \in {NextUuid(c)} \cup UserIds
        /\ pending' = [pending EXCEPT ![id] = c]
     \/ at \in {"idle"} \cup Direct /\ id = NoId /\ pending' = pending

\* The server sends frame f on connection k: an answer to a request, or a frame
\* that answers none.
Receives(k, f) ==
  /\ UNCHANGED <<call, pending>>
  /\ \A j \in Conns : conn'[j].sent = conn[j].sent
  /\ \A j \in Conns \ {k} : /\ conn'[j].answered = conn[j].answered
                            /\ conn'[j].inbox = conn[j].inbox
  /\ Range(conn'[k].inbox) = Range(conn[k].inbox) \cup {f}
  /\ \/ f.id = NoId /\ f.re = NoReply /\ conn'[k].answered = conn[k].answered
     \/ \E q \in conn[k].sent : /\ f.id = q.id /\ f.re = q.call
                                /\ conn'[k].answered = conn[k].answered \cup {q}

Effect ==
  \/ Quiet
  \/ \E c \in Callers : \E re : Ends(c, re)
  \/ \E f : Resolves(f)
  \/ \E c \in Callers : \E id, at : Begins(c, id, at)
  \/ \E k \in Conns : \E f : Receives(k, f)

------------------------------------------------------------------------------
\* The invariant survives each effect

LEMMA IdFacts ==
  /\ \A k \in UserIds : k \notin Uuids /\ k # NoId
  /\ NoId \notin Ids /\ NoId \notin Uuids /\ NoId \notin UserIds
  /\ NoCaller \notin Callers /\ "idle" \notin Correlated \cup Direct
  /\ Correlated \cap Direct = {}
  BY ControlStreamAssumption DEF Ids, NoCaller, Correlated, Direct

\* Answered depends on the connections' answers only.
LEMMA SameAnswered ==
  ASSUME \A k \in Conns : conn'[k].answered = conn[k].answered
  PROVE  Answered' = Answered
  BY DEF Answered

LEMMA QuietKeeps ==
  ASSUME Inv, TypeOK', Quiet
  PROVE  Inv'
<1>1. PendingSound'
  BY DEF Inv, PendingSound, Quiet, Same, PendingIds, TypeOK, NoCaller
<1>2. PendingComplete'
  BY DEF Inv, PendingComplete, Quiet, Same
<1>3. OwnReply' /\ IdsOwn' /\ DirectHasNoId'
  BY DEF Inv, OwnReply, IdsOwn, DirectHasNoId, Quiet, Same
<1>4. RequestsOwn' /\ FramesOwn'
  BY DEF Inv, RequestsOwn, FramesOwn, Quiet, Reads
<1>5. FramesAnswered' /\ RepliesAnswered'
  BY SameAnswered DEF Inv, FramesAnswered, RepliesAnswered, Quiet, Reads, Same
<1>6. QED
  BY <1>1, <1>2, <1>3, <1>4, <1>5 DEF Inv

LEMMA EndsKeeps ==
  ASSUME Inv, TypeOK', NEW c \in Callers, NEW re, Ends(c, re)
  PROVE  Inv'
<1>1. pending \in [Ids \cup {NoId} -> Callers \cup {NoCaller}]
  BY DEF Inv, TypeOK
<1>2. PendingSound'
  <2> SUFFICES ASSUME NEW k \in Ids, pending'[k] # NoCaller
               PROVE  /\ call'[pending'[k]].at \in Correlated
                      /\ call'[pending'[k]].id = k
    BY DEF PendingSound, PendingIds
  <2>1. k # call[c].id /\ pending'[k] = pending[k] /\ pending[k] \in Callers
    BY <1>1 DEF Ends
  <2>2. call[pending[k]].at \in Correlated /\ call[pending[k]].id = k
    BY <2>1 DEF Inv, PendingSound, PendingIds
  <2>3. pending[k] # c
    BY <2>1, <2>2
  <2>4. QED
    BY <2>1, <2>2, <2>3 DEF Ends
<1>3. PendingComplete'
  <2> SUFFICES ASSUME NEW d \in Callers, call'[d].at \in Correlated, call'[d].id \in Uuids
               PROVE  pending'[call'[d].id] = d
    BY DEF PendingComplete
  <2>1. d # c /\ call'[d] = call[d]
    BY IdFacts DEF Ends
  <2>2. pending[call[d].id] = d /\ call[d].id = <<d, call[d].n>>
    BY <2>1 DEF Inv, PendingComplete, IdsOwn
  <2>3. call[c].id # call[d].id
    BY <2>1, <2>2 DEF Inv, IdsOwn
  <2>4. call[d].id \in Ids
    BY <2>1 DEF Ids
  <2>5. QED
    BY <1>1, <2>1, <2>2, <2>3, <2>4 DEF Ends
<1>4. OwnReply'
  BY IdFacts DEF Inv, OwnReply, DirectHasNoId, Ends
<1>5. IdsOwn' /\ DirectHasNoId'
  BY IdFacts DEF Inv, IdsOwn, DirectHasNoId, Ends
<1>6. RequestsOwn' /\ FramesOwn'
  BY DEF Inv, RequestsOwn, FramesOwn, Ends, Reads
<1>7. FramesAnswered' /\ RepliesAnswered'
  BY SameAnswered DEF Inv, FramesAnswered, RepliesAnswered, Ends, Reads
<1>8. QED
  BY <1>2, <1>3, <1>4, <1>5, <1>6, <1>7 DEF Inv

LEMMA ResolvesKeeps ==
  ASSUME Inv, TypeOK', NEW f, Resolves(f)
  PROVE  Inv'
<1> DEFINE c == pending[f.id]
<1>1. c \in Callers /\ call[c].id = f.id
  BY DEF Inv, TypeOK, PendingSound, PendingIds, Resolves
<1>2. f.id \in Uuids => f.re = f.id
  BY DEF Inv, FramesOwn, Resolves
<1>3. \A d \in Callers : /\ call'[d].id = call[d].id /\ call'[d].n = call[d].n
                         /\ call'[d].at = call[d].at
                         /\ d # c => call'[d].reply = call[d].reply
  BY DEF Resolves
<1>4. call'[c].reply = f.re
  BY DEF Resolves
<1>5. PendingSound'
  BY ZenonT(30), <1>3 DEF Inv, PendingSound, Resolves, PendingIds, TypeOK, NoCaller
<1>6. PendingComplete' /\ IdsOwn' /\ DirectHasNoId'
  BY ZenonT(30), <1>3 DEF Inv, PendingComplete, IdsOwn, DirectHasNoId, Resolves
<1>7. OwnReply'
  BY <1>1, <1>2, <1>3, <1>4 DEF Inv, OwnReply
<1>8. RequestsOwn' /\ FramesOwn'
  BY DEF Inv, RequestsOwn, FramesOwn, Resolves, Reads
<1>9. FramesAnswered' /\ RepliesAnswered'
  BY <1>4, SameAnswered DEF Inv, FramesAnswered, RepliesAnswered, Resolves, Reads
<1>10. QED
  BY <1>5, <1>6, <1>7, <1>8, <1>9 DEF Inv

LEMMA BeginsKeeps ==
  ASSUME Inv, TypeOK', NEW c \in Callers, NEW id, NEW at, Begins(c, id, at)
  PROVE  Inv'
<1>1. pending \in [Ids \cup {NoId} -> Callers \cup {NoCaller}]
  BY DEF Inv, TypeOK
<1>2. call[c].at = "idle" /\ \A k \in Ids : pending[k] # c
  BY IdFacts DEF Begins, Inv, PendingSound, PendingIds
<1>3. id \in Uuids => id = NextUuid(c)
  BY IdFacts DEF Begins
<1>4. PendingSound'
  <2> SUFFICES ASSUME NEW k \in Ids, pending'[k] # NoCaller
               PROVE  /\ call'[pending'[k]].at \in Correlated
                      /\ call'[pending'[k]].id = k
    BY DEF PendingSound, PendingIds
  <2>1. CASE pending'[k] = pending[k]
    BY <1>1, <1>2, <2>1 DEF Begins, Inv, PendingSound, PendingIds
  <2>2. CASE pending'[k] # pending[k]
    BY <1>1, <2>2 DEF Begins
  <2>3. QED
    BY <2>1, <2>2
<1>5. PendingComplete'
  <2> SUFFICES ASSUME NEW d \in Callers, call'[d].at \in Correlated, call'[d].id \in Uuids
               PROVE  pending'[call'[d].id] = d
    BY DEF PendingComplete
  <2>1. call'[d].id \in Ids
    BY DEF Ids
  <2>2. CASE d = c
    BY <1>1, <2>1, <2>2, IdFacts DEF Begins
  <2>3. CASE d # c
    <3>1. pending[call[d].id] = d /\ call[d].id = <<d, call[d].n>> /\ call'[d] = call[d]
      BY <2>3 DEF Begins, Inv, PendingComplete, IdsOwn
    <3>2. id # call[d].id
      BY <1>3, <2>3, <3>1 DEF NextUuid
    <3>3. QED
      BY <1>1, <2>1, <3>1, <3>2 DEF Begins
  <2>4. QED
    BY <2>2, <2>3
<1>6. OwnReply'
  BY DEF Inv, OwnReply, Begins
<1>7. IdsOwn' /\ DirectHasNoId'
  BY <1>3, IdFacts DEF Inv, IdsOwn, DirectHasNoId, Begins, NextUuid
<1>8. RequestsOwn' /\ FramesOwn'
  BY <1>3 DEF Inv, RequestsOwn, FramesOwn, Begins
<1>9. FramesAnswered' /\ RepliesAnswered'
  BY SameAnswered DEF Inv, FramesAnswered, RepliesAnswered, Begins
<1>10. QED
  BY <1>4, <1>5, <1>6, <1>7, <1>8, <1>9 DEF Inv

LEMMA ReceivesKeeps ==
  ASSUME Inv, TypeOK', NEW k \in Conns, NEW f, Receives(k, f)
  PROVE  Inv'
<1>1. PendingSound' /\ PendingComplete' /\ OwnReply' /\ IdsOwn' /\ DirectHasNoId'
  BY DEF Inv, PendingSound, PendingIds, PendingComplete, OwnReply, IdsOwn,
         DirectHasNoId, Receives
<1>2. f.id \in Uuids => f.re = f.id
  BY IdFacts DEF Inv, RequestsOwn, Receives
<1>3. RequestsOwn' /\ FramesOwn'
  BY <1>2 DEF Inv, RequestsOwn, FramesOwn, Receives
<1>4. Answered \subseteq Answered' /\ f.re \in Answered' \cup {NoReply}
  <2>1. \A j \in Conns : conn[j].answered \subseteq conn'[j].answered
    BY DEF Receives
  <2>2. CASE f.re = NoReply
    BY <2>1, <2>2 DEF Answered
  <2>3. CASE \E q \in conn'[k].answered : f.re = q.call
    BY <2>1, <2>3 DEF Answered
  <2>4. QED
    BY <2>2, <2>3 DEF Receives
<1>5. FramesAnswered' /\ RepliesAnswered'
  BY <1>4 DEF Inv, FramesAnswered, RepliesAnswered, Receives
<1>6. QED
  BY <1>1, <1>3, <1>5 DEF Inv

------------------------------------------------------------------------------
\* Each action has one of the effects

LEMMA RangeFacts ==
  ASSUME NEW S, NEW q \in Seq(S)
  PROVE  /\ q # <<>> => Range(Tail(q)) \subseteq Range(q) /\ Head(q) \in Range(q)
         /\ \A e \in S : Range(Append(q, e)) = Range(q) \cup {e}
<1>1. ASSUME q # <<>>
      PROVE  Range(Tail(q)) \subseteq Range(q) /\ Head(q) \in Range(q)
  <2>1. /\ Len(Tail(q)) = Len(q) - 1 /\ Tail(q) \in Seq(S)
        /\ \A i \in 1..Len(Tail(q)) : Tail(q)[i] = q[i + 1]
    BY <1>1
  <2>2. Head(q) = q[1] /\ 1 \in 1..Len(q)
    BY <1>1
  <2>3. DOMAIN Tail(q) = 1..Len(Tail(q)) /\ DOMAIN q = 1..Len(q)
    BY <2>1
  <2>4. \A i \in DOMAIN Tail(q) : i + 1 \in DOMAIN q /\ Tail(q)[i] = q[i + 1]
    BY <2>1, <2>3
  <2>5. QED
    BY <2>2, <2>3, <2>4 DEF Range
<1>2. ASSUME NEW e \in S PROVE Range(Append(q, e)) = Range(q) \cup {e}
  <2>1. /\ DOMAIN Append(q, e) = 1..(Len(q) + 1) /\ DOMAIN q = 1..Len(q)
        /\ Append(q, e)[Len(q) + 1] = e
        /\ \A i \in 1..Len(q) : Append(q, e)[i] = q[i]
        /\ Len(q) \in Nat
    OBVIOUS
  <2>2. QED
    BY <2>1 DEF Range
<1>3. QED
  BY <1>1, <1>2

LEMMA InboxRange ==
  ASSUME TypeOK, NEW k \in Conns, conn[k].inbox # <<>>
  PROVE  /\ Range(Tail(conn[k].inbox)) \subseteq Range(conn[k].inbox)
         /\ Head(conn[k].inbox) \in Range(conn[k].inbox)
<1>1. conn[k].inbox \in Seq(Frame)
  BY DEF TypeOK, ConnRecord
<1>2. QED
  BY <1>1, RangeFacts

LEMMA ReadOtherReads ==
  ASSUME TypeOK, NEW k \in Conns, conn[k].inbox # <<>>, ReadOther(k)
  PROVE  Reads
  BY InboxRange DEF TypeOK, ConnRecord, ReadOther, Reads

LEMMA ReadPingReads ==
  ASSUME TypeOK, NEW k \in Conns, conn[k].inbox # <<>>, ReadPing(k)
  PROVE  Reads
<1> DEFINE read == [conn EXCEPT ![k].inbox = Tail(@)]
<1>1. \A j \in Conns : /\ read[j].sent = conn[j].sent
                       /\ read[j].answered = conn[j].answered
                       /\ Range(read[j].inbox) \subseteq Range(conn[j].inbox)
  BY InboxRange DEF TypeOK, ConnRecord
<1>2. DOMAIN read = Conns /\ \A j \in Conns : {"sent", "answered", "inbox"} \subseteq DOMAIN read[j]
  BY DEF TypeOK, ConnRecord
<1>3. conn' = read \/ conn' = [read EXCEPT ![ws].pinged = FALSE]
  BY DEF ReadPing
<1>4. \A j \in Conns : /\ conn'[j].sent = read[j].sent
                       /\ conn'[j].answered = read[j].answered
                       /\ conn'[j].inbox = read[j].inbox
  <2> HIDE DEF read
  <2> QED BY <1>2, <1>3
<1>5. QED
  <2> HIDE DEF read
  <2> QED BY <1>1, <1>4 DEF Reads

LEMMA FinishEnds ==
  ASSUME TypeOK, NEW c \in Callers, NEW how, NEW re, Finish(c, how, re), Reads,
         call[c].at # "idle",
         \/ re \in {NoReply, call[c].reply}
         \/ /\ call[c].at \in Direct
            /\ \E k \in Conns : \E f \in Range(conn[k].inbox) : re = f.re
  PROVE  Ends(c, re)
  BY DEF TypeOK, CallRecord, Finish, EndCall, Ends

LEMMA NoRead == ASSUME UNCHANGED conn PROVE Reads
  BY DEF Reads

LEMMA FutureDoneEffect ==
  ASSUME Inv, NEW c \in Callers, call[c].at # "idle", FutureDone(c), UNCHANGED conn
  PROVE  Effect
<1>1. TypeOK /\ Reads
  BY NoRead DEF Inv
<1>2. Ends(c, call[c].reply) \/ Ends(c, NoReply)
  BY <1>1, FinishEnds DEF FutureDone
<1>3. QED
  BY <1>2 DEF Effect

\* One caller moves on without ending its call.
LEMMA MoveIsQuiet ==
  ASSUME TypeOK, NEW c \in Callers, NEW rec, call' = [call EXCEPT ![c] = rec],
         rec.id = call[c].id, rec.n = call[c].n, rec.reply = call[c].reply,
         rec.at = "idle" <=> call[c].at = "idle",
         rec.at \in Correlated <=> call[c].at \in Correlated,
         rec.at \in Direct => call[c].at \in Direct,
         pending' = pending, Reads
  PROVE  Quiet
  BY DEF TypeOK, Quiet, Same

LEMMA StandsIsQuiet ==
  ASSUME UNCHANGED <<call, pending>>, Reads
  PROVE  Quiet
  BY DEF Quiet, Same

LEMMA DirectFrameEffect ==
  ASSUME Inv, NEW c \in Callers, NEW k \in Conns, call[c].at \in Direct,
         conn[k].inbox # <<>>, DirectFrame(c, k)
  PROVE  Effect
<1>1. TypeOK
  BY DEF Inv
<1>2. Reads
  BY <1>1, ReadOtherReads, ReadPingReads DEF DirectFrame
<1>3. CASE pending' = pending /\ \E at \in {"directLoop", "directPong"} :
                                   call' = [call EXCEPT ![c].at = at]
  <2>1. PICK at \in {"directLoop", "directPong"} : call' = [call EXCEPT ![c].at = at]
    BY <1>3
  <2>2. /\ at \in Direct /\ at \notin Correlated /\ call[c].at \notin Correlated
        /\ at # "idle" /\ call[c].at # "idle"
    BY IdFacts DEF Direct
  <2> DEFINE rec == [call[c] EXCEPT !.at = at]
  <2>3. call' = [call EXCEPT ![c] = rec]
    BY <2>1
  <2>4. /\ rec.id = call[c].id /\ rec.n = call[c].n /\ rec.reply = call[c].reply
        /\ rec.at = at
    BY <1>1 DEF TypeOK, CallRecord
  <2>5. Quiet
    <3> HIDE DEF rec
    <3> QED BY <1>1, <1>2, <1>3, <2>2, <2>3, <2>4, MoveIsQuiet
  <2>6. QED
    BY <2>5 DEF Effect
<1>4. CASE \E how : Finish(c, how, NoReply) \/ Finish(c, how, Head(conn[k].inbox).re)
  <2>1. call[c].at # "idle" /\ Head(conn[k].inbox) \in Range(conn[k].inbox)
    BY <1>1, IdFacts, InboxRange
  <2>2. QED
    BY <1>1, <1>2, <1>4, <2>1, FinishEnds DEF Effect
<1>5. QED
  BY <1>3, <1>4 DEF DirectFrame

LEMMA LoopDisconnectedEffect ==
  ASSUME Inv, NEW r \in Loops, LoopDisconnected(r)
  PROVE  Effect
<1>1. Quiet
  BY NoRead DEF Inv, TypeOK, CallRecord, LoopDisconnected, Quiet, Same
<1>2. QED
  BY <1>1 DEF Effect

LEMMA LoopFrameEffect ==
  ASSUME Inv, NEW r \in Loops, NEW k \in Conns, conn[k].inbox # <<>>,
         LoopFrame(r, k)
  PROVE  Effect
<1> DEFINE f == Head(conn[k].inbox)
           c == pending[f.id]
<1>1. TypeOK
  BY DEF Inv
<1>2. Reads
  BY <1>1, ReadOtherReads, ReadPingReads DEF LoopFrame
<1>3. pending' = pending
  BY DEF LoopFrame
<1>4. CASE UNCHANGED call
  BY <1>2, <1>3, <1>4, StandsIsQuiet DEF Effect
<1>5. CASE /\ f.id \in PendingIds
           /\ call' = [call EXCEPT ![c].fut = "result", ![c].reply = f.re]
  <2>1. c \in Callers /\ f \in Range(conn[k].inbox)
    BY <1>1, <1>5, InboxRange DEF TypeOK, PendingIds
  <2> DEFINE rec == [call[c] EXCEPT !.fut = "result", !.reply = f.re]
  <2>2. call' = [call EXCEPT ![c] = rec]
    BY <1>5
  <2>3. /\ rec.id = call[c].id /\ rec.n = call[c].n /\ rec.at = call[c].at
        /\ rec.reply = f.re
    BY <1>1, <2>1 DEF TypeOK, CallRecord
  <2>4. Resolves(f)
    <3> HIDE DEF rec, f
    <3> QED BY <1>1, <1>2, <1>3, <1>5, <2>1, <2>2, <2>3 DEF TypeOK, Resolves
  <2>5. QED
    BY <2>4 DEF Effect
<1>6. QED
  BY <1>4, <1>5 DEF LoopFrame, ResolveFuture

LEMMA SendBegins ==
  ASSUME TypeOK, NEW c \in Callers, CanCall(c), ws # 0, NEW id, NEW fut, NEW next,
         NEW suspended, NEW at, Send(c, id, fut, next, suspended, at),
         \/ /\ at \in Correlated /\ id \in {NextUuid(c)} \cup UserIds
            /\ pending' = [pending EXCEPT ![id] = c]
         \/ at \in Direct /\ id = NoId /\ pending' = pending
  PROVE  Begins(c, id, at)
<1> DEFINE q == [call |-> NextUuid(c), id |-> id]
<1>1. ws \in Conns
  BY DEF TypeOK
<1>2. /\ \A k \in Conns : /\ conn'[k].inbox = conn[k].inbox
                          /\ conn'[k].answered = conn[k].answered
      /\ \/ /\ conn'[ws].sent = conn[ws].sent \cup {q}
            /\ \A k \in Conns \ {ws} : conn'[k].sent = conn[k].sent
         \/ \A k \in Conns : conn'[k].sent = conn[k].sent
  <2>1. CASE Open(ws)
    <3>1. conn' = [conn EXCEPT ![ws].sent = @ \cup {q}]
      BY <2>1 DEF Send
    <3>2. QED
      <4> HIDE DEF q
      <4> QED BY <1>1, <3>1 DEF TypeOK, ConnRecord
  <2>2. CASE ~Open(ws)
    BY <2>2 DEF Send
  <2>3. QED
    BY <2>1, <2>2
<1>3. /\ call'[c].id = id /\ call'[c].n = call[c].n + 1
      /\ call'[c].at = at /\ call'[c].reply = NoReply
      /\ \A d \in Callers \ {c} : call'[d] = call[d]
  BY DEF TypeOK, Send
<1>4. at # "idle"
  BY IdFacts
<1>5. QED
  BY <1>1, <1>2, <1>3, <1>4 DEF Begins, CanCall

LEMMA RefuseBegins ==
  ASSUME TypeOK, NEW c \in Callers, CanCall(c), NEW why, Refuse(c, why)
  PROVE  Begins(c, NoId, "idle")
<1> DEFINE rec == [call[c] EXCEPT !.n = @ + 1, !.id = NoId, !.reply = NoReply,
                                  !.outcome = why]
<1>1. call' = [call EXCEPT ![c] = rec]
  BY DEF Refuse
<1>2. /\ rec.id = NoId /\ rec.n = call[c].n + 1 /\ rec.reply = NoReply
      /\ rec.at = call[c].at
  BY DEF TypeOK, CallRecord
<1>3. call'[c] = rec /\ \A d \in Callers \ {c} : call'[d] = call[d]
  BY <1>1 DEF TypeOK
<1>4. QED
  BY <1>2, <1>3 DEF Begins, CanCall, Refuse

------------------------------------------------------------------------------
\* The invariant of the specification

LEMMA CallsEffect ==
  ASSUME Inv, NEW c \in Callers,
         \/ SetParams(c) \/ Command(c) \/ Timeout(c) \/ Cancel(c)
         \/ SendDone(c) \/ WaitDone(c)
  PROVE  Effect
<1>1. TypeOK
  BY DEF Inv
<1>2. CASE SetParams(c)
  <2>1. CASE \E why : Refuse(c, why)
    BY <1>1, <1>2, <2>1, RefuseBegins DEF Effect, SetParams
  <2>2. CASE ws # 0 /\ \E id \in {NextUuid(c)} \cup UserIds : SendCorrelated(c, id)
    <3>1. PICK id \in {NextUuid(c)} \cup UserIds : SendCorrelated(c, id)
      BY <2>2
    <3>2. PICK at \in Correlated : Send(c, id, "pending", "waiting", "sending", at)
      BY <3>1 DEF SendCorrelated
    <3>3. Begins(c, id, at)
      BY <1>1, <1>2, <2>2, <3>1, <3>2, SendBegins DEF SetParams, SendCorrelated
    <3>4. QED
      BY <3>3 DEF Effect
  <2>3. QED
    BY <1>2, <2>1, <2>2 DEF SetParams
<1>3. CASE Command(c)
  <2>1. CASE \E why : Refuse(c, why)
    BY <1>1, <1>3, <2>1, RefuseBegins DEF Effect, Command
  <2>2. CASE ws # 0 /\ SendCorrelated(c, NextUuid(c))
    <3>1. PICK at \in Correlated :
            Send(c, NextUuid(c), "pending", "waiting", "sending", at)
      BY <2>2 DEF SendCorrelated
    <3>2. Begins(c, NextUuid(c), at)
      BY <1>1, <1>3, <2>2, <3>1, SendBegins DEF Command, SendCorrelated
    <3>3. QED
      BY <3>2 DEF Effect
  <2>3. CASE ws # 0 /\ SendDirect(c)
    <3>1. PICK at \in {"directLoop", "directSending"} :
            Send(c, NoId, "none", "directLoop", "directSending", at)
      BY <2>3 DEF SendDirect
    <3>2. Begins(c, NoId, at)
      BY <1>1, <1>3, <2>3, <3>1, SendBegins DEF Command, SendDirect, Direct
    <3>3. QED
      BY <3>2 DEF Effect
  <2>4. QED
    BY <1>3, <2>1, <2>2, <2>3 DEF Command
<1>4. CASE \E how : Interrupt(c, how)
  <2>1. PICK how, fut : call' = [call EXCEPT ![c].interrupt = how, ![c].fut = fut]
    BY <1>4 DEF Interrupt
  <2> DEFINE rec == [call[c] EXCEPT !.interrupt = how, !.fut = fut]
  <2>2. call' = [call EXCEPT ![c] = rec]
    BY <2>1
  <2>3. /\ rec.id = call[c].id /\ rec.n = call[c].n /\ rec.reply = call[c].reply
        /\ rec.at = call[c].at
    BY <1>1 DEF TypeOK, CallRecord
  <2>4. pending' = pending /\ Reads
    BY <1>4, NoRead DEF Interrupt
  <2>5. Quiet
    <3> HIDE DEF rec
    <3> QED BY <1>1, <2>2, <2>3, <2>4, MoveIsQuiet
  <2>6. QED
    BY <2>5 DEF Effect
<1>5. CASE SendDone(c) \/ WaitDone(c)
  <2>1. conn' = conn /\ Reads /\ call[c].at # "idle"
    BY <1>5, NoRead DEF SendDone, WaitDone
  <2>2. CASE \E how : Finish(c, how, NoReply)
    BY <1>1, <2>1, <2>2, FinishEnds DEF Effect
  <2>3. CASE FutureDone(c)
    BY <2>1, <2>3, FutureDoneEffect
  <2>4. CASE /\ call[c].at = "sending" /\ call' = [call EXCEPT ![c].at = "waiting"]
             /\ pending' = pending
    <3> DEFINE rec == [call[c] EXCEPT !.at = "waiting"]
    <3>1. call' = [call EXCEPT ![c] = rec]
      BY <2>4
    <3>2. /\ rec.id = call[c].id /\ rec.n = call[c].n /\ rec.reply = call[c].reply
          /\ rec.at = "waiting"
      BY <1>1 DEF TypeOK, CallRecord
    <3>3. Quiet
      <4> HIDE DEF rec
      <4> QED BY <1>1, <2>1, <2>4, <3>1, <3>2, MoveIsQuiet DEF Correlated, Direct
    <3>4. QED
      BY <3>3 DEF Effect
  <2>5. QED
    BY <1>5, <2>2, <2>3, <2>4 DEF SendDone, WaitDone
<1>6. QED
  BY <1>2, <1>3, <1>4, <1>5 DEF Timeout, Cancel

LEMMA DirectEffect ==
  ASSUME Inv, NEW c \in Callers,
         DirectResume(c) \/ DirectRead(c) \/ DirectWoken(c)
  PROVE  Effect
<1>1. TypeOK /\ call[c].at \in Direct /\ call[c].ws \in Conns
  BY DEF Inv, TypeOK, CallRecord, Direct, DirectResume, DirectRead, DirectWoken
<1>2. CASE UNCHANGED conn /\ \E how : Finish(c, how, NoReply)
  BY <1>1, <1>2, IdFacts, NoRead, FinishEnds DEF Effect
<1>3. CASE \E k \in Conns : conn[k].inbox # <<>> /\ DirectFrame(c, k)
  BY <1>1, <1>3, DirectFrameEffect
<1>4. CASE /\ UNCHANGED <<pending, conn>>
           /\ \/ call' = [call EXCEPT ![c].at = "directLoop"]
              \/ call' = [call EXCEPT ![c].at = "directRecv", ![c].ws = ws]
  <2>1. PICK rec : /\ call' = [call EXCEPT ![c] = rec] /\ rec.at \in Direct
                   /\ rec.id = call[c].id /\ rec.n = call[c].n
                   /\ rec.reply = call[c].reply
    <3>1. CASE call' = [call EXCEPT ![c].at = "directLoop"]
      <4> WITNESS [call[c] EXCEPT !.at = "directLoop"]
      <4> QED BY <1>1, <3>1 DEF TypeOK, CallRecord, Direct
    <3>2. CASE call' = [call EXCEPT ![c].at = "directRecv", ![c].ws = ws]
      <4> DEFINE rec == [call[c] EXCEPT !.at = "directRecv", !.ws = ws]
      <4>1. call' = [call EXCEPT ![c] = rec]
        BY <3>2
      <4>2. /\ rec.at \in Direct /\ rec.id = call[c].id /\ rec.n = call[c].n
            /\ rec.reply = call[c].reply
        BY <1>1 DEF TypeOK, CallRecord, Direct
      <4> HIDE DEF rec
      <4> QED BY <4>1, <4>2
    <3>3. QED
      BY <1>4, <3>1, <3>2
  <2>2. Quiet
    BY <1>1, <1>4, <2>1, IdFacts, NoRead, MoveIsQuiet
  <2>3. QED
    BY <2>2 DEF Effect
<1>5. QED
  BY <1>1, <1>2, <1>3, <1>4 DEF DirectResume, DirectRead, DirectWoken, Open, TypeOK

LEMMA LoopsEffect ==
  ASSUME Inv, NEW r \in Loops,
         LoopResume(r) \/ LoopRecv(r) \/ LoopWoken(r) \/ LoopCancelled(r)
  PROVE  Effect
<1>1. TypeOK /\ loop[r].ws \in Conns
  BY DEF Inv, TypeOK, LoopRecord
<1>2. CASE UNCHANGED <<call, pending, conn>>
  BY <1>2, NoRead, StandsIsQuiet DEF Effect
<1>3. CASE LoopDisconnected(r)
  BY <1>3, LoopDisconnectedEffect
<1>4. CASE \E k \in Conns : conn[k].inbox # <<>> /\ LoopFrame(r, k)
  BY <1>4, LoopFrameEffect
<1>5. QED
  BY <1>1, <1>2, <1>3, <1>4
     DEF LoopResume, LoopRecv, LoopWoken, LoopCancelled, TypeOK

LEMMA OwnerEffect ==
  ASSUME Inv,
         \/ Connect \/ ConnectFails \/ Connected \/ Disconnect
         \/ Handshake \/ Joined \/ Closed \/ \E t \in Tasks : IoReady(t)
  PROVE  Effect
<1>1. TypeOK /\ UNCHANGED <<call, pending>>
  BY DEF Inv, Connect, ConnectFails, Connected, Disconnect, Handshake, Joined,
         Closed, IoReady
<1>2. Reads
  <2>1. CASE UNCHANGED conn
    BY <2>1, NoRead
  <2>2. CASE \E k \in Conns, s \in {"open", "closed"} :
               conn' = [conn EXCEPT ![k].state = s]
    BY <1>1, <2>2 DEF Reads, TypeOK, ConnRecord
  <2>3. CASE conn[ws].inbox # <<>> /\ ReadOther(ws)
    <3>1. CASE ws \in Conns
      BY <1>1, <2>3, <3>1, ReadOtherReads
    <3>2. CASE ws \notin Conns
      BY <1>1, <2>3, <3>2, NoRead DEF ReadOther, TypeOK
    <3>3. QED
      BY <3>1, <3>2
  <2>4. QED
    BY <1>1, <2>1, <2>2, <2>3
       DEF Connect, ConnectFails, Connected, Disconnect, Handshake, Joined, Closed,
           IoReady, CloseSocket, TypeOK
<1>3. QED
  BY <1>1, <1>2, StandsIsQuiet DEF Effect

LEMMA ServerEffect ==
  ASSUME Inv, NEW k \in Conns,
         \/ Greet(k) \/ ServerCloses(k)
         \/ \E type \in {"ping", "malformed", "not_object"} : Push(k, type)
         \/ \E q \in conn[k].sent : Respond(k, q)
  PROVE  Effect
<1>1. TypeOK
  BY DEF Inv
<1>2. CASE Greet(k) \/ \E type \in {"ping", "malformed", "not_object"} : Push(k, type)
  <2>1. PICK type \in {"connection_established", "ping", "malformed", "not_object"} :
          (Greet(k) /\ type = "connection_established") \/ Push(k, type)
    BY <1>2
  <2> DEFINE f == Plain(type)
  <2>2. f \in Frame /\ f.id = NoId
    BY DEF Plain, Frame
  <2>3. Range(Append(conn[k].inbox, f)) = Range(conn[k].inbox) \cup {f}
    <3>1. conn[k].inbox \in Seq(Frame)
      BY <1>1 DEF TypeOK, ConnRecord
    <3>2. QED
      BY <2>2, <3>1, RangeFacts
  <2>4. \A j \in Conns : /\ conn'[j].sent = conn[j].sent
                         /\ conn'[j].answered = conn[j].answered
                         /\ conn'[j].inbox = IF j = k THEN Append(conn[k].inbox, f)
                                             ELSE conn[j].inbox
    <3>1. CASE Greet(k) /\ type = "connection_established"
      <4>1. conn' = [conn EXCEPT ![k].greeted = TRUE, ![k].inbox = Append(@, f)]
        BY <3>1 DEF Greet
      <4> HIDE DEF f
      <4> QED BY <1>1, <4>1 DEF TypeOK, ConnRecord
    <3>2. CASE Push(k, type)
      <4>1. PICK pinged \in BOOLEAN :
              conn' = [conn EXCEPT ![k].greeted = TRUE, ![k].inbox = Append(@, f),
                                   ![k].pinged = pinged]
        BY <1>1, <3>2 DEF Push, TypeOK, ConnRecord
      <4> HIDE DEF f
      <4> QED BY <1>1, <4>1 DEF TypeOK, ConnRecord
    <3>3. QED
      BY <2>1, <3>1, <3>2
  <2>5. f.re = NoReply
    BY DEF Plain
  <2>6. Receives(k, f)
    <3> HIDE DEF f
    <3> QED BY <2>1, <2>2, <2>3, <2>4, <2>5 DEF Receives, Greet, Push
  <2>7. QED
    BY <2>6 DEF Effect
<1>3. CASE \E q \in conn[k].sent : Respond(k, q)
  <2>1. PICK q \in conn[k].sent : Respond(k, q)
    BY <1>3
  <2> DEFINE f == [type |-> "command_response", id |-> q.id, re |-> q.call]
  <2>2. f \in Frame /\ f.id = q.id /\ f.re = q.call
    BY <1>1 DEF TypeOK, ConnRecord, Request, Frame
  <2>3. Range(Append(conn[k].inbox, f)) = Range(conn[k].inbox) \cup {f}
    <3>1. conn[k].inbox \in Seq(Frame)
      BY <1>1 DEF TypeOK, ConnRecord
    <3>2. QED
      BY <2>2, <3>1, RangeFacts
  <2>4. \A j \in Conns : /\ conn'[j].sent = conn[j].sent
                         /\ conn'[j].answered = conn[j].answered
                                                \cup (IF j = k THEN {q} ELSE {})
                         /\ conn'[j].inbox = IF j = k THEN Append(conn[k].inbox, f)
                                             ELSE conn[j].inbox
    <3> DEFINE rec == [conn[k] EXCEPT !.answered = @ \cup {q}, !.inbox = Append(@, f)]
    <3>1. conn' = [conn EXCEPT ![k] = rec]
      BY <2>1 DEF Respond
    <3>2. /\ rec.sent = conn[k].sent /\ rec.answered = conn[k].answered \cup {q}
          /\ rec.inbox = Append(conn[k].inbox, f)
      <4> HIDE DEF f
      <4> QED BY <1>1 DEF TypeOK, ConnRecord
    <3> HIDE DEF f, rec
    <3> QED BY <1>1, <3>1, <3>2 DEF TypeOK
  <2>5. /\ conn'[k].answered = conn[k].answered \cup {q}
        /\ \A j \in Conns \ {k} : conn'[j].answered = conn[j].answered
    <3> HIDE DEF f
    <3> QED BY <2>4
  <2>6. UNCHANGED <<call, pending>>
    BY <2>1 DEF Respond
  <2>7. Receives(k, f)
    <3> HIDE DEF f
    <3> QED BY <2>2, <2>3, <2>4, <2>5, <2>6 DEF Receives
  <2>8. QED
    BY <2>7 DEF Effect
<1>4. CASE ServerCloses(k)
  <2>1. Reads /\ UNCHANGED <<call, pending>>
    BY <1>1, <1>4 DEF ServerCloses, Reads, TypeOK, ConnRecord
  <2>2. QED
    BY <2>1, StandsIsQuiet DEF Effect
<1>5. QED
  BY <1>2, <1>3, <1>4

LEMMA InitInv == Init => Inv
<1> SUFFICES ASSUME Init PROVE Inv
  OBVIOUS
<1>1. TypeOK
  BY InitType
<1>2. PendingSound /\ PendingComplete /\ OwnReply /\ IdsOwn /\ DirectHasNoId
  BY IdFacts DEF Init, PendingSound, PendingIds, PendingComplete, OwnReply, IdsOwn,
                 DirectHasNoId
<1>3. RequestsOwn /\ FramesOwn /\ FramesAnswered /\ RepliesAnswered
  BY DEF Init, RequestsOwn, FramesOwn, FramesAnswered, RepliesAnswered, Range
<1>4. QED
  BY <1>1, <1>2, <1>3 DEF Inv

LEMMA StepEffect ==
  ASSUME Inv, [Next]_vars
  PROVE  Effect
<1>1. CASE \E c \in Callers :
             \/ SetParams(c) \/ Command(c) \/ Timeout(c) \/ Cancel(c)
             \/ SendDone(c) \/ WaitDone(c)
  BY <1>1, CallsEffect
<1>2. CASE \E c \in Callers : DirectResume(c) \/ DirectRead(c) \/ DirectWoken(c)
  BY <1>2, DirectEffect
<1>3. CASE \E r \in Loops :
             LoopResume(r) \/ LoopRecv(r) \/ LoopWoken(r) \/ LoopCancelled(r)
  BY <1>3, LoopsEffect
<1>4. CASE \/ Connect \/ ConnectFails \/ Connected \/ Disconnect
           \/ Handshake \/ Joined \/ Closed \/ \E t \in Tasks : IoReady(t)
  BY <1>4, OwnerEffect
<1>5. CASE \E k \in Conns :
             \/ Greet(k) \/ ServerCloses(k)
             \/ \E type \in {"ping", "malformed", "not_object"} : Push(k, type)
             \/ \E q \in conn[k].sent : Respond(k, q)
  BY <1>5, ServerEffect
<1>6. CASE UNCHANGED vars
  BY <1>6, NoRead, StandsIsQuiet DEF vars, Effect
<1>7. QED
  BY <1>1, <1>2, <1>3, <1>4, <1>5, <1>6 DEF Next, RunNext

LEMMA StepInv == Inv /\ [Next]_vars => Inv'
<1> SUFFICES ASSUME Inv, [Next]_vars PROVE Inv'
  OBVIOUS
<1>1. TypeOK'
  BY StepType DEF Inv
<1>2. Effect
  BY StepEffect
<1>3. QED
  BY <1>1, <1>2, QuietKeeps, EndsKeeps, ResolvesKeeps, BeginsKeeps, ReceivesKeeps
     DEF Effect

\* Inv holds in every reachable state; the theorems below are its parts.
THEOREM Invariant == Spec => []Inv
  BY InitInv, StepInv, PTL DEF Spec

\* Whichever way a call ends - answer, timeout, cancellation, disconnect, failed
\* send - the `finally` of _send_correlated leaves no stale entry in _pending.
THEOREM PendingIsSound == Spec => []PendingSound
<1>1. Inv => PendingSound
  BY DEF Inv
<1>2. QED
  BY <1>1, Invariant, PTL

\* No caller's pop, under whatever command_id it chose, unregisters a call that
\* is correlated under a uuid.
THEOREM PendingIsComplete == Spec => []PendingComplete
<1>1. Inv => PendingComplete
  BY DEF Inv
<1>2. QED
  BY <1>1, Invariant, PTL

\* A call correlated under a uuid returns the response to that call or none,
\* however late, often or out of order responses arrive on however many
\* connections.
THEOREM RepliesAreOwn == Spec => []OwnReply
<1>1. Inv => OwnReply
  BY DEF Inv
<1>2. QED
  BY <1>1, Invariant, PTL

------------------------------------------------------------------------------
\* ControlStream implements CommandCalls: each effect is a step of CommandCalls or
\* a stutter under the mapping of ControlStream!Promise.

\* The mapping: what each variable of CommandCalls stands for.
InCall   == {c \in Callers : call[c].at # "idle"}
Begun    == [c \in Callers |-> call[c].n]
Accepted == {q.call : q \in UNION {conn[k].sent : k \in Conns}}
Result   == [c \in Callers |-> IF call[c].at = "idle" /\ call[c].id \in Uuids
                               THEN call[c].reply ELSE NoReply]
Mapped   == <<InCall, Begun, Accepted, Answered, Result>>

LEMMA SameAccepted ==
  ASSUME \A k \in Conns : conn'[k].sent = conn[k].sent
  PROVE  Accepted' = Accepted
  BY DEF Accepted

LEMMA QuietStutters ==
  ASSUME Quiet
  PROVE  UNCHANGED Mapped
<1>1. Accepted' = Accepted /\ Answered' = Answered
  BY SameAccepted, SameAnswered DEF Quiet, Reads
<1>2. InCall' = InCall /\ Begun' = Begun /\ Result' = Result
  BY DEF Quiet, Same, InCall, Begun, Result
<1>3. QED
  BY <1>1, <1>2 DEF Mapped

\* The future is the caller's, and its call is not over yet.
LEMMA ResolvesStutters ==
  ASSUME Inv, NEW f, Resolves(f)
  PROVE  UNCHANGED Mapped
<1> DEFINE c == pending[f.id]
<1>1. call[c].at # "idle"
  BY IdFacts DEF Inv, PendingSound, PendingIds, Resolves
<1>2. Accepted' = Accepted /\ Answered' = Answered
  BY SameAccepted, SameAnswered DEF Resolves, Reads
<1>3. \A d \in Callers : /\ call'[d].n = call[d].n /\ call'[d].at = call[d].at
                         /\ call'[d].id = call[d].id
                         /\ d # c => call'[d].reply = call[d].reply
  BY DEF Resolves
<1>4. InCall' = InCall /\ Begun' = Begun /\ Result' = Result
  BY <1>1, <1>3 DEF InCall, Begun, Result
<1>5. QED
  BY <1>2, <1>4 DEF Mapped

\* A reply that is returned under a uuid is the answer to the call itself.
LEMMA EndsReturns ==
  ASSUME Inv, NEW c \in Callers, NEW re, Ends(c, re)
  PROVE  Promise!Return(c)
<1>1. Accepted' = Accepted /\ Answered' = Answered
  BY SameAccepted, SameAnswered DEF Ends, Reads
<1>2. c \in InCall /\ InCall' = InCall \ {c} /\ Begun' = Begun
  BY DEF Ends, InCall, Begun
<1>3. Result[c] = NoReply
  BY <1>2 DEF Result, InCall
<1>4. \A d \in Callers \ {c} : Result'[d] = Result[d]
  BY DEF Ends, Result
<1>5. CASE call[c].id \in Uuids /\ re # NoReply
  <2>1. re = call[c].reply
    BY <1>5, IdFacts DEF Inv, DirectHasNoId, Ends
  <2>2. re = <<c, call[c].n>> /\ re \in Answered
    BY <1>5, <2>1 DEF Inv, OwnReply, IdsOwn, RepliesAnswered
  <2>3. Result' = [Result EXCEPT ![c] = <<c, Begun[c]>>]
    BY ZenonT(30), <1>4, <1>5, <2>2 DEF Result, Begun, Ends
  <2>4. <<c, Begun[c]>> \in Answered
    BY <2>2 DEF Begun
  <2>5. QED
    BY <1>1, <1>2, <2>3, <2>4
       DEF Promise!Return, InCall, Begun, Accepted, Answered, Result
<1>6. CASE ~(call[c].id \in Uuids /\ re # NoReply)
  <2>1. Result'[c] = NoReply
    BY <1>6 DEF Result, Ends
  <2>2. Result' = Result
    BY <1>3, <1>4, <2>1 DEF Result
  <2>3. QED
    BY <1>1, <1>2, <2>2
       DEF Promise!Return, InCall, Begun, Accepted, Answered, Result
<1>7. QED
  BY <1>5, <1>6

LEMMA BeginsBegins ==
  ASSUME Inv, NEW c \in Callers, NEW id, NEW at, Begins(c, id, at)
  PROVE  Promise!Begin(c) \/ Promise!Refuse(c)
<1>1. Answered' = Answered
  BY SameAnswered DEF Begins
<1>2. c \notin InCall /\ Begun[c] < MaxCalls
  BY DEF Begins, InCall, Begun
<1>3. Begun' = [Begun EXCEPT ![c] = @ + 1]
  BY DEF Begins, Begun
<1>4. Result' = [Result EXCEPT ![c] = NoReply]
  BY DEF Begins, Result
<1>5. Promise!Advance(c)
  BY <1>2, <1>3, <1>4
     DEF Promise!Advance, Promise!NoReply, NoReply, InCall, Begun, Result
<1>6. CASE at = "idle"
  <2>1. Accepted' = Accepted
    BY <1>6, SameAccepted DEF Begins
  <2>2. InCall' = InCall
    BY <1>6 DEF Begins, InCall
  <2>3. QED
    BY <1>1, <1>5, <2>1, <2>2 DEF Promise!Refuse, InCall, Accepted, Answered
<1>7. CASE at # "idle"
  <2>1. InCall' = InCall \cup {c}
    BY <1>7 DEF Begins, InCall
  <2>2. Begun'[c] = call[c].n + 1
    BY <1>3 DEF Begun
  <2>3. CASE \A k \in Conns : conn'[k].sent = conn[k].sent
    BY <1>1, <1>5, <2>1, <2>3, SameAccepted
       DEF Promise!Begin, InCall, Accepted, Answered
  <2>4. CASE /\ ws \in Conns
             /\ \A k \in Conns \ {ws} : conn'[k].sent = conn[k].sent
             /\ conn'[ws].sent = conn[ws].sent \cup {[call |-> NextUuid(c), id |-> id]}
    <3> DEFINE q == [call |-> NextUuid(c), id |-> id]
    <3>1. q.call = <<c, Begun'[c]>>
      BY <2>2 DEF NextUuid
    <3>2. UNION {conn'[k].sent : k \in Conns}
            = (UNION {conn[k].sent : k \in Conns}) \cup {q}
      <4> HIDE DEF q
      <4>1. conn'[ws].sent = conn[ws].sent \cup {q}
        BY <2>4 DEF q
      <4>2. QED
        BY <2>4, <4>1
    <3>3. Accepted' = Accepted \cup {q.call}
      <4> HIDE DEF q
      <4> QED BY <3>2 DEF Accepted
    <3>4. Accepted' = Accepted \cup {<<c, Begun'[c]>>}
      BY <3>1, <3>3
    <3>5. QED
      BY <1>1, <1>5, <2>1, <3>4 DEF Promise!Begin, InCall, Begun, Accepted, Answered
  <2>5. QED
    BY <2>3, <2>4 DEF Begins
<1>8. QED
  BY <1>6, <1>7

LEMMA ReceivesAnswers ==
  ASSUME Inv, NEW k \in Conns, NEW f, Receives(k, f)
  PROVE  UNCHANGED Mapped \/ \E q \in Accepted : Promise!Answer(q)
<1>1. Accepted' = Accepted
  BY SameAccepted DEF Receives
<1>2. InCall' = InCall /\ Begun' = Begun /\ Result' = Result
  BY DEF Receives, InCall, Begun, Result
<1>3. CASE conn'[k].answered = conn[k].answered
  BY <1>1, <1>2, <1>3, SameAnswered DEF Receives, Mapped
<1>4. CASE \E q \in conn[k].sent : conn'[k].answered = conn[k].answered \cup {q}
  <2>1. PICK q \in conn[k].sent : conn'[k].answered = conn[k].answered \cup {q}
    BY <1>4
  <2>2. q.call \in Accepted
    BY DEF Accepted
  <2>3. Answered' = Answered \cup {q.call}
    BY <2>1 DEF Answered, Receives
  <2>4. Promise!Answer(q.call)
    BY <1>1, <1>2, <2>2, <2>3
       DEF Promise!Answer, InCall, Begun, Accepted, Answered, Result
  <2>5. QED
    BY <2>2, <2>4
<1>5. QED
  BY <1>3, <1>4 DEF Receives

LEMMA StepImplements ==
  ASSUME Inv, [Next]_vars
  PROVE  [Promise!Next]_Mapped
<1>1. Effect
  BY StepEffect
<1>2. CASE Quiet \/ \E f : Resolves(f)
  BY <1>2, QuietStutters, ResolvesStutters
<1>3. CASE \E c \in Callers : \E re : Ends(c, re)
  BY <1>3, EndsReturns DEF Promise!Next
<1>4. CASE \E c \in Callers : \E id, at : Begins(c, id, at)
  BY <1>4, BeginsBegins DEF Promise!Next
<1>5. CASE \E k \in Conns : \E f : Receives(k, f)
  BY <1>5, ReceivesAnswers DEF Promise!Next, Accepted
<1>6. QED
  BY <1>1, <1>2, <1>3, <1>4, <1>5 DEF Effect

LEMMA InitImplements == Init => Promise!Init
  BY DEF Init, Promise!Init, Promise!NoReply, NoReply

\* CascorControlStream keeps the promise of CommandCalls to its callers: it never
\* retries a request, and what a call correlated under a uuid returns is the
\* server's answer to that very call.
THEOREM Implements == Spec => ImplementsCommandCalls
<1>1. Inv /\ [Next]_vars => [Promise!Next]_Mapped
  BY StepImplements
<1>2. QED
  BY <1>1, InitImplements, Invariant, PTL
     DEF ImplementsCommandCalls, Promise!Spec, Spec, Mapped, InCall, Begun, Accepted,
         Answered, Result

------------------------------------------------------------------------------
\* The recv loop lives as long as its connection

\* The environment of the theorems: no timeout, no cancellation, no transport that
\* makes a sender wait, no bad handshake, and command_ids from uuid4() only.
\* Responses may be late, repeated or missing, frames malformed, and the
\* connection may close at any moment.
Steady ==
  /\ Events \subseteq {"command", "duplicate", "malformed", "close"}
  /\ UserIds = {}

------------------------------------------------------------------------------
\* The inductive invariant

Alive(r) == loop[r].at \notin Dead

\* Nobody is interrupted, and nobody gets to the direct path's read loop.
CallIsCalm(c) ==
  /\ call[c].interrupt = "none"
  /\ \/ call[c].at \in {"idle", "directSending"} /\ call[c].fut = "none"
     \/ /\ call[c].at = "sending" /\ call[c].fut \in {"pending", "exception"}
        /\ call[c].id \in Uuids
     \/ /\ call[c].at = "waiting" /\ call[c].fut \in {"pending", "result", "exception"}
        /\ call[c].id \in Uuids
LoopIsCalm(r) ==
  loop[r].at \in {"absent", "closed", "start", "slept", "recv"} /\ ~loop[r].cancelled
Calm ==
  /\ \A c \in Callers : CallIsCalm(c)
  /\ \A r \in Loops : LoopIsCalm(r)
  /\ owner \in {"idle", "dialing", "handshake"}

\* One connection is used, if any, and its first frame is the server's greeting.
Fresh(k) == conn[k].inbox = <<>> /\ ~conn[k].greeted /\ conn[k].sent = {}
OneConnection ==
  /\ \A k \in Conns : k # ws => conn[k].state = "unused"
  /\ \A k \in Conns : conn[k].state = "unused" => Fresh(k)
  /\ ws # 0 => conn[ws].state # "unused"
  /\ owner = "dialing" => ws = 0
  /\ owner = "handshake" =>
       /\ ws # 0
       /\ conn[ws].greeted <=> conn[ws].inbox # <<>>
       /\ conn[ws].greeted => Head(conn[ws].inbox).type = "connection_established"

\* Before connect() has returned there is neither reader nor call.
NothingYet ==
  ws = 0 \/ owner = "handshake" =>
    /\ \A r \in Loops : ~Alive(r)
    /\ \A c \in Callers : call[c].at = "idle"

\* Then the recv task is the one reader, as long as the connection is open.
OneReader ==
  /\ \A r \in Loops : Alive(r) => r = recvTask
  /\ \A r \in Loops : loop[r].at = "recv" => loop[r].ws = ws
  /\ Open(ws) /\ owner = "idle" => LoopAlive

\* A call is on the connection; what could not be sent at once never is.
Senders ==
  \A c \in Callers :
    /\ call[c].at # "idle" => call[c].ws = ws
    /\ call[c].at \in {"sending", "directSending"} => ~Open(ws)

\* An id on the wire is not one of a call still to come.
Past(id) == \A c \in Callers, i \in 1..MaxCalls : id = <<c, i>> => i <= call[c].n
IdsPast ==
  \A k \in Conns : /\ \A q \in conn[k].sent : Past(q.id)
                   /\ \A f \in Range(conn[k].inbox) : Past(f.id)

\* Every frame is a JSON object, or no JSON at all.
Objects == \A k \in Conns : \A f \in Range(conn[k].inbox) : f.type # "not_object"

\* Nothing answers a call that could not be sent.
Unsent ==
  \A c \in Callers : call[c].at = "sending" =>
    \A k \in Conns : \A f \in Range(conn[k].inbox) : f.id # call[c].id

\* The loop fails futures when there is nothing left to read.
Failed ==
  \A c \in Callers : call[c].fut = "exception" =>
    ws # 0 /\ ~Open(ws) /\ conn[ws].inbox = <<>>

\* The queue: who is in it has something to go on with.
Due(t) ==
  \/ t \in Callers /\ \/ call[t].at \in {"sending", "directSending"}
                      \/ call[t].at = "waiting" /\ call[t].fut # "pending"
  \/ t \in Loops /\ \/ loop[t].at \in {"start", "slept"}
                    \/ loop[t].at = "recv" /\ CanRead(ws)
  \/ t = Owner /\ owner = "handshake" /\ CanRead(ws)
QueueIsDue == IsInjective(ready) /\ \A t \in Range(ready) : Due(t)

\* A caller whose future is resolved comes before the loop, which sleeps.
Before(q, s, t) == \E i, j \in DOMAIN q : q[i] = s /\ q[j] = t /\ i < j
ResolvedFirst ==
  \A c \in Callers : call[c].fut = "result" =>
    LoopAlive /\ loop[recvTask].at = "slept" /\ Before(ready, c, recvTask)

SteadyInv ==
  /\ Calm /\ OneConnection /\ NothingYet /\ OneReader /\ Senders
  /\ IdsPast /\ Objects /\ Unsent /\ Failed /\ WaiterHasReader
  /\ QueueIsDue /\ ResolvedFirst

------------------------------------------------------------------------------
\* Queues

LEMMA AppendQueue ==
  ASSUME NEW S, NEW q \in Seq(S), NEW t \in S, IsInjective(q), t \notin Range(q)
  PROVE  /\ IsInjective(Append(q, t)) /\ Range(Append(q, t)) = Range(q) \cup {t}
         /\ \A a, b : Before(q, a, b) => Before(Append(q, t), a, b)
         /\ \A a \in Range(q) : Before(Append(q, t), a, t)
<1>1. /\ Len(q) \in Nat /\ DOMAIN q = 1..Len(q)
      /\ DOMAIN Append(q, t) = 1..(Len(q) + 1)
      /\ \A i \in 1..Len(q) : Append(q, t)[i] = q[i]
      /\ Append(q, t)[Len(q) + 1] = t
  OBVIOUS
<1>2. \A i \in DOMAIN q : q[i] # t
  BY DEF Range
<1>3. IsInjective(Append(q, t))
  BY <1>1, <1>2 DEF IsInjective
<1>4. Range(Append(q, t)) = Range(q) \cup {t}
  BY RangeFacts
<1>5. \A a, b : Before(q, a, b) => Before(Append(q, t), a, b)
  BY <1>1 DEF Before
<1>6. \A a \in Range(q) : Before(Append(q, t), a, t)
  BY <1>1 DEF Before, Range
<1>7. QED
  BY <1>3, <1>4, <1>5, <1>6

LEMMA TailQueue ==
  ASSUME NEW S, NEW q \in Seq(S), q # <<>>, IsInjective(q)
  PROVE  /\ Tail(q) \in Seq(S) /\ IsInjective(Tail(q))
         /\ Head(q) \in Range(q) /\ Range(Tail(q)) = Range(q) \ {Head(q)}
         /\ \A a, b : Before(q, a, b) => b # Head(q)
         /\ \A a, b : Before(q, a, b) /\ a # Head(q) => Before(Tail(q), a, b)
<1>1. /\ Len(q) \in Nat /\ Len(q) > 0 /\ DOMAIN q = 1..Len(q)
      /\ Tail(q) \in Seq(S) /\ DOMAIN Tail(q) = 1..(Len(q) - 1) /\ Head(q) = q[1]
      /\ \A i \in 1..(Len(q) - 1) : Tail(q)[i] = q[i + 1]
  OBVIOUS
<1>2. IsInjective(Tail(q))
  BY <1>1 DEF IsInjective
<1>3. Head(q) \in Range(q)
  BY <1>1 DEF Range
<1>4. Range(Tail(q)) = Range(q) \ {Head(q)}
  <2>1. Range(Tail(q)) \subseteq Range(q) \ {Head(q)}
    <3> SUFFICES ASSUME NEW i \in 1..(Len(q) - 1)
                 PROVE  Tail(q)[i] \in Range(q) \ {Head(q)}
      BY <1>1 DEF Range
    <3>1. i + 1 \in DOMAIN q /\ 1 \in DOMAIN q /\ i + 1 # 1
      BY <1>1
    <3>2. QED
      BY <1>1, <3>1 DEF Range, IsInjective
  <2>2. Range(q) \ {Head(q)} \subseteq Range(Tail(q))
    <3> SUFFICES ASSUME NEW i \in 1..Len(q), q[i] # Head(q)
                 PROVE  q[i] \in Range(Tail(q))
      BY <1>1 DEF Range
    <3>1. i - 1 \in 1..(Len(q) - 1) /\ (i - 1) + 1 = i
      BY <1>1
    <3>2. QED
      BY <1>1, <3>1 DEF Range
  <2>3. QED
    BY <2>1, <2>2
<1>5. ASSUME NEW a, NEW b, Before(q, a, b)
      PROVE  b # Head(q) /\ (a # Head(q) => Before(Tail(q), a, b))
  <2>1. PICK i \in DOMAIN q, j \in DOMAIN q : q[i] = a /\ q[j] = b /\ i < j
    BY <1>5 DEF Before
  <2>2. b # Head(q)
    BY <1>1, <2>1 DEF IsInjective
  <2>3. ASSUME a # Head(q)
        PROVE  Before(Tail(q), a, b)
    <3>1. i - 1 \in 1..(Len(q) - 1) /\ j - 1 \in 1..(Len(q) - 1) /\ i - 1 < j - 1
      BY <1>1, <2>1, <2>3
    <3>2. Tail(q)[i - 1] = a /\ Tail(q)[j - 1] = b
      BY <1>1, <2>1, <3>1
    <3>3. QED
      BY <1>1, <3>1, <3>2 DEF Before
  <2>4. QED
    BY <2>2, <2>3
<1>6. QED
  BY <1>1, <1>2, <1>3, <1>4, <1>5

LEMMA ConcatQueue ==
  ASSUME NEW S, NEW q \in Seq(S), NEW p \in Seq(S), IsInjective(q), IsInjective(p),
         Range(q) \cap Range(p) = {}
  PROVE  IsInjective(q \o p) /\ Range(q \o p) = Range(q) \cup Range(p)
<1>1. /\ Len(q) \in Nat /\ DOMAIN q = 1..Len(q) /\ Len(p) \in Nat /\ DOMAIN p = 1..Len(p)
      /\ DOMAIN (q \o p) = 1..(Len(q) + Len(p))
      /\ \A i \in 1..Len(q) : (q \o p)[i] = q[i]
      /\ \A i \in 1..(Len(q) + Len(p)) : i > Len(q) => (q \o p)[i] = p[i - Len(q)]
  OBVIOUS
<1>2. \A i \in 1..Len(q), j \in 1..Len(p) : q[i] # p[j]
  BY <1>1 DEF Range
<1>3. IsInjective(q \o p)
  <2> SUFFICES ASSUME NEW i \in 1..(Len(q) + Len(p)), NEW j \in 1..(Len(q) + Len(p)),
                      (q \o p)[i] = (q \o p)[j]
               PROVE  i = j
    BY <1>1 DEF IsInjective
  <2>1. CASE i <= Len(q) /\ j <= Len(q)
    BY <1>1, <2>1 DEF IsInjective
  <2>2. CASE i > Len(q) /\ j > Len(q)
    <3>1. i - Len(q) \in 1..Len(p) /\ j - Len(q) \in 1..Len(p)
      BY <1>1, <2>2
    <3>2. p[i - Len(q)] = p[j - Len(q)]
      BY <1>1, <2>2
    <3>3. i - Len(q) = j - Len(q)
      BY <1>1, <3>1, <3>2 DEF IsInjective
    <3>4. QED
      BY <1>1, <3>3
  <2>3. CASE i <= Len(q) /\ j > Len(q)
    <3>1. i \in 1..Len(q) /\ j - Len(q) \in 1..Len(p)
      BY <1>1, <2>3
    <3>2. QED
      BY <1>1, <1>2, <2>3, <3>1
  <2>4. CASE i > Len(q) /\ j <= Len(q)
    <3>1. j \in 1..Len(q) /\ i - Len(q) \in 1..Len(p)
      BY <1>1, <2>4
    <3>2. QED
      BY <1>1, <1>2, <2>4, <3>1
  <2>5. QED
    BY <1>1, <2>1, <2>2, <2>3, <2>4
<1>4. Range(q \o p) = Range(q) \cup Range(p)
  <2>1. ASSUME NEW i \in 1..(Len(q) + Len(p))
        PROVE  (q \o p)[i] \in Range(q) \cup Range(p)
    <3>1. CASE i <= Len(q)
      BY <1>1, <3>1 DEF Range
    <3>2. CASE i > Len(q)
      <4>1. i - Len(q) \in 1..Len(p)
        BY <1>1, <3>2
      <4>2. QED
        BY <1>1, <3>2, <4>1 DEF Range
    <3>3. QED
      BY <1>1, <3>1, <3>2
  <2>2. ASSUME NEW j \in 1..Len(p)
        PROVE  p[j] \in Range(q \o p)
    <3>1. Len(q) + j \in 1..(Len(q) + Len(p)) /\ (Len(q) + j) - Len(q) = j /\ Len(q) + j > Len(q)
      BY <1>1
    <3>2. (q \o p)[Len(q) + j] = p[j]
      BY <1>1, <3>1
    <3>3. QED
      BY <1>1, <3>1, <3>2 DEF Range
  <2>3. Range(q) \subseteq Range(q \o p)
    BY <1>1 DEF Range
  <2>4. Range(p) \subseteq Range(q \o p)
    BY <1>1, <2>2 DEF Range
  <2>5. Range(q \o p) \subseteq Range(q) \cup Range(p)
    <3>1. ASSUME NEW e \in Range(q \o p)
          PROVE  \E i \in 1..(Len(q) + Len(p)) : e = (q \o p)[i]
      BY <1>1 DEF Range
    <3>2. QED
      BY <2>1, <3>1
  <2>6. QED
    BY <2>3, <2>4, <2>5
<1>5. QED
  BY <1>3, <1>4

------------------------------------------------------------------------------
\* Where a steady object stands

LEMMA Kinds ==
  /\ Owner \notin Callers /\ Owner \notin Loops /\ 0 \notin Loops /\ 0 \notin Conns
  /\ \A c \in Callers : c \notin Loops
  BY ControlStreamAssumption DEF Loops, Conns

\* The first of the queue is due, is in it once, and follows nobody.
LEMMA HeadOfQueue ==
  ASSUME TypeOK, QueueIsDue, ready # <<>>
  PROVE  /\ Due(Head(ready)) /\ Rest \in Seq(Tasks) /\ IsInjective(Rest)
         /\ \A t \in Range(Rest) : t # Head(ready) /\ Due(t)
         /\ \A a, b : Before(ready, a, b) => b # Head(ready)
         /\ \A a, b : Before(ready, a, b) /\ a # Head(ready) => Before(Rest, a, b)
<1>1. ready \in Seq(Tasks) /\ IsInjective(ready)
  BY DEF TypeOK, QueueIsDue
<1>2. QED
  BY <1>1, TailQueue DEF QueueIsDue, Rest

\* A loop whose turn it is is the recv task; nobody else is at a future it
\* resolved, and connect() is over.
LEMMA LoopTurn ==
  ASSUME Inv, SteadyInv, NEW r \in Loops, Turn(r)
  PROVE  /\ loop[r].at \in {"start", "slept", "recv"} /\ r = recvTask /\ ~loop[r].cancelled
         /\ loop[r].at = "recv" => loop[r].ws = ws /\ CanRead(ws)
         /\ LoopAlive /\ owner = "idle" /\ ws \in Conns
         /\ \A c \in Callers : call[c].fut # "result"
<1>1. TypeOK /\ ready # <<>> /\ Head(ready) = r
  BY DEF Inv, Turn
<1>2. Due(r)
  BY <1>1, HeadOfQueue DEF SteadyInv
<1>3. /\ loop[r].at \in {"start", "slept", "recv"}
      /\ loop[r].at = "recv" => CanRead(ws)
  BY <1>2, Kinds DEF Due
<1>4. Alive(r)
  BY <1>3 DEF Alive, Dead
<1>5. r = recvTask /\ ~loop[r].cancelled /\ (loop[r].at = "recv" => loop[r].ws = ws)
  BY <1>4 DEF SteadyInv, OneReader, Calm, LoopIsCalm
<1>6. LoopAlive
  BY <1>4, <1>5, Kinds DEF LoopAlive, Alive
<1>7. owner = "idle" /\ ws \in Conns
  BY <1>1, <1>4 DEF SteadyInv, NothingYet, Calm, OneConnection, TypeOK
<1>8. \A c \in Callers : call[c].fut # "result"
  BY <1>1, <1>5, HeadOfQueue DEF SteadyInv, ResolvedFirst
<1>9. QED
  BY <1>3, <1>5, <1>6, <1>7, <1>8

\* recv() meets no other reader.
LEMMA NotReading ==
  ASSUME Inv, SteadyInv, NEW r \in Loops, Turn(r), loop[r].at = "slept"
  PROVE  ~Reading(ws)
<1>1. \A s \in Loops : loop[s].at # "recv"
  BY LoopTurn DEF SteadyInv, OneReader, Alive, Dead
<1>2. \A c \in Callers : call[c].at # "directRecv"
  BY DEF SteadyInv, Calm, CallIsCalm
<1>3. owner # "handshake"
  BY LoopTurn
<1>4. QED
  BY <1>1, <1>2, <1>3 DEF Reading

------------------------------------------------------------------------------
\* The invariant survives the environment

\* A task made ready is due.
LEMMA IoReadyKeeps ==
  ASSUME Inv, SteadyInv, NEW t \in Tasks, IoReady(t)
  PROVE  SteadyInv'
<1>1. /\ TypeOK /\ ready \in Seq(Tasks) /\ IsInjective(ready) /\ t \notin Range(ready)
      /\ ready' = Append(ready, t)
  BY DEF Inv, TypeOK, SteadyInv, QueueIsDue, IoReady, Queued
<1>2. Due(t)
  BY DEF IoReady, BlockedOnIo, Due, SteadyInv, OneReader, Calm, CallIsCalm, LoopIsCalm
<1>3. QueueIsDue' /\ ResolvedFirst'
  <2>1. /\ IsInjective(ready') /\ Range(ready') = Range(ready) \cup {t}
        /\ \A a, b : Before(ready, a, b) => Before(ready', a, b)
    BY <1>1, AppendQueue
  <2>2. QueueIsDue'
    BY <1>2, <2>1 DEF SteadyInv, QueueIsDue, Due, CanRead, Open, IoReady
  <2>3. ResolvedFirst'
    BY <2>1 DEF SteadyInv, ResolvedFirst, LoopAlive, IoReady
  <2>4. QED
    BY <2>2, <2>3
<1>4. Calm' /\ OneConnection' /\ NothingYet' /\ OneReader' /\ Senders'
  BY DEF SteadyInv, Calm, CallIsCalm, LoopIsCalm, OneConnection, Fresh, NothingYet,
         Alive, OneReader, LoopAlive, Open, Senders, IoReady
<1>5. IdsPast' /\ Objects' /\ Unsent' /\ Failed' /\ WaiterHasReader'
  BY DEF SteadyInv, IdsPast, Past, Objects, Unsent, Failed, Open, WaiterHasReader,
         LoopAlive, IoReady
<1>6. QED
  BY <1>3, <1>4, <1>5 DEF SteadyInv

\* Frame f reaches the inbox, and greets if it is the first.
Arrives(f) ==
  /\ conn'[ws].state = "open" /\ conn'[ws].greeted
  /\ conn'[ws].inbox = Append(conn[ws].inbox, f)
  /\ f \in Frame /\ Past(f.id) /\ f.type # "not_object"
  /\ conn[ws].greeted \/ f.type = "connection_established"
Closes == /\ conn'[ws].state = "closed" /\ conn'[ws].inbox = conn[ws].inbox
          /\ conn'[ws].greeted = conn[ws].greeted

\* The inbox grows or the connection closes: who could read still can.
LEMMA ServerKeeps ==
  ASSUME Inv, SteadyInv, Open(ws),
         UNCHANGED <<ws, recvTask, ready, loop, call, owner>>,
         \A j \in Conns \ {ws} : conn'[j] = conn[j],
         conn'[ws].sent = conn[ws].sent,
         Closes \/ \E f : Arrives(f)
  PROVE  SteadyInv'
<1>1. ws \in Conns /\ ws # 0 /\ conn[ws].state = "open" /\ conn[ws].inbox \in Seq(Frame)
  BY DEF Inv, TypeOK, ConnRecord, Open
<1>2. /\ conn'[ws].state # "unused"
      /\ conn'[ws].inbox = <<>> => conn[ws].inbox = <<>>
      /\ \/ Range(conn'[ws].inbox) = Range(conn[ws].inbox)
         \/ \E f : /\ Range(conn'[ws].inbox) = Range(conn[ws].inbox) \cup {f}
                   /\ Past(f.id) /\ f.type # "not_object"
  <2>1. CASE Closes
    BY <2>1 DEF Closes
  <2>2. ASSUME NEW f, Arrives(f)
        PROVE  /\ Range(conn'[ws].inbox) = Range(conn[ws].inbox) \cup {f}
               /\ conn'[ws].inbox # <<>>
    BY <1>1, <2>2, RangeFacts DEF Arrives
  <2>3. QED
    BY <2>1, <2>2 DEF Arrives
<1>3. Calm' /\ NothingYet'
  BY DEF SteadyInv, Calm, CallIsCalm, LoopIsCalm, NothingYet, Alive
<1>4. OneConnection'
  <2>1. ASSUME owner = "handshake"
        PROVE  /\ conn'[ws].greeted <=> conn'[ws].inbox # <<>>
               /\ conn'[ws].greeted => Head(conn'[ws].inbox).type = "connection_established"
    <3>1. /\ conn[ws].greeted <=> conn[ws].inbox # <<>>
          /\ conn[ws].greeted => Head(conn[ws].inbox).type = "connection_established"
      BY <2>1 DEF SteadyInv, OneConnection
    <3>2. CASE Closes
      BY <3>1, <3>2 DEF Closes
    <3>3. ASSUME NEW f, Arrives(f)
          PROVE  /\ conn'[ws].greeted /\ conn'[ws].inbox # <<>>
                 /\ Head(conn'[ws].inbox).type = "connection_established"
      <4>1. CASE conn[ws].inbox = <<>>
        BY <1>1, <3>1, <3>3, <4>1 DEF Arrives
      <4>2. CASE conn[ws].inbox # <<>>
        BY <1>1, <3>1, <3>3, <4>2 DEF Arrives
      <4>3. QED
        BY <4>1, <4>2
    <3>4. QED
      BY <3>2, <3>3
  <2>2. QED
    BY <1>1, <1>2, <2>1 DEF SteadyInv, OneConnection, Fresh
<1>5. OneReader' /\ Senders'
  BY <1>1 DEF SteadyInv, OneReader, Senders, Alive, LoopAlive, Open
<1>6. IdsPast' /\ Objects'
  BY <1>2 DEF SteadyInv, IdsPast, Objects, Past
<1>7. Unsent' /\ Failed' /\ WaiterHasReader'
  BY DEF SteadyInv, Senders, Unsent, Failed, WaiterHasReader, LoopAlive
<1>8. QueueIsDue' /\ ResolvedFirst'
  <2>1. CanRead(ws) => CanRead(ws)'
    BY <1>1, <1>2 DEF CanRead, Open
  <2>2. \A t : Due(t) => Due(t)'
    BY <2>1 DEF Due
  <2>3. QED
    BY <2>2 DEF SteadyInv, QueueIsDue, ResolvedFirst, LoopAlive
<1>9. QED
  BY <1>3, <1>4, <1>5, <1>6, <1>7, <1>8 DEF SteadyInv

\* The id of a plain frame names no call.
LEMMA PlainFacts ==
  ASSUME NEW type \in {"connection_established", "ping", "malformed"}
  PROVE  /\ Plain(type) \in Frame /\ Past(Plain(type).id)
         /\ Plain(type).type = type
<1>1. \A c \in Callers, i \in 1..MaxCalls : NoId # <<c, i>>
  BY IdFacts DEF Uuids
<1>2. QED
  BY <1>1 DEF Plain, Frame, Past

LEMMA ConnectionsKeep ==
  ASSUME Steady, Inv, SteadyInv, NEW k \in Conns,
         \/ Greet(k) \/ ServerCloses(k)
         \/ \E type \in {"ping", "malformed", "not_object"} : Push(k, type)
         \/ \E q \in conn[k].sent : Respond(k, q)
  PROVE  SteadyInv'
<1>1. conn \in [Conns -> ConnRecord]
  BY DEF Inv, TypeOK
<1>2. conn[k] \in ConnRecord /\ Open(k)
  BY <1>1 DEF Greet, ServerCloses, Push, Respond
<1>3. k = ws
  BY <1>2 DEF SteadyInv, OneConnection, Open
<1>4. CASE Greet(k)
  <2> DEFINE f == Plain("connection_established")
  <2>1. Arrives(f)
    BY <1>1, <1>2, <1>3, <1>4, PlainFacts DEF Greet, Arrives, Open, ConnRecord
  <2>2. QED
    BY <1>1, <1>2, <1>3, <1>4, <2>1, ServerKeeps DEF Greet, ConnRecord
<1>5. CASE ServerCloses(k)
  <2>1. Closes
    BY <1>1, <1>2, <1>3, <1>5 DEF ServerCloses, Closes, ConnRecord
  <2>2. QED
    BY <1>1, <1>2, <1>3, <1>5, <2>1, ServerKeeps DEF ServerCloses, ConnRecord
<1>6. ASSUME NEW type \in {"ping", "malformed", "not_object"}, Push(k, type)
      PROVE  SteadyInv'
  <2>1. type \in {"ping", "malformed"} /\ conn[k].greeted
    BY <1>6 DEF Push, Steady
  <2>2. Arrives(Plain(type))
    BY <1>1, <1>2, <1>3, <1>6, <2>1, PlainFacts DEF Push, Arrives, Open, ConnRecord
  <2>3. QED
    BY <1>1, <1>2, <1>3, <1>6, <2>2, ServerKeeps DEF Push, ConnRecord
<1>7. ASSUME NEW q \in conn[k].sent, Respond(k, q)
      PROVE  SteadyInv'
  <2> DEFINE f == [type |-> "command_response", id |-> q.id, re |-> q.call]
  <2>1. q \in Request
    BY <1>2 DEF ConnRecord
  <2>2. f \in Frame /\ Past(f.id)
    BY <2>1 DEF Request, Frame, SteadyInv, IdsPast
  <2>3. /\ conn'[ws].state = conn[ws].state /\ conn'[ws].greeted = conn[ws].greeted
        /\ conn'[ws].inbox = Append(conn[ws].inbox, f)
        /\ conn'[ws].sent = conn[ws].sent
        /\ \A j \in Conns \ {ws} : conn'[j] = conn[j]
    BY <1>1, <1>2, <1>3, <1>7 DEF Respond, ConnRecord
  <2>4. Arrives(f)
    BY <1>2, <1>3, <1>7, <2>2, <2>3 DEF Arrives, Open, Respond
  <2>5. QED
    <3> HIDE DEF f
    <3> QED BY <1>2, <1>3, <1>7, <2>3, <2>4, ServerKeeps DEF Respond
<1>8. QED
  BY <1>4, <1>5, <1>6, <1>7

------------------------------------------------------------------------------
\* The invariant survives connect()

LEMMA ConnectKeeps ==
  ASSUME Steady, Inv, SteadyInv, Connect
  PROVE  SteadyInv'
<1>1. /\ ws = 0 /\ owner = "idle" /\ owner' = "dialing"
      /\ UNCHANGED <<ws, recvTask, pending, ready, loop, call, conn, pushes>>
  BY DEF Steady, Connect
<1>2. Calm' /\ OneConnection' /\ NothingYet' /\ OneReader' /\ Senders'
  BY <1>1 DEF SteadyInv, Calm, CallIsCalm, LoopIsCalm, OneConnection, Fresh, NothingYet,
         Alive, OneReader, LoopAlive, Open, Senders
<1>3. IdsPast' /\ Objects' /\ Unsent' /\ Failed' /\ WaiterHasReader'
  BY <1>1 DEF SteadyInv, IdsPast, Past, Objects, Unsent, Failed, Open, WaiterHasReader,
         LoopAlive
<1>4. QueueIsDue' /\ ResolvedFirst'
  BY <1>1 DEF SteadyInv, QueueIsDue, Due, CanRead, Open, ResolvedFirst, LoopAlive
<1>5. QED
  BY <1>2, <1>3, <1>4 DEF SteadyInv

LEMMA ConnectedKeeps ==
  ASSUME Inv, SteadyInv, Connected
  PROVE  SteadyInv'
<1>1. conn \in [Conns -> ConnRecord]
  BY DEF Inv, TypeOK
<1>2. /\ ws = 0 /\ owner = "dialing" /\ owner' = "handshake"
      /\ UNCHANGED <<recvTask, pending, ready, loop, call, pushes>>
  BY DEF SteadyInv, OneConnection, Connected
<1>3. PICK k \in Conns : /\ ws' = k /\ conn[k].state = "unused"
                         /\ conn' = [conn EXCEPT ![k].state = "open"]
  BY DEF Connected
<1>4. \A j \in Conns : /\ conn'[j].inbox = conn[j].inbox /\ conn'[j].sent = conn[j].sent
                       /\ conn'[j].greeted = conn[j].greeted
                       /\ conn'[j].state = IF j = k THEN "open" ELSE conn[j].state
  BY <1>1, <1>3 DEF ConnRecord
<1>5. /\ \A r \in Loops : ~Alive(r)
      /\ \A c \in Callers : call[c].at = "idle" /\ call[c].fut = "none"
  BY <1>2 DEF SteadyInv, NothingYet, Calm, CallIsCalm
<1>6. Range(ready) = {}
  <2>1. \A t : ~Due(t)
    BY <1>2, <1>5 DEF Due, Alive, Dead
  <2>2. QED
    BY <2>1 DEF SteadyInv, QueueIsDue
<1>7. Calm' /\ NothingYet' /\ Senders'
  BY <1>2, <1>5 DEF SteadyInv, Calm, CallIsCalm, LoopIsCalm, NothingYet, Alive, Senders
<1>8. OneConnection'
  BY <1>2, <1>3, <1>4, Kinds DEF SteadyInv, OneConnection, Fresh
<1>9. OneReader'
  BY <1>2, <1>5 DEF OneReader, Alive, Dead
<1>10. IdsPast' /\ Objects'
  BY <1>2, <1>4 DEF SteadyInv, IdsPast, Past, Objects
<1>11. Unsent' /\ Failed' /\ WaiterHasReader' /\ ResolvedFirst'
  BY <1>2, <1>5 DEF Unsent, Failed, WaiterHasReader, ResolvedFirst
<1>12. QueueIsDue'
  BY <1>2, <1>6 DEF SteadyInv, QueueIsDue
<1>13. QED
  BY <1>7, <1>8, <1>9, <1>10, <1>11, <1>12 DEF SteadyInv

\* The inbox of connection k loses its first frame.
Pops(k) ==
  \A j \in Conns : /\ conn'[j].state = conn[j].state /\ conn'[j].greeted = conn[j].greeted
                   /\ conn'[j].sent = conn[j].sent
                   /\ j # k => conn'[j].inbox = conn[j].inbox
                   /\ conn[j].inbox = <<>> => conn'[j].inbox = <<>>
                   /\ Range(conn'[j].inbox) \subseteq Range(conn[j].inbox)

LEMMA ReadOtherPops ==
  ASSUME TypeOK, NEW k \in Conns, conn[k].inbox # <<>>, ReadOther(k)
  PROVE  Pops(k)
  BY InboxRange DEF TypeOK, ConnRecord, ReadOther, Pops

LEMMA ReadPingPops ==
  ASSUME TypeOK, NEW k \in Conns, conn[k].inbox # <<>>, ReadPing(k)
  PROVE  Pops(k)
<1> DEFINE read == [conn EXCEPT ![k].inbox = Tail(@)]
<1>1. /\ \A j \in Conns : /\ read[j].state = conn[j].state
                          /\ read[j].greeted = conn[j].greeted
                          /\ read[j].sent = conn[j].sent
                          /\ j # k => read[j].inbox = conn[j].inbox
                          /\ conn[j].inbox = <<>> => read[j].inbox = <<>>
                          /\ Range(read[j].inbox) \subseteq Range(conn[j].inbox)
      /\ DOMAIN read = Conns
      /\ \A j \in Conns : {"state", "greeted", "sent", "inbox"} \subseteq DOMAIN read[j]
  BY InboxRange DEF TypeOK, ConnRecord
<1>2. conn' = read \/ conn' = [read EXCEPT ![ws].pinged = FALSE]
  BY DEF ReadPing
<1>3. \A j \in Conns : /\ conn'[j].state = read[j].state
                       /\ conn'[j].greeted = read[j].greeted
                       /\ conn'[j].sent = read[j].sent
                       /\ conn'[j].inbox = read[j].inbox
  <2> HIDE DEF read
  <2> QED BY <1>1, <1>2
<1>4. QED
  <2> HIDE DEF read
  <2> QED BY <1>1, <1>3 DEF Pops

\* What survives a frame being read, or no step of the connections at all.
LEMMA PopsKeeps ==
  ASSUME Inv, SteadyInv, UNCHANGED <<ws, owner>>, NEW k, Pops(k),
         owner # "handshake",
         \A c \in Callers : call'[c].n = call[c].n
  PROVE  OneConnection' /\ IdsPast' /\ Objects' /\ (Open(ws)' <=> Open(ws))
<1>1. OneConnection'
  <2>1. \A j \in Conns : Fresh(j) => Fresh(j)'
    BY DEF Fresh, Pops
  <2>2. QED
    BY <2>1 DEF SteadyInv, OneConnection, Pops, Inv, TypeOK
<1>2. IdsPast' /\ Objects'
  BY DEF SteadyInv, IdsPast, Past, Objects, Pops
<1>3. Open(ws)' <=> Open(ws)
  BY DEF Open, Pops, Inv, TypeOK
<1>4. QED
  BY <1>1, <1>2, <1>3

\* The recv task is started, or is there already; q is the queue then.
LEMMA Ensured ==
  ASSUME Inv, SteadyInv, NEW q \in Seq(Tasks), IsInjective(q), EnsureRecvTask(q), ws' = ws,
         \A t \in Range(q) : Due(t)
  PROVE  /\ LoopAlive' /\ IsInjective(ready')
         /\ \A r \in Loops : LoopIsCalm(r)' /\ (Alive(r)' => r = recvTask')
         /\ \A r \in Loops : loop'[r].at = "recv" => loop'[r].ws = ws
         /\ \/ UNCHANGED <<recvTask, loop>> /\ ready' = q /\ LoopAlive
            \/ /\ ~LoopAlive /\ loop'[recvTask'].at = "start" /\ recvTask' \in Loops
               /\ Range(ready') = Range(q) \cup {recvTask'}
               /\ \A s \in Loops \ {recvTask'} : loop'[s] = loop[s]
<1>1. loop \in [Loops -> LoopRecord]
  BY DEF Inv, TypeOK
<1>2. /\ \A r \in Loops : LoopIsCalm(r) /\ (Alive(r) => r = recvTask)
      /\ \A r \in Loops : loop[r].at = "recv" => loop[r].ws = ws
  BY DEF SteadyInv, Calm, OneReader
<1>3. CASE LoopAlive
  BY <1>2, <1>3 DEF EnsureRecvTask, LoopAlive, LoopIsCalm, Alive
<1>4. CASE ~LoopAlive
  <2>1. PICK r \in Loops : /\ loop[r].at \in Dead /\ recvTask' = r
                           /\ loop' = [loop EXCEPT ![r].at = "start"]
                           /\ ready' = Append(q, r)
    BY <1>4 DEF EnsureRecvTask
  <2>2. \A s \in Loops : /\ loop'[s].at = IF s = r THEN "start" ELSE loop[s].at
                         /\ loop'[s].ws = loop[s].ws
                         /\ loop'[s].cancelled = loop[s].cancelled
                         /\ s # r => loop'[s] = loop[s]
    BY <1>1, <2>1 DEF LoopRecord
  <2>3. \A s \in Loops : ~Alive(s)
    BY <1>2, <1>4, Kinds DEF LoopAlive, Alive
  <2>4. r \notin Range(q) /\ r \in Tasks
    BY <2>1, <2>3, Kinds DEF Due, Tasks, Alive, Dead
  <2>5. IsInjective(ready') /\ Range(ready') = Range(q) \cup {r}
    BY <2>1, <2>4, AppendQueue
  <2>6. LoopAlive'
    BY <2>1, <2>2, Kinds DEF LoopAlive, Dead
  <2>7. \A s \in Loops : LoopIsCalm(s)' /\ (Alive(s)' => s = recvTask')
    BY <1>2, <2>1, <2>2, <2>3 DEF LoopIsCalm, Alive
  <2>8. \A s \in Loops : loop'[s].at = "recv" => loop'[s].ws = ws
    BY <1>2, <2>2
  <2>9. QED
    BY <1>4, <2>1, <2>2, <2>5, <2>6, <2>7, <2>8
<1>5. QED
  BY <1>3, <1>4

LEMMA HandshakeKeeps ==
  ASSUME Inv, SteadyInv, Handshake
  PROVE  SteadyInv'
<1>1. /\ TypeOK /\ Turn(Owner) /\ ready # <<>> /\ Head(ready) = Owner
      /\ owner = "handshake" /\ owner' = "idle" /\ UNCHANGED <<ws, pending, call, pushes>>
  BY DEF Inv, Handshake, Turn
<1>2. ws \in Conns /\ ws # 0
  BY <1>1 DEF SteadyInv, OneConnection, TypeOK
<1>3. /\ \A r \in Loops : ~Alive(r)
      /\ \A c \in Callers : call[c].at = "idle" /\ call[c].fut = "none"
  BY <1>1 DEF SteadyInv, NothingYet, Calm, CallIsCalm
<1>4. Rest \in Seq(Tasks) /\ IsInjective(Rest) /\ Range(Rest) = {}
  <2>1. \A t : Due(t) => t = Owner
    BY <1>3 DEF Due, Alive, Dead
  <2>2. QED
    BY <1>1, <2>1, HeadOfQueue DEF SteadyInv
<1>5. Pops(ws)
  BY <1>1, <1>2, ReadOtherPops DEF Handshake, Pops
<1>6. \/ conn[ws].inbox # <<>> /\ EnsureRecvTask(Rest)
      \/ ~Open(ws) /\ ready' = Rest /\ UNCHANGED <<recvTask, loop>>
  <2>1. CanRead(ws)
    BY <1>1, HeadOfQueue, Kinds DEF SteadyInv, Due
  <2>2. conn[ws].inbox # <<>> => Head(conn[ws].inbox).type = "connection_established"
    BY <1>1 DEF SteadyInv, OneConnection
  <2>3. QED
    BY <2>1, <2>2 DEF Handshake, CanRead
<1>7. OneConnection' /\ IdsPast' /\ Objects' /\ (Open(ws)' <=> Open(ws))
  <2>1. \A j \in Conns : Fresh(j) => Fresh(j)'
    BY <1>5 DEF Fresh, Pops
  <2>2. OneConnection'
    BY <1>1, <1>2, <1>5, <2>1 DEF SteadyInv, OneConnection, Pops
  <2>3. IdsPast' /\ Objects'
    BY <1>1, <1>5 DEF SteadyInv, IdsPast, Past, Objects, Pops
  <2>4. QED
    BY <1>1, <1>2, <1>5, <2>2, <2>3 DEF Open, Pops
<1>8. NothingYet' /\ Senders' /\ Unsent' /\ Failed' /\ WaiterHasReader' /\ ResolvedFirst'
  BY <1>1, <1>2, <1>3 DEF NothingYet, Senders, Unsent, Failed, WaiterHasReader, ResolvedFirst
<1>9. CASE EnsureRecvTask(Rest)
  <2>1. /\ LoopAlive' /\ IsInjective(ready')
        /\ \A r \in Loops : LoopIsCalm(r)' /\ (Alive(r)' => r = recvTask')
        /\ \A r \in Loops : loop'[r].at = "recv" => loop'[r].ws = ws
        /\ \/ UNCHANGED <<recvTask, loop>> /\ ready' = Rest /\ LoopAlive
           \/ /\ loop'[recvTask'].at = "start" /\ recvTask' \in Loops
              /\ Range(ready') = Range(Rest) \cup {recvTask'}
    BY <1>1, <1>4, <1>9, Ensured
  <2>2. Calm' /\ OneReader'
    BY <1>1, <2>1 DEF SteadyInv, Calm, CallIsCalm, OneReader
  <2>3. QueueIsDue'
    BY <1>4, <2>1 DEF QueueIsDue, Due
  <2>4. QED
    BY <1>7, <1>8, <2>2, <2>3 DEF SteadyInv
<1>10. CASE ~Open(ws) /\ ready' = Rest /\ UNCHANGED <<recvTask, loop>>
  <2>1. Calm' /\ OneReader'
    BY <1>1, <1>7, <1>10 DEF SteadyInv, Calm, CallIsCalm, LoopIsCalm, OneReader, Alive
  <2>2. QueueIsDue'
    BY <1>4, <1>10 DEF QueueIsDue
  <2>3. QED
    BY <1>7, <1>8, <2>1, <2>2 DEF SteadyInv
<1>11. QED
  BY <1>6, <1>9, <1>10

------------------------------------------------------------------------------
\* The invariant survives the callers

LEMMA RefuseKeeps ==
  ASSUME Inv, SteadyInv, NEW c \in Callers, CanCall(c), NEW why, Refuse(c, why)
  PROVE  SteadyInv'
<1>1. call \in [Callers -> CallRecord]
  BY DEF Inv, TypeOK
<1>2. /\ UNCHANGED <<ws, recvTask, pending, ready, loop, owner, conn, pushes>>
      /\ \A d \in Callers : /\ call'[d].at = call[d].at /\ call'[d].fut = call[d].fut
                            /\ call'[d].interrupt = call[d].interrupt
                            /\ call'[d].ws = call[d].ws
                            /\ call[d].at # "idle" => call'[d].id = call[d].id
                            /\ call[d].n \in Int /\ call'[d].n \in Int
                            /\ call[d].n <= call'[d].n
  BY <1>1 DEF Refuse, CanCall, CallRecord
<1>3. Calm' /\ OneConnection' /\ NothingYet' /\ OneReader' /\ Senders'
  BY <1>2 DEF SteadyInv, Calm, CallIsCalm, LoopIsCalm, OneConnection, Fresh, NothingYet,
              Alive, OneReader, LoopAlive, Open, Senders
<1>4. IdsPast'
  <2>1. \A id : Past(id) => Past(id)'
    BY <1>2 DEF Past
  <2>2. QED
    BY <1>2, <2>1 DEF SteadyInv, IdsPast
<1>5. Objects' /\ Unsent' /\ Failed' /\ WaiterHasReader'
  BY <1>2 DEF SteadyInv, Objects, Unsent, Failed, Open, WaiterHasReader, LoopAlive
<1>6. QueueIsDue' /\ ResolvedFirst'
  BY <1>2 DEF SteadyInv, QueueIsDue, Due, CanRead, Open, ResolvedFirst, LoopAlive
<1>7. QED
  BY <1>3, <1>4, <1>5, <1>6 DEF SteadyInv

\* A call is sent at once, or cannot be sent.
LEMMA SendFacts ==
  ASSUME Steady, Inv, SteadyInv, NEW c \in Callers, CanCall(c), ws # 0,
         NEW id \in Uuids \cup {NoId}, NEW fut, NEW next, NEW suspended,
         NEW at \in {next, suspended}, next # suspended,
         id = NoId \/ id = NextUuid(c),
         Send(c, id, fut, next, suspended, at)
  PROVE  /\ call[c].at = "idle" /\ call[c].fut = "none" /\ owner = "idle" /\ ws \in Conns
         /\ call'[c].at = at /\ call'[c].id = id /\ call'[c].ws = ws /\ call'[c].fut = fut
         /\ call'[c].interrupt = "none"
         /\ \A d \in Callers \ {c} : call'[d] = call[d]
         /\ at = next <=> Open(ws)
         /\ \A j \in Conns : /\ conn'[j].state = conn[j].state
                             /\ conn'[j].greeted = conn[j].greeted
                             /\ conn'[j].inbox = conn[j].inbox
                             /\ conn[j].state = "unused" => conn'[j].sent = conn[j].sent
         /\ IdsPast'
<1>1. call \in [Callers -> CallRecord] /\ conn \in [Conns -> ConnRecord] /\ ws \in Conns
  BY DEF Inv, TypeOK
<1>2. call[c].at = "idle" /\ call[c].fut = "none" /\ owner = "idle"
  BY DEF CanCall, Steady, SteadyInv, Calm, CallIsCalm
<1>3. /\ call'[c].at = at /\ call'[c].id = id /\ call'[c].ws = ws /\ call'[c].fut = fut
      /\ call'[c].interrupt = "none" /\ call'[c].n = call[c].n + 1
      /\ \A d \in Callers \ {c} : call'[d] = call[d]
  BY <1>1 DEF Send
<1>4. at = next <=> Open(ws)
  BY DEF Send, Steady
<1>5. \A j \in Conns :
        /\ conn'[j].state = conn[j].state /\ conn'[j].greeted = conn[j].greeted
        /\ conn'[j].inbox = conn[j].inbox
        /\ conn[j].state = "unused" => conn'[j].sent = conn[j].sent
        /\ \A q \in conn'[j].sent : q \in conn[j].sent \/ q.id = id
  BY <1>1 DEF Send, ConnRecord, Open
<1>6. IdsPast'
  <2>1. \A d \in Callers : call[d].n \in Int /\ call'[d].n \in Int /\ call[d].n <= call'[d].n
    BY <1>1, <1>3 DEF CallRecord
  <2>2. \A k : Past(k) => Past(k)'
    BY <2>1 DEF Past
  <2>3. Past(id)'
    <3>1. CASE id = NoId
      BY <3>1, IdFacts DEF Past, Uuids
    <3>2. CASE id = <<c, call[c].n + 1>>
      BY <1>3, <2>1, <3>2 DEF Past
    <3>3. QED
      BY <3>1, <3>2 DEF NextUuid
  <2>4. QED
    BY <1>5, <2>2, <2>3 DEF SteadyInv, IdsPast
<1>7. QED
  BY <1>1, <1>2, <1>3, <1>4, <1>5, <1>6

LEMMA SendCorrelatedKeeps ==
  ASSUME Steady, Inv, SteadyInv, NEW c \in Callers, CanCall(c), ws # 0,
         SendCorrelated(c, NextUuid(c))
  PROVE  SteadyInv'
<1> DEFINE id == NextUuid(c)
<1>1. TypeOK /\ UNCHANGED <<ws, owner, pushes>> /\ EnsureRecvTask(ready)
  BY DEF Inv, SendCorrelated
<1>2. id \in Uuids
  <2>1. call[c].n + 1 \in 1..MaxCalls
    BY <1>1, ControlStreamAssumption DEF TypeOK, CallRecord, CanCall
  <2>2. QED
    BY <2>1 DEF NextUuid, Uuids
<1>3. PICK at \in Correlated : Send(c, id, "pending", "waiting", "sending", at)
  BY DEF SendCorrelated
<1>4. /\ call[c].at = "idle" /\ call[c].fut = "none" /\ owner = "idle" /\ ws \in Conns
      /\ call'[c].at = at /\ call'[c].id = id /\ call'[c].ws = ws
      /\ call'[c].fut = "pending" /\ call'[c].interrupt = "none"
      /\ \A d \in Callers \ {c} : call'[d] = call[d]
      /\ at = "waiting" <=> Open(ws)
      /\ \A j \in Conns : /\ conn'[j].state = conn[j].state
                          /\ conn'[j].greeted = conn[j].greeted
                          /\ conn'[j].inbox = conn[j].inbox
                          /\ conn[j].state = "unused" => conn'[j].sent = conn[j].sent
      /\ IdsPast'
  BY <1>2, <1>3, SendFacts DEF Correlated
<1>5. /\ LoopAlive' /\ IsInjective(ready')
      /\ \A r \in Loops : LoopIsCalm(r)' /\ (Alive(r)' => r = recvTask')
      /\ \A r \in Loops : loop'[r].at = "recv" => loop'[r].ws = ws
      /\ \/ UNCHANGED <<recvTask, loop>> /\ ready' = ready /\ LoopAlive
         \/ /\ ~LoopAlive /\ loop'[recvTask'].at = "start" /\ recvTask' \in Loops
            /\ Range(ready') = Range(ready) \cup {recvTask'}
            /\ \A s \in Loops \ {recvTask'} : loop'[s] = loop[s]
  BY <1>1, Ensured DEF TypeOK, SteadyInv, QueueIsDue
<1>6. Open(ws)' <=> Open(ws)
  BY <1>1, <1>4 DEF Open
<1> HIDE DEF id
<1>7. Calm'
  BY <1>1, <1>2, <1>4, <1>5 DEF SteadyInv, Calm, CallIsCalm, Correlated
<1>8. OneConnection' /\ NothingYet' /\ OneReader' /\ Senders' /\ Objects'
  BY <1>1, <1>4, <1>5, <1>6, Kinds
     DEF SteadyInv, OneConnection, Fresh, NothingYet, OneReader, Senders, Objects
<1>9. Unsent'
  <2>1. \A k \in Conns : \A f \in Range(conn[k].inbox) : f.id # id
    <3>1. id = <<c, call[c].n + 1>> /\ call[c].n + 1 \in 1..MaxCalls /\ call[c].n \in Int
      BY <1>1, ControlStreamAssumption DEF id, NextUuid, TypeOK, CallRecord, CanCall
    <3>2. ~Past(id)
      BY <3>1 DEF Past
    <3>3. QED
      BY <3>2 DEF SteadyInv, IdsPast
  <2>2. QED
    BY <1>4, <2>1 DEF SteadyInv, Unsent
<1>10. Failed' /\ WaiterHasReader'
  BY <1>1, <1>4, <1>5, <1>6 DEF SteadyInv, Failed, WaiterHasReader
<1>11. ResolvedFirst'
  BY <1>1, <1>4, <1>5 DEF SteadyInv, ResolvedFirst
<1>12. QueueIsDue'
  <2>1. c \notin Range(ready)
    BY <1>4, Kinds DEF SteadyInv, QueueIsDue, Due
  <2>2. CanRead(ws) => CanRead(ws)'
    BY <1>1, <1>4, <1>6 DEF CanRead
  <2>3. ASSUME NEW t \in Range(ready) PROVE Due(t)'
    <3>1. Due(t) /\ t # c
      BY <2>1 DEF SteadyInv, QueueIsDue
    <3>2. CASE t \in Callers
      BY <1>4, <3>1, <3>2, Kinds DEF Due
    <3>3. CASE t \in Loops
      <4>1. Alive(t)
        BY <3>1, <3>3, Kinds DEF Due, Alive, Dead
      <4>2. LoopAlive
        BY <4>1, <3>3, Kinds DEF SteadyInv, OneReader, LoopAlive, Alive
      <4>3. QED
        BY <1>1, <1>5, <2>2, <3>1, <3>3, <4>2, Kinds DEF Due
    <3>4. CASE t = Owner
      BY <1>4, <3>1, <3>4, Kinds DEF Due
    <3>5. QED
      BY <3>1, <3>2, <3>3, <3>4 DEF Due
  <2>4. QED
    BY <1>5, <2>3 DEF QueueIsDue, Due
<1>13. QED
  BY <1>4, <1>7, <1>8, <1>9, <1>10, <1>11, <1>12 DEF SteadyInv

\* Without a recv task the connection is closed, and a command waits to be refused.
LEMMA SendDirectKeeps ==
  ASSUME Steady, Inv, SteadyInv, NEW c \in Callers, CanCall(c), ws # 0, ~LoopAlive,
         SendDirect(c)
  PROVE  SteadyInv'
<1>1. PICK at \in {"directLoop", "directSending"} :
        /\ Send(c, NoId, "none", "directLoop", "directSending", at)
        /\ ready' = IF at = "directLoop" THEN <<c>> \o ready ELSE ready
  BY DEF SendDirect
<1>2. UNCHANGED <<ws, recvTask, pending, loop, owner, pushes>>
  BY DEF SendDirect
<1>3. /\ call[c].at = "idle" /\ call[c].fut = "none" /\ owner = "idle" /\ ws \in Conns
      /\ call'[c].at = at /\ call'[c].id = NoId /\ call'[c].ws = ws
      /\ call'[c].fut = "none" /\ call'[c].interrupt = "none"
      /\ \A d \in Callers \ {c} : call'[d] = call[d]
      /\ at = "directLoop" <=> Open(ws)
      /\ \A j \in Conns : /\ conn'[j].state = conn[j].state
                          /\ conn'[j].greeted = conn[j].greeted
                          /\ conn'[j].inbox = conn[j].inbox
                          /\ conn[j].state = "unused" => conn'[j].sent = conn[j].sent
      /\ IdsPast'
  <2>1. /\ NoId \in Uuids \cup {NoId} /\ "directLoop" # "directSending"
        /\ at \in {"directLoop", "directSending"}
        /\ Send(c, NoId, "none", "directLoop", "directSending", at)
    BY <1>1
  <2>2. QED
    BY ONLY Steady, Inv, SteadyInv, c \in Callers, CanCall(c), ws # 0, <2>1, SendFacts,
       SMTT(60)
<1>4. ~Open(ws) /\ at = "directSending" /\ ready' = ready
  BY <1>1, <1>3 DEF SteadyInv, OneReader
<1>5. Open(ws)' <=> Open(ws)
  BY <1>2, <1>3 DEF Open
<1>6. Calm'
  BY <1>2, <1>3, <1>4 DEF SteadyInv, Calm, CallIsCalm, LoopIsCalm
<1>7. OneConnection' /\ NothingYet' /\ OneReader' /\ Senders' /\ Objects'
  BY <1>2, <1>3, <1>4, <1>5, Kinds
     DEF SteadyInv, OneConnection, Fresh, NothingYet, OneReader, Senders, Objects,
         Alive, LoopAlive
<1>8. Unsent' /\ Failed' /\ WaiterHasReader' /\ ResolvedFirst'
  BY <1>2, <1>3, <1>4, <1>5
     DEF SteadyInv, Unsent, Failed, WaiterHasReader, ResolvedFirst, LoopAlive
<1>9. QueueIsDue'
  <2>1. CanRead(ws) => CanRead(ws)'
    BY <1>2, <1>3, <1>5 DEF CanRead
  <2>2. \A t : Due(t) => Due(t)'
    BY <1>2, <1>3, <1>4, <2>1 DEF Due
  <2>3. QED
    BY <1>4, <2>2 DEF SteadyInv, QueueIsDue
<1>10. QED
  BY <1>3, <1>6, <1>7, <1>8, <1>9 DEF SteadyInv

LEMMA CallsKeep ==
  ASSUME Steady, Inv, SteadyInv, NEW c \in Callers, SetParams(c) \/ Command(c)
  PROVE  SteadyInv'
<1>1. CASE SetParams(c)
  BY <1>1, RefuseKeeps, SendCorrelatedKeeps DEF SetParams, Steady
<1>2. CASE Command(c)
  BY <1>2, RefuseKeeps, SendCorrelatedKeeps, SendDirectKeeps DEF Command
<1>3. QED
  BY <1>1, <1>2

\* A call returns or raises.
LEMMA FinishKeeps ==
  ASSUME Inv, SteadyInv, NEW c \in Callers, Turn(c), NEW how, NEW re, Finish(c, how, re),
         UNCHANGED conn
  PROVE  SteadyInv'
<1>1. /\ TypeOK /\ ready # <<>> /\ Head(ready) = c /\ ready' = Rest
      /\ UNCHANGED <<ws, recvTask, loop, owner, pushes, conn>>
  BY DEF Inv, Turn, Finish, EndCall
<1>2. /\ call'[c].at = "idle" /\ call'[c].fut = "none" /\ call'[c].interrupt = "none"
      /\ \A d \in Callers : call'[d].n = call[d].n
      /\ \A d \in Callers \ {c} : call'[d] = call[d]
  BY <1>1 DEF TypeOK, CallRecord, Finish, EndCall
<1>3. Calm' /\ OneConnection' /\ NothingYet' /\ OneReader' /\ Senders'
  BY <1>1, <1>2 DEF SteadyInv, Calm, CallIsCalm, LoopIsCalm, OneConnection, Fresh,
                    NothingYet, Alive, OneReader, LoopAlive, Open, Senders
<1>4. IdsPast' /\ Objects' /\ Unsent' /\ Failed' /\ WaiterHasReader'
  BY <1>1, <1>2 DEF SteadyInv, IdsPast, Past, Objects, Unsent, Failed, Open,
                    WaiterHasReader, LoopAlive
<1>5. QueueIsDue'
  <2>1. \A t : t # c /\ Due(t) => Due(t)'
    BY <1>1, <1>2 DEF Due, CanRead, Open
  <2>2. QED
    BY <1>1, <2>1, HeadOfQueue DEF SteadyInv, QueueIsDue
<1>6. ResolvedFirst'
  BY <1>1, <1>2, HeadOfQueue DEF SteadyInv, ResolvedFirst, LoopAlive
<1>7. QED
  BY <1>3, <1>4, <1>5, <1>6 DEF SteadyInv

LEMMA CallersRunKeep ==
  ASSUME Inv, SteadyInv, NEW c \in Callers,
         SendDone(c) \/ WaitDone(c) \/ DirectResume(c) \/ DirectRead(c) \/ DirectWoken(c)
  PROVE  SteadyInv'
<1>1. /\ call[c].interrupt = "none"
      /\ call[c].at \in {"idle", "directSending", "sending", "waiting"}
      /\ call[c].at # "idle" => call[c].ws = ws
      /\ call[c].at \in {"sending", "directSending"} => ~Open(ws)
  BY DEF SteadyInv, Calm, CallIsCalm, Senders
<1>2. CASE SendDone(c)
  BY <1>1, <1>2, FinishKeeps DEF SendDone
<1>3. CASE WaitDone(c)
  BY <1>1, <1>3, FinishKeeps DEF WaitDone, FutureDone
<1>4. CASE DirectResume(c)
  BY <1>1, <1>4, FinishKeeps DEF DirectResume
<1>5. ~DirectRead(c) /\ ~DirectWoken(c)
  BY <1>1 DEF DirectRead, DirectWoken
<1>6. QED
  BY <1>2, <1>3, <1>4, <1>5

------------------------------------------------------------------------------
\* The invariant survives the recv loop

\* What a turn of the loop leaves as it is: the loop it was is the loop it is.
LoopMoves(r, at) ==
  /\ UNCHANGED <<ws, recvTask, owner>>
  /\ loop'[r].at = at /\ loop'[r].cancelled = loop[r].cancelled
  /\ at = "recv" => loop'[r].ws = ws
  /\ \A s \in Loops \ {r} : loop'[s] = loop[s]

\* The loop reads a frame or none, resolves the futures of some callers or of
\* none, which join the queue in some order, and then sleeps, waits in recv() or ends.
LEMMA LoopMovesKeeps ==
  ASSUME Inv, SteadyInv, NEW r \in Loops, Turn(r), NEW at \in {"slept", "recv", "closed"},
         LoopMoves(r, at), Pops(ws),
         \A c \in Callers : /\ call'[c].at = call[c].at /\ call'[c].id = call[c].id
                            /\ call'[c].ws = call[c].ws /\ call'[c].n = call[c].n
                            /\ call'[c].interrupt = call[c].interrupt,
         NEW q \in Seq(Tasks), IsInjective(q),
         ready' = IF at = "slept" THEN Append(q, r) ELSE q,
         \A t \in Range(q) : \/ t \in Range(Rest)
                             \/ t \in Callers /\ call[t].at = "waiting"
                                              /\ call'[t].fut # "pending",
         \A c \in Callers :
           \/ call'[c].fut = call[c].fut
           \/ /\ at = "slept" /\ call[c].fut = "pending" /\ call'[c].fut = "result"
              /\ call[c].at = "waiting" /\ c \in Range(q)
           \/ /\ at = "closed" /\ call[c].fut = "pending" /\ call'[c].fut = "exception",
         \* what the loop found
         \/ at = "closed" /\ ~Open(ws) /\ conn[ws].inbox = <<>>
         \/ at # "closed",
         at = "closed" => \A c \in Callers :
                            call[c].at = "waiting" => call'[c].fut # "pending"
  PROVE  SteadyInv'
<1>1. /\ TypeOK /\ ready # <<>> /\ Head(ready) = r
      /\ UNCHANGED <<ws, recvTask, owner>>
  BY DEF Inv, Turn, LoopMoves
<1>2. /\ r = recvTask /\ LoopAlive /\ owner = "idle" /\ ws \in Conns /\ ws # 0
      /\ \A c \in Callers : call[c].fut # "result"
      /\ ~loop[r].cancelled
  BY LoopTurn, Kinds
<1>3. /\ \A s \in Loops : Alive(s) => s = r
      /\ at # "closed" => LoopAlive' /\ Alive(r)'
      /\ at = "closed" => ~Alive(r)'
      /\ \A s \in Loops : Alive(s)' => s = r
  BY <1>1, <1>2, Kinds DEF SteadyInv, OneReader, LoopMoves, LoopAlive, Alive, Dead
<1>4. OneConnection' /\ IdsPast' /\ Objects' /\ (Open(ws)' <=> Open(ws))
  BY <1>1, <1>2, PopsKeeps
<1>5. Calm'
  BY <1>1, <1>2 DEF SteadyInv, Calm, CallIsCalm, LoopIsCalm, LoopMoves
<1>6. NothingYet' /\ Senders'
  BY <1>1, <1>2, <1>4 DEF SteadyInv, NothingYet, Senders
<1>7. OneReader'
  <2>1. \A s \in Loops : Alive(s)' => s = recvTask'
    BY <1>1, <1>2, <1>3
  <2>2. \A s \in Loops : loop'[s].at = "recv" => loop'[s].ws = ws'
    BY <1>1 DEF SteadyInv, OneReader, LoopMoves
  <2>3. Open(ws)' /\ owner' = "idle" => LoopAlive'
    BY <1>3, <1>4
  <2>4. QED
    BY <2>1, <2>2, <2>3 DEF OneReader
<1>8. Unsent'
  BY SMTT(30) DEF SteadyInv, Unsent, Pops
<1>9. Failed'
  BY <1>1, <1>2, <1>4 DEF SteadyInv, Failed, Pops
<1>10. WaiterHasReader'
  BY <1>1, <1>2, <1>3 DEF SteadyInv, WaiterHasReader
<1>11. r \notin Range(q) /\ r \in Tasks
  BY <1>1, HeadOfQueue, Kinds DEF SteadyInv, Tasks
<1>12. \A t \in Range(q) : Due(t)'
  <2> SUFFICES ASSUME NEW t \in Range(q) PROVE Due(t)'
    OBVIOUS
  <2>1. CASE t \in Callers /\ call[t].at = "waiting" /\ call'[t].fut # "pending"
    BY <2>1 DEF Due
  <2>2. CASE t \in Range(Rest)
    <3>1. Due(t) /\ t # r
      BY <1>1, <2>2, HeadOfQueue DEF SteadyInv
    <3>2. t \in Callers
      BY <1>2, <1>3, <3>1 DEF Due, Alive, Dead
    <3>3. call[t].fut # "pending" => call'[t].fut # "pending"
      BY <3>2
    <3>4. QED
      BY <3>1, <3>2, <3>3, Kinds DEF Due
  <2>3. QED
    BY <2>1, <2>2
<1>13. QueueIsDue' /\ ResolvedFirst'
  <2>1. CASE at = "slept"
    <3>1. ready' = Append(q, r) /\ loop'[r].at = "slept"
      BY <2>1 DEF LoopMoves
    <3>2. /\ IsInjective(ready') /\ Range(ready') = Range(q) \cup {r}
          /\ \A a \in Range(q) : Before(ready', a, r)
      BY <1>11, <3>1, AppendQueue
    <3>3. Due(r)'
      BY <3>1 DEF Due
    <3>4. ResolvedFirst'
      BY <1>1, <1>2, <1>3, <2>1, <3>1, <3>2 DEF ResolvedFirst
    <3>5. QED
      BY <1>12, <3>2, <3>3, <3>4 DEF QueueIsDue
  <2>2. CASE at # "slept"
    <3>1. \A c \in Callers : call'[c].fut # "result"
      BY <1>2, <2>2
    <3>2. QED
      BY <1>12, <2>2, <3>1 DEF QueueIsDue, ResolvedFirst
  <2>3. QED
    BY <2>1, <2>2
<1>14. QED
  BY <1>4, <1>5, <1>6, <1>7, <1>8, <1>9, <1>10, <1>13 DEF SteadyInv

\* The loop goes on: q is what the turn leaves of the queue.
LEMMA AgainMoves ==
  ASSUME Inv, SteadyInv, NEW r \in Loops, Turn(r), NEW q, LoopAgain(r, q),
         UNCHANGED <<ws, recvTask, owner>>
  PROVE  LoopMoves(r, "slept") /\ ready' = Append(q, r)
<1>1. ws # 0 /\ loop \in [Loops -> LoopRecord]
  BY LoopTurn, Kinds DEF Inv, TypeOK
<1>2. QED
  BY <1>1 DEF LoopAgain, LoopMoves, LoopRecord

\* It reads on, with no effect on the calls.
LEMMA ReadsOn ==
  ASSUME Inv, SteadyInv, NEW r \in Loops, Turn(r), LoopAgain(r, Rest), Pops(ws),
         UNCHANGED <<ws, recvTask, owner, call>>
  PROVE  SteadyInv'
<1>1. TypeOK /\ ready # <<>>
  BY DEF Inv, Turn
<1>2. Rest \in Seq(Tasks) /\ IsInjective(Rest)
  BY <1>1, HeadOfQueue DEF SteadyInv
<1>3. LoopMoves(r, "slept") /\ ready' = Append(Rest, r)
  BY AgainMoves
<1>4. QED
  BY <1>2, <1>3, LoopMovesKeeps

\* A pending future is resolved, never a finished one.
LEMMA ResolvesOnce ==
  ASSUME Inv, SteadyInv, NEW r \in Loops, Turn(r), conn[ws].inbox # <<>>,
         NEW f, f = Head(conn[ws].inbox), f.id \in PendingIds,
         ResolveFuture(r, f), ReadOther(ws), UNCHANGED <<ws, recvTask, pending, owner>>
  PROVE  SteadyInv'
<1> DEFINE c == pending[f.id]
<1>1. /\ TypeOK /\ ready # <<>> /\ Head(ready) = r /\ ws \in Conns
      /\ \A d \in Callers : call[d].fut # "result"
  BY LoopTurn DEF Inv, Turn
<1>2. c \in Callers /\ call[c].at \in Correlated /\ call[c].id = f.id
  BY DEF Inv, TypeOK, PendingSound, PendingIds
<1>3. f \in Range(conn[ws].inbox)
  BY <1>1, InboxRange
<1>4. call[c].at = "waiting" /\ call[c].fut = "pending"
  <2>1. call[c].at # "sending"
    BY <1>1, <1>2, <1>3 DEF SteadyInv, Unsent
  <2>2. call[c].fut # "exception"
    BY <1>1, <1>2 DEF SteadyInv, Failed
  <2>3. QED
    BY <1>1, <1>2, <2>1, <2>2, IdFacts DEF SteadyInv, Calm, CallIsCalm, Correlated
<1> HIDE DEF c
<1>5. /\ call' = [call EXCEPT ![c].fut = "result", ![c].reply = f.re]
      /\ LoopAgain(r, Append(Rest, c))
  BY <1>4 DEF ResolveFuture, c
<1>6. /\ \A d \in Callers : /\ call'[d].at = call[d].at /\ call'[d].id = call[d].id
                            /\ call'[d].ws = call[d].ws /\ call'[d].n = call[d].n
                            /\ call'[d].interrupt = call[d].interrupt
                            /\ d # c => call'[d].fut = call[d].fut
      /\ call'[c].fut = "result"
  BY <1>1, <1>2, <1>5 DEF TypeOK, CallRecord
<1>7. /\ Rest \in Seq(Tasks) /\ IsInjective(Rest) /\ \A t \in Range(Rest) : Due(t)
  BY <1>1, HeadOfQueue DEF SteadyInv
<1>8. c \notin Range(Rest) /\ c \in Tasks
  BY <1>2, <1>4, <1>7, Kinds DEF Due, Tasks
<1> DEFINE q == Append(Rest, c)
<1>9. q \in Seq(Tasks) /\ IsInjective(q) /\ Range(q) = Range(Rest) \cup {c}
  BY <1>7, <1>8, AppendQueue, QueueType
<1> HIDE DEF q
<1>10. LoopMoves(r, "slept") /\ ready' = Append(q, r)
  BY <1>5, AgainMoves DEF q
<1>11. Pops(ws)
  BY <1>1, ReadOtherPops
<1>12. QED
  BY <1>2, <1>4, <1>6, <1>9, <1>10, <1>11, LoopMovesKeeps

LEMMA LoopFrameKeeps ==
  ASSUME Steady, Inv, SteadyInv, NEW r \in Loops, Turn(r), conn[ws].inbox # <<>>,
         LoopFrame(r, ws)
  PROVE  SteadyInv'
<1> DEFINE f == Head(conn[ws].inbox)
<1>1. TypeOK /\ ws \in Conns /\ UNCHANGED <<ws, recvTask, pending, owner, pushes>>
  BY LoopTurn DEF Inv, LoopFrame
<1>2. f \in Range(conn[ws].inbox) /\ f.type # "not_object"
  BY <1>1, InboxRange DEF SteadyInv, Objects
<1>3. CASE ReadOther(ws) /\ LoopAgain(r, Rest) /\ UNCHANGED call
  BY <1>1, <1>3, ReadOtherPops, ReadsOn
<1>4. CASE f.id \in PendingIds /\ ReadOther(ws) /\ ResolveFuture(r, f)
  BY <1>1, <1>4, ResolvesOnce
<1>5. CASE ReadPing(ws) /\ UNCHANGED call /\ LoopAgain(r, Rest)
  BY <1>1, <1>5, ReadPingPops, ReadsOn
<1>6. "drain" \notin Events
  BY DEF Steady
<1>7. QED
  BY <1>2, <1>3, <1>4, <1>5, <1>6 DEF LoopFrame

\* Nothing to read: the loop waits in recv().
LEMMA LoopWaitsKeeps ==
  ASSUME Inv, SteadyInv, NEW r \in Loops, Turn(r),
         loop' = [loop EXCEPT ![r].at = "recv", ![r].ws = ws], ready' = Rest,
         UNCHANGED <<ws, recvTask, call, owner, conn>>
  PROVE  SteadyInv'
<1>1. TypeOK /\ ready # <<>> /\ ws # 0
  BY LoopTurn, Kinds DEF Inv, Turn
<1>2. Rest \in Seq(Tasks) /\ IsInjective(Rest)
  BY <1>1, HeadOfQueue DEF SteadyInv
<1>3. LoopMoves(r, "recv")
  BY <1>1 DEF TypeOK, LoopRecord, LoopMoves
<1>4. Pops(ws)
  BY DEF Pops
<1>5. QED
  BY <1>2, <1>3, <1>4, LoopMovesKeeps

\* The connection is closed and read to its end: nobody is left waiting.
LEMMA LoopDisconnectedKeeps ==
  ASSUME Inv, SteadyInv, NEW r \in Loops, Turn(r), ~Open(ws), conn[ws].inbox = <<>>,
         LoopDisconnected(r)
  PROVE  SteadyInv'
<1> DEFINE failed == {c \in Callers : call[c].fut = "pending"
                                       /\ \E k \in Ids : pending[k] = c}
           W == {c \in failed : call[c].at = "waiting"}
<1>1. /\ TypeOK /\ ready # <<>> /\ UNCHANGED <<ws, recvTask, pending, owner, conn, pushes>>
  BY DEF Inv, Turn, LoopDisconnected
<1>2. /\ call' = [c \in Callers |-> IF c \in failed
                    THEN [call[c] EXCEPT !.fut = "exception"] ELSE call[c]]
      /\ loop' = [loop EXCEPT ![r].at = "closed"]
  BY DEF LoopDisconnected
<1>3. PICK p \in SetToSeqs(W) : ready' = Rest \o p
  BY DEF LoopDisconnected
<1>4. Rest \in Seq(Tasks) /\ IsInjective(Rest) /\ \A t \in Range(Rest) : Due(t)
  BY <1>1, HeadOfQueue DEF SteadyInv
<1>5. p \in Seq(Tasks) /\ IsInjective(p) /\ Range(p) \subseteq W
  <2>1. W \subseteq Tasks /\ IsFiniteSet(W)
    <3>1. W \subseteq Callers
      OBVIOUS
    <3>2. QED
      BY <3>1, ControlStreamAssumption, FS_Subset DEF Tasks
  <2>2. p \in [1..Cardinality(W) -> W] /\ Cardinality(W) \in Nat /\ IsInjective(p)
    BY <2>1, FS_CardinalityType DEF SetToSeqs, IsInjective
  <2>3. p \in Seq(Tasks)
    BY <2>1, <2>2, FunctionIsSeq
  <2>4. QED
    BY <2>2, <2>3 DEF Range
<1>6. \A c \in Callers :
        /\ call'[c].at = call[c].at /\ call'[c].id = call[c].id
        /\ call'[c].ws = call[c].ws /\ call'[c].n = call[c].n
        /\ call'[c].interrupt = call[c].interrupt
        /\ call'[c].fut = IF c \in failed THEN "exception" ELSE call[c].fut
  <2> HIDE DEF failed
  <2> QED BY <1>1, <1>2 DEF TypeOK, CallRecord
<1>7. \A c \in Callers : call[c].at = "waiting" => call'[c].fut # "pending"
  <2> SUFFICES ASSUME NEW c \in Callers, call[c].at = "waiting", call[c].fut = "pending"
               PROVE  c \in failed
    BY <1>6
  <2>1. call[c].id \in Uuids
    BY DEF SteadyInv, Calm, CallIsCalm
  <2>2. pending[call[c].id] = c
    BY <2>1 DEF Inv, PendingComplete, Correlated
  <2>3. QED
    BY <2>1, <2>2 DEF Ids
<1>8. Range(Rest) \cap W = {}
  BY <1>4, Kinds DEF Due
<1> DEFINE q == Rest \o p
<1>9. q \in Seq(Tasks) /\ IsInjective(q) /\ Range(q) \subseteq Range(Rest) \cup W
  <2> HIDE DEF W
  <2>1. q \in Seq(Tasks)
    BY <1>4, <1>5
  <2>2. QED
    BY <1>4, <1>5, <1>8, <2>1, ConcatQueue
<1>10. LoopMoves(r, "closed")
  BY <1>1, <1>2 DEF TypeOK, LoopRecord, LoopMoves
<1>11. Pops(ws)
  BY <1>1 DEF Pops
<1>12. \A c \in Callers :
         \/ call'[c].fut = call[c].fut
         \/ call[c].fut = "pending" /\ call'[c].fut = "exception"
  BY <1>6
<1>13. \A t \in Range(q) : \/ t \in Range(Rest)
                           \/ t \in Callers /\ call[t].at = "waiting"
                                            /\ call'[t].fut # "pending"
  BY <1>7, <1>9
<1>14. ready' = q
  BY <1>3
<1> HIDE DEF q, failed, W
<1>15. QED
  BY <1>6, <1>7, <1>9, <1>10, <1>11, <1>12, <1>13, <1>14, LoopMovesKeeps, SMTT(60)

LEMMA LoopsKeep ==
  ASSUME Steady, Inv, SteadyInv, NEW r \in Loops,
         LoopResume(r) \/ LoopRecv(r) \/ LoopWoken(r) \/ LoopCancelled(r)
  PROVE  SteadyInv'
<1>1. Turn(r)
  BY DEF LoopResume, LoopRecv, LoopWoken, LoopCancelled
<1>2. /\ ~loop[r].cancelled /\ ws \in Conns /\ ws # 0
      /\ loop[r].at = "recv" => loop[r].ws = ws /\ CanRead(ws)
  BY <1>1, LoopTurn, Kinds
<1>3. CASE LoopResume(r)
  <2>1. Pops(ws)
    BY <1>3 DEF LoopResume, Pops
  <2>2. QED
    BY <1>1, <1>3, <2>1, ReadsOn DEF LoopResume
<1>4. CASE LoopRecv(r)
  <2>1. ~Reading(ws)
    BY <1>1, <1>4, NotReading DEF LoopRecv
  <2>2. QED
    BY <1>1, <1>2, <1>4, <2>1, LoopFrameKeeps, LoopDisconnectedKeeps, LoopWaitsKeeps
       DEF LoopRecv
<1>5. CASE LoopWoken(r)
  BY <1>1, <1>2, <1>5, LoopFrameKeeps, LoopDisconnectedKeeps DEF LoopWoken, CanRead
<1>6. ~LoopCancelled(r)
  BY <1>2 DEF LoopCancelled
<1>7. QED
  BY <1>3, <1>4, <1>5, <1>6

------------------------------------------------------------------------------
\* The theorems

LEMMA InitSteady == Init => SteadyInv
<1> SUFFICES ASSUME Init
             PROVE  SteadyInv
  OBVIOUS
<1>1. /\ ws = 0 /\ recvTask = 0 /\ owner = "idle" /\ ready = <<>>
      /\ \A r \in Loops : loop[r].at = "absent" /\ ~loop[r].cancelled
      /\ \A c \in Callers : /\ call[c].at = "idle" /\ call[c].fut = "none"
                            /\ call[c].interrupt = "none"
      /\ \A k \in Conns : conn[k].state = "unused" /\ Fresh(k)
  BY DEF Init, Fresh
<1>2. \A k \in Conns : Range(conn[k].inbox) = {} /\ conn[k].sent = {}
  BY <1>1 DEF Fresh, Range
<1>3. Calm /\ OneConnection /\ NothingYet /\ OneReader /\ Senders
  BY <1>1 DEF Calm, CallIsCalm, LoopIsCalm, OneConnection, NothingYet, Alive, Dead,
              OneReader, Open, Senders
<1>4. IdsPast /\ Objects /\ Unsent /\ Failed /\ WaiterHasReader /\ ResolvedFirst
  BY <1>1, <1>2 DEF IdsPast, Objects, Unsent, Failed, WaiterHasReader, ResolvedFirst
<1>5. QueueIsDue
  BY <1>1 DEF QueueIsDue, IsInjective, Range
<1>6. QED
  BY <1>3, <1>4, <1>5 DEF SteadyInv

LEMMA StutterKeeps ==
  ASSUME SteadyInv, UNCHANGED vars
  PROVE  SteadyInv'
<1>1. Calm' /\ OneConnection' /\ NothingYet' /\ OneReader' /\ Senders'
  BY DEF SteadyInv, vars, Calm, CallIsCalm, LoopIsCalm, OneConnection, Fresh, NothingYet,
         Alive, OneReader, LoopAlive, Open, Senders
<1>2. IdsPast' /\ Objects' /\ Unsent' /\ Failed' /\ WaiterHasReader'
  BY DEF SteadyInv, vars, IdsPast, Past, Objects, Unsent, Failed, Open, WaiterHasReader,
         LoopAlive
<1>3. QueueIsDue' /\ ResolvedFirst'
  BY DEF SteadyInv, vars, QueueIsDue, Due, CanRead, Open, ResolvedFirst, LoopAlive
<1>4. QED
  BY <1>1, <1>2, <1>3 DEF SteadyInv

LEMMA StepSteady == Steady /\ Inv /\ SteadyInv /\ [Next]_vars => SteadyInv'
<1> SUFFICES ASSUME Steady, Inv, SteadyInv, [Next]_vars
             PROVE  SteadyInv'
  OBVIOUS
<1>1. ASSUME NEW c \in Callers, SendDone(c) \/ WaitDone(c) \/ DirectResume(c)
                                \/ DirectRead(c) \/ DirectWoken(c)
      PROVE  SteadyInv'
  BY <1>1, CallersRunKeep
<1>2. ASSUME NEW r \in Loops, LoopResume(r) \/ LoopRecv(r) \/ LoopWoken(r) \/ LoopCancelled(r)
      PROVE  SteadyInv'
  BY <1>2, LoopsKeep
<1>3. CASE Handshake
  BY <1>3, HandshakeKeeps
<1>4. ~Joined /\ ~Closed
  BY DEF SteadyInv, Calm, Joined, Closed
<1>5. ASSUME NEW c \in Callers, SetParams(c) \/ Command(c)
      PROVE  SteadyInv'
  BY <1>5, CallsKeep
<1>6. /\ ~ConnectFails /\ ~Disconnect
      /\ \A c \in Callers : ~Timeout(c) /\ ~Cancel(c)
  BY DEF Steady, ConnectFails, Disconnect, Timeout, Cancel
<1>7. CASE Connect \/ Connected
  BY <1>7, ConnectKeeps, ConnectedKeeps
<1>8. ASSUME NEW t \in Tasks, IoReady(t)
      PROVE  SteadyInv'
  BY <1>8, IoReadyKeeps
<1>9. ASSUME NEW k \in Conns,
             \/ Greet(k) \/ ServerCloses(k)
             \/ \E type \in {"ping", "malformed", "not_object"} : Push(k, type)
             \/ \E q \in conn[k].sent : Respond(k, q)
      PROVE  SteadyInv'
  BY <1>9, ConnectionsKeep
<1>10. CASE UNCHANGED vars
  BY <1>10, StutterKeeps
<1>11. QED
  BY <1>1, <1>2, <1>3, <1>4, <1>5, <1>6, <1>7, <1>8, <1>9, <1>10 DEF Next, RunNext

\* The invariant holds of every behaviour in that environment.
THEOREM Steadily == Steady => (Spec => []SteadyInv)
<1> SUFFICES ASSUME Steady
             PROVE  Spec => []SteadyInv
  OBVIOUS
<1>1. Init => SteadyInv
  BY InitSteady
<1>2. Inv /\ SteadyInv /\ [Next]_vars => SteadyInv'
  BY StepSteady
<1>3. QED
  BY <1>1, <1>2, Invariant, PTL DEF Spec

\* As long as nobody is interrupted and no send waits on an open connection, nothing
\* but the end of the connection ends _recv_loop: whichever ids and however often the
\* server repeats them, no future is resolved twice.
THEOREM RecvLoopSurvives == Steady => (Spec => []LoopSurvives)
<1> SUFFICES ASSUME Steady
             PROVE  Spec => []LoopSurvives
  OBVIOUS
<1>1. SteadyInv => LoopSurvives
  BY DEF SteadyInv, Calm, LoopIsCalm, LoopSurvives
<1>2. QED
  BY <1>1, Steadily, PTL

\* Then no caller waits on a future that nothing will ever resolve or fail.
THEOREM WaitersHaveReader == Steady => (Spec => []WaiterHasReader)
<1> SUFFICES ASSUME Steady
             PROVE  Spec => []WaiterHasReader
  OBVIOUS
<1>1. SteadyInv => WaiterHasReader
  BY DEF SteadyInv
<1>2. QED
  BY <1>1, Steadily, PTL

\* Then command() takes the direct path on a closed connection only, where it can
\* but raise.
THEOREM CommandsAreCorrelated == Steady => (Spec => []CorrelatedWhileOpen)
<1> SUFFICES ASSUME Steady
             PROVE  Spec => []CorrelatedWhileOpen
  OBVIOUS
<1>1. SteadyInv => CorrelatedWhileOpen
  BY DEF SteadyInv, Calm, CallIsCalm, Senders, CorrelatedWhileOpen, Direct
<1>2. QED
  BY <1>1, Steadily, PTL
==============================================================================
