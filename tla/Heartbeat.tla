------------------------------- MODULE Heartbeat -------------------------------
(***************************************************************************)
(* The liveness surface of both streams (_WsLivenessMixin in               *)
(* src/juniper_cascor_client/ws_client.py) against the clock: the server   *)
(* pings every Interval seconds and closes a connection on which nothing   *)
(* came within PongTimeout seconds of a ping; the client answers pings     *)
(* when it reads them, and is_alive() judges by the time of the latest     *)
(* frame it has read.                                                      *)
(*                                                                         *)
(* Reading is the recv loop of the control stream, which keeps no frame,   *)
(* or the consumer of the training stream, who keeps every frame for a     *)
(* while.  A peer may die without a word: the client's socket stays OPEN.  *)
(* connect() may be called then, or over any connection; what has been     *)
(* reading the connection it replaces goes on with that one.               *)
(*                                                                         *)
(* Time is counted in seconds, and passes by Tick; what must happen within *)
(* a time holds Tick up.                                                   *)
(***************************************************************************)
EXTENDS Integers, Sequences

CONSTANTS
  Streams,      \* the streams: training, control
  Interval,     \* the server's ws_heartbeat_interval_sec
  PongTimeout,  \* the server's ws_heartbeat_pong_timeout_sec
  Window,       \* window_sec of is_alive()
  Delay,        \* longest way of a frame to its reader, or to the server
  Hold,         \* longest that a consumer keeps a frame
  Gap,          \* shortest time between two application frames
  AutoPongs     \* the values of auto_pong

\* The client keeps up with the frames and is in time for the server, and the
\* window covers a heartbeat.
ASSUME HeartbeatAssumption ==
  /\ {Interval, PongTimeout, Window, Delay, Hold, Gap} \subseteq Nat
  /\ AutoPongs \subseteq BOOLEAN /\ Streams \subseteq {"training", "control"}
  /\ Hold + 2 * Delay < Gap
  /\ Hold + 4 * Delay < PongTimeout /\ PongTimeout <= Interval
  /\ Interval + Delay <= Window

VARIABLES
  stream,     \* the stream that this is
  ws,         \* none, open or closed: self._ws and its protocol state
  silence,    \* time.monotonic() - self._last_frame_monotonic
  autoPong,   \* self._auto_pong
  reading,    \* what is read of the connection: its greeting, by connect(), its
              \* frames, nothing, or nothing since connect() has failed
  stray,      \* a recv loop or an iteration runs that the latest connect() did not bring
  inbox,      \* frames on their way to the reader
  wait,       \* how long the reader could have had the first of them
  busy,       \* how long the consumer still keeps the frame it has
  outbox,     \* ages of the client's frames that are on their way
  peer,       \* external: accepted the connection, up: has greeted, or gone:
              \* nothing more comes, nor arrives there
  sincePing,  \* external: time since the server's latest ping,
  owed,       \* external: and whether it has had nothing since
  sinceData,  \* external: time since its latest application frame
  refused,    \* history: the server has closed the connection for want of a frame
  sinceGone   \* history: time since the peer is gone, or since a stray read a frame

client == <<stream, ws, silence, autoPong, reading, stray>>
reader == <<inbox, wait, busy>>
server == <<peer, sincePing, owed, sinceData, refused, sinceGone>>
vars == <<client, reader, outbox, server>>

\* self._last_frame_monotonic is None.
Never == -1

\* How far clocks are followed.
Horizon == Window + 2 * (Delay + Hold) + 1
Later(t, most) == IF t < most THEN t + 1 ELSE t

\* connect() has returned, and the frames of its connection are read.
Ready == ws = "open" /\ reading = "frames"

TypeOK ==
  /\ stream \in Streams /\ ws \in {"none", "open", "closed"} /\ autoPong \in AutoPongs
  /\ reading \in {"greeting", "frames", "nothing", "failed"} /\ stray \in BOOLEAN
  /\ silence \in 0..Horizon \cup {Never} /\ (Ready => silence # Never)
  /\ inbox \in Seq({"data", "ping"}) /\ wait \in 0..Delay /\ busy \in 0..Hold
  /\ outbox \subseteq 0..Delay
  /\ peer \in {"accepted", "up", "gone"} /\ sincePing \in 0..Interval /\ owed \in BOOLEAN
  /\ sinceData \in 0..Gap /\ refused \in BOOLEAN /\ sinceGone \in 0..Horizon

Init ==
  /\ stream \in Streams /\ ws = "none" /\ silence = Never /\ autoPong \in AutoPongs
  /\ reading = "nothing" /\ stray = FALSE
  /\ inbox = <<>> /\ wait = 0 /\ busy = 0 /\ outbox = {}
  /\ peer = "gone" /\ sincePing = 0 /\ owed = FALSE /\ sinceData = 0
  /\ refused = FALSE /\ sinceGone = 0

------------------------------------------------------------------------------
\* The client

\* Mutant: that the connection is open is enough.
AliveIfOpen == ws = "open"

\* is_alive()
Alive == ws = "open" /\ silence # Never /\ silence <= Window

\* A new connection.  Nothing is closed: what reads the open connection that it
\* replaces goes on.
Open(as) ==
  /\ ws' = "open" /\ stray' = (stray \/ Ready) /\ UNCHANGED <<stream, autoPong>>
  /\ inbox' = <<>> /\ wait' = 0 /\ busy' = 0 /\ outbox' = {}
  /\ peer' = as /\ sincePing' = 0 /\ owed' = FALSE /\ sinceData' = Gap
  /\ refused' = FALSE /\ sinceGone' = 0

\* connect() of the training stream, whose consumer then iterates it.
\* Mutant: connect() is no evidence.
ConnectUnmarked ==
  /\ stream = "training" /\ Open("up") /\ reading' = "frames" /\ UNCHANGED silence

Connect ==
  /\ stream = "training" /\ Open("up") /\ reading' = "frames" /\ silence' = 0

\* connect() of the control stream has its connection, and waits for the greeting.
Dial ==
  /\ stream = "control" /\ Open("accepted") /\ reading' = "greeting" /\ UNCHANGED silence

\* The greeting is there, and the server's heartbeat begins.  The new connection
\* gets a recv loop unless one is running (_ensure_recv_task()).
Greeted ==
  /\ ws = "open" /\ reading = "greeting" /\ silence' = 0 /\ peer' = "up"
  /\ reading' = (IF stray THEN "nothing" ELSE "frames")
  /\ UNCHANGED <<stream, ws, autoPong, stray, inbox, wait, busy, outbox>>
  /\ UNCHANGED <<sincePing, owed, sinceData, refused, sinceGone>>

\* Something else than the greeting comes, or the connection is lost: connect()
\* raises, and leaves the connection as it is.
HandshakeFails ==
  /\ ws = "open" /\ reading = "greeting" /\ reading' = "failed" /\ peer' \in {"up", "gone"}
  /\ UNCHANGED <<stream, ws, silence, autoPong, stray, inbox, wait, busy, outbox>>
  /\ UNCHANGED <<sincePing, owed, sinceData, refused, sinceGone>>

\* disconnect(); that of the control stream cancels the recv loop, wherever it reads.
Disconnect ==
  /\ ws # "none" /\ ws' = "none" /\ stray' = (stray /\ stream = "training")
  /\ UNCHANGED <<stream, silence, autoPong, reading, reader, outbox, server>>

\* A frame is sent; to a peer that is gone, in vain.
Send == outbox' = (IF peer = "up" THEN outbox \cup {0} ELSE outbox)

\* The reader gets a frame.  A ping is answered and forgotten; an application
\* frame, and a ping that the consumer is to answer, is kept for a while.
\* Mutant: pings are not answered.
ReadSilently ==
  /\ Ready /\ inbox # <<>> /\ busy = 0
  /\ silence' = 0 /\ inbox' = Tail(inbox) /\ wait' = 0
  /\ \/ Head(inbox) = "ping" /\ autoPong /\ UNCHANGED <<outbox, busy>>
     \/ ~(Head(inbox) = "ping" /\ autoPong) /\ busy' \in 0..Hold /\ UNCHANGED outbox
  /\ stream = "control" => busy' = 0
  /\ UNCHANGED <<stream, ws, autoPong, reading, stray, server>>

\* Mutant: pings are answered before they can count as evidence.
ReadUnmarked ==
  /\ Ready /\ inbox # <<>> /\ busy = 0
  /\ inbox' = Tail(inbox) /\ wait' = 0
  /\ \/ /\ Head(inbox) = "ping" /\ autoPong
        /\ Send /\ UNCHANGED <<busy, silence>>
     \/ /\ ~(Head(inbox) = "ping" /\ autoPong)
        /\ silence' = 0 /\ busy' \in 0..Hold /\ UNCHANGED outbox
  /\ stream = "control" => busy' = 0
  /\ UNCHANGED <<stream, ws, autoPong, reading, stray, server>>

Read ==
  /\ Ready /\ inbox # <<>> /\ busy = 0
  /\ silence' = 0 /\ inbox' = Tail(inbox) /\ wait' = 0
  /\ \/ Head(inbox) = "ping" /\ autoPong /\ Send /\ UNCHANGED busy
     \/ ~(Head(inbox) = "ping" /\ autoPong) /\ busy' \in 0..Hold /\ UNCHANGED outbox
  /\ stream = "control" => busy' = 0
  /\ UNCHANGED <<stream, ws, autoPong, reading, stray, server>>

\* The application sends: a command, or the answer to a ping that it was given.
\* A command starts the recv loop where none runs.
SendCommand ==
  /\ ws = "open" /\ Send
  /\ stray' = (stray \/ (stream = "control" /\ reading \in {"nothing", "failed"}))
  /\ UNCHANGED <<stream, ws, silence, autoPong, reading, reader, server>>

\* A recv loop or an iteration that is none of this connection's reads a frame: it
\* counts as evidence all the same, and a ping is answered on this connection.  A
\* recv loop then goes on with this connection, and crashes if connect() reads it.
StrayRead ==
  /\ stray /\ silence' = 0 /\ sinceGone' = 0
  /\ \/ ws = "open" /\ autoPong /\ Send
     \/ UNCHANGED outbox
  /\ stray' = (stream = "training" \/ (ws = "open" /\ reading # "greeting"))
  /\ UNCHANGED <<stream, ws, autoPong, reading, reader, peer>>
  /\ UNCHANGED <<sincePing, owed, sinceData, refused>>

\* What it reads is closed.
StrayEnds ==
  /\ stray /\ stray' = FALSE
  /\ UNCHANGED <<stream, ws, silence, autoPong, reading, reader, outbox, server>>

\* The close is processed, or the library's own keepalive fails.
CloseSeen ==
  /\ ws = "open" /\ peer = "gone" /\ ws' = "closed"
  /\ UNCHANGED <<stream, silence, autoPong, reading, stray, reader, outbox, server>>

------------------------------------------------------------------------------
\* The server and the network

Served == ws = "open" /\ peer = "up"
Up == Ready /\ peer = "up"

\* What comes on a connection that nobody reads is not followed.
Arrive(frame) == inbox' = (IF Ready THEN Append(inbox, frame) ELSE inbox)

Ping ==
  /\ Served /\ sincePing = Interval
  /\ Arrive("ping") /\ sincePing' = 0 /\ owed' = TRUE
  /\ UNCHANGED <<client, wait, busy, outbox, peer, sinceData, refused, sinceGone>>

Push ==
  /\ Served /\ sinceData = Gap
  /\ Arrive("data") /\ sinceData' = 0
  /\ UNCHANGED <<client, wait, busy, outbox, peer, sincePing, owed, refused, sinceGone>>

Hear ==
  /\ Served /\ \E age \in outbox : outbox' = outbox \ {age}
  /\ owed' = FALSE
  /\ UNCHANGED <<client, reader, peer, sincePing, sinceData, refused, sinceGone>>

\* The connection has no other side any more; some frames do not arrive.
Lost(refuse) ==
  /\ Served /\ peer' = "gone" /\ refused' = refuse
  /\ \E n \in 0..Len(inbox) : inbox' = SubSeq(inbox, 1, n)
  /\ wait' = 0 /\ outbox' = {} /\ sincePing' = 0 /\ owed' = FALSE /\ sinceData' = 0
  /\ UNCHANGED <<client, busy, sinceGone>>

Refuse == owed /\ sincePing >= PongTimeout /\ Lost(TRUE)
Vanish == Lost(FALSE)

------------------------------------------------------------------------------
\* Time

Readable == inbox # <<>> /\ busy = 0

\* Nothing is due.
MayPass ==
  /\ Readable => wait < Delay
  /\ peer = "up" => /\ sincePing < Interval /\ Delay \notin outbox
                    /\ owed => sincePing < PongTimeout

Tick ==
  /\ ws = "open" /\ MayPass
  /\ silence' = (IF silence = Never THEN Never ELSE Later(silence, Horizon))
  /\ wait' = (IF Readable THEN wait + 1 ELSE wait)
  /\ busy' = (IF busy > 0 THEN busy - 1 ELSE 0)
  /\ outbox' = {age + 1 : age \in outbox}
  /\ sincePing' = (IF peer = "up" THEN sincePing + 1 ELSE sincePing)
  /\ sinceData' = (IF peer = "up" THEN Later(sinceData, Gap) ELSE sinceData)
  /\ sinceGone' = (IF peer = "gone" THEN Later(sinceGone, Horizon) ELSE sinceGone)
  /\ UNCHANGED <<stream, ws, autoPong, reading, stray, inbox, peer, owed, refused>>

Next ==
  \/ Connect \/ Dial \/ Greeted \/ HandshakeFails \/ Disconnect
  \/ Read \/ SendCommand \/ StrayRead \/ StrayEnds \/ CloseSeen
  \/ Ping \/ Push \/ Hear \/ Refuse \/ Vanish \/ Tick

Spec == Init /\ [][Next]_vars

------------------------------------------------------------------------------
\* Properties

\* As long as the peer is up and connect() has left its connection read, is_alive()
\* does not call it dead: a ping that is late, in transit or behind a frame that the
\* consumer still keeps leaves enough of the window (_mark_inbound_frame() before
\* anything else).  It says nothing of a control stream whose connect() is still
\* waiting for the greeting, or failed: there a healthy peer does read as dead.
HealthyIsAlive == Up => Alive

\* The server does not close the connection of a client that answers its pings
\* when it reads them, for all the frames in front of a ping (_send_pong()).
AnswersInTime == refused /\ reading = "frames" => ~autoPong

\* A dead peer is noticed within the window, and the time it takes to read what
\* had come before: frames read late count as late evidence, and so do the frames of
\* other connections that are still read.  The consumer must keep up with pings and
\* application frames, or what there is to read has no bound.
DeathIsNoticed ==
  Ready /\ peer = "gone" /\ sinceGone > Window + 2 * (Delay + Hold) => ~Alive

\* The words of connect() (ws_client.py:605-607): "starts the background recv loop
\* immediately so server heartbeat pings are answered from the moment the connection
\* exists - a control stream that connects and then idles no longer dies 40s later".
\* Where is_alive() had the application connect anew, the loop of the connection
\* that died may still be running, and the new one has none.
AnsweredFromTheStart == refused /\ reading \in {"frames", "nothing"} => ~autoPong
==============================================================================
