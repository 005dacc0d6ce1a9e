---------------------------- MODULE HeartbeatProofs ----------------------------
(***************************************************************************)
(* The timing of the liveness surface, for every value of the intervals    *)
(* that HeartbeatAssumption allows: the types, that a healthy peer is      *)
(* never called dead on a connection that connect() has left read, that    *)
(* pings are answered in time there, and that the death of the peer is     *)
(* noticed by a consumer that keeps up.                                    *)
(***************************************************************************)
EXTENDS Heartbeat, SequenceTheorems, TLAPS

\* What the assumption says, as facts of arithmetic.
LEMMA Times ==
  /\ Interval \in Nat /\ PongTimeout \in Nat /\ Window \in Nat
  /\ Delay \in Nat /\ Hold \in Nat /\ Gap \in Nat
  /\ Hold + 2 * Delay < Gap /\ Hold + 4 * Delay < PongTimeout
  /\ PongTimeout <= Interval /\ Interval + Delay <= Window
  BY HeartbeatAssumption DEF HeartbeatAssumption

\* What the library says of the first frame and the rest.
LEMMA Frames ==
  ASSUME NEW S, NEW q \in Seq(S)
  PROVE  /\ <<>> \in Seq(S)
         /\ \A e \in S : Append(q, e) \in Seq(S)
         /\ q # <<>> => Head(q) \in S /\ Tail(q) \in Seq(S)
         /\ \A n \in 0..Len(q) : SubSeq(q, 1, n) \in Seq(S)
<1>1. <<>> \in Seq(S) /\ \A e \in S : Append(q, e) \in Seq(S)
  BY EmptySeq, AppendProperties
<1>2. q # <<>> => Head(q) \in S /\ Tail(q) \in Seq(S)
  BY HeadTailProperties
<1>3. ASSUME NEW n \in 0..Len(q)
      PROVE  SubSeq(q, 1, n) \in Seq(S)
  <2>1. \A i \in 1..n : q[i] \in S
    BY LenProperties
  <2>2. QED
    BY <2>1, SubSeqProperties
<1>4. QED
  BY <1>1, <1>2, <1>3

\* Only a peer that is up takes anything.
Drained == peer # "up" => outbox = {}

\* Nothing is between the two sides before the greeting.
Fresh ==
  reading = "greeting" =>
    /\ peer = "accepted" /\ inbox = <<>> /\ wait = 0 /\ busy = 0
    /\ ~owed /\ ~refused /\ sinceGone = 0

Typed == TypeOK /\ Drained /\ Fresh

LEMMA HorizonFacts ==
  Horizon \in Nat /\ Horizon > Window /\ Horizon >= Hold
  BY Times DEF Horizon

------------------------------------------------------------------------------
\* Type correctness

LEMMA InitTyped == Init => Typed
<1> SUFFICES ASSUME Init
             PROVE  Typed
  OBVIOUS
<1>1. inbox \in Seq({"data", "ping"}) /\ outbox \subseteq 0..Delay
  BY EmptySeq DEF Init
<1>2. /\ ws \in {"none", "open", "closed"} /\ peer \in {"accepted", "up", "gone"} /\ ~Ready
      /\ stream \in Streams /\ stray \in BOOLEAN /\ reading = "nothing"
  BY DEF Init, Ready
<1>3. autoPong \in AutoPongs /\ owed \in BOOLEAN /\ refused \in BOOLEAN
  BY DEF Init
<1>4. /\ silence \in 0..Horizon \cup {Never} /\ wait \in 0..Delay /\ busy \in 0..Hold
      /\ sincePing \in 0..Interval /\ sinceData \in 0..Gap /\ sinceGone \in 0..Horizon
  BY Times, HorizonFacts DEF Init
<1>5. Drained /\ Fresh
  BY DEF Init, Drained, Fresh
<1>6. QED
  BY <1>1, <1>2, <1>3, <1>4, <1>5 DEF Typed, TypeOK

LEMMA SendTyped ==
  ASSUME Typed, Send
  PROVE  outbox' \subseteq 0..Delay /\ (peer # "up" => outbox' = {})
<1>1. outbox \subseteq 0..Delay /\ 0 \in 0..Delay
  BY Times DEF Typed, TypeOK
<1>2. QED
  BY <1>1 DEF Typed, Drained, Send

LEMMA OpenTyped ==
  ASSUME Typed, NEW as \in {"accepted", "up"}, Open(as),
         \/ reading' = "greeting" /\ as = "accepted" /\ silence' = silence
         \/ reading' = "frames" /\ silence' = 0
  PROVE  Typed'
<1>1. inbox' \in Seq({"data", "ping"}) /\ outbox' \subseteq 0..Delay
  BY EmptySeq DEF Open
<1>2. /\ ws' = "open" /\ peer' = as /\ outbox' = {} /\ inbox' = <<>> /\ busy' = 0
      /\ wait' = 0 /\ owed' = FALSE /\ refused' = FALSE /\ sinceGone' = 0
      /\ stream' = stream /\ autoPong' = autoPong
  BY DEF Open
<1>3. stream' \in Streams /\ autoPong' \in AutoPongs /\ stray' \in BOOLEAN
  BY DEF Open, Ready, Typed, TypeOK
<1>4. /\ wait' \in 0..Delay /\ busy' \in 0..Hold
      /\ sincePing' \in 0..Interval /\ sinceData' \in 0..Gap /\ sinceGone' \in 0..Horizon
  BY Times, HorizonFacts DEF Open
<1>5. silence' \in 0..Horizon \cup {Never} /\ (Ready' => silence' # Never)
  <2>1. 0 \in 0..Horizon /\ 0 # Never
    BY HorizonFacts DEF Never
  <2>2. silence \in 0..Horizon \cup {Never}
    BY DEF Typed, TypeOK
  <2>3. Ready' => reading' = "frames"
    BY DEF Ready
  <2>4. QED
    BY <2>1, <2>2, <2>3, Zenon
<1>6. Drained' /\ Fresh'
  BY <1>2 DEF Drained, Fresh
<1>7. QED
  BY <1>1, <1>2, <1>3, <1>4, <1>5, <1>6 DEF Typed, TypeOK

LEMMA ConnectTyped ==
  ASSUME Typed, Connect \/ Dial \/ Greeted \/ HandshakeFails
  PROVE  Typed'
<1>1. CASE Connect \/ Dial
  BY <1>1, OpenTyped DEF Connect, Dial
<1>2. CASE Greeted
  <2>1. /\ reading' \in {"nothing", "frames"} /\ silence' = 0 /\ peer' = "up"
        /\ UNCHANGED <<stream, ws, autoPong, stray, inbox, wait, busy, outbox>>
        /\ UNCHANGED <<sincePing, owed, sinceData, refused, sinceGone>>
    BY <1>2 DEF Greeted
  <2>2. silence' \in 0..Horizon /\ silence' # Never
    BY <2>1, HorizonFacts DEF Never
  <2>3. QED
    BY <2>1, <2>2 DEF Typed, TypeOK, Drained, Fresh
<1>3. CASE HandshakeFails
  <2>1. /\ reading' = "failed" /\ peer' \in {"up", "gone"} /\ outbox = {}
        /\ UNCHANGED <<stream, ws, silence, autoPong, stray, inbox, wait, busy, outbox>>
        /\ UNCHANGED <<sincePing, owed, sinceData, refused, sinceGone>>
    BY <1>3 DEF HandshakeFails, Typed, Fresh, Drained
  <2>2. QED
    BY <2>1 DEF Typed, TypeOK, Drained, Fresh, Ready
<1>4. QED
  BY <1>1, <1>2, <1>3

LEMMA ClientTyped ==
  ASSUME Typed, Disconnect \/ Read \/ SendCommand \/ CloseSeen
  PROVE  Typed'
<1>1. CASE Disconnect
  <2>1. ws' = "none" /\ stray' \in BOOLEAN
    BY <1>1 DEF Disconnect, Typed, TypeOK
  <2>2. QED
    BY <1>1, <2>1 DEF Disconnect, Typed, TypeOK, Drained, Fresh, Ready, reader, server
<1>2. CASE CloseSeen
  BY <1>2 DEF CloseSeen, Typed, TypeOK, Drained, Fresh, Ready, reader, server
<1>3. CASE Read
  <2>1. inbox' \in Seq({"data", "ping"})
    BY <1>3, Frames DEF Read, Typed, TypeOK
  <2>2. outbox' \subseteq 0..Delay /\ (peer # "up" => outbox' = {})
    <3>1. outbox' = outbox \/ Send
      BY <1>3 DEF Read
    <3>2. QED
      BY <3>1, SendTyped DEF Typed, TypeOK, Drained
  <2>3. busy' \in 0..Hold
    BY <1>3 DEF Read, Typed, TypeOK
  <2>4. /\ silence' \in 0..Horizon /\ silence' # Never /\ wait' \in 0..Delay
        /\ reading' = "frames" /\ peer' = peer
    BY <1>3, Times, HorizonFacts DEF Read, Ready, Never, server
  <2>5. UNCHANGED <<stream, ws, autoPong, reading, stray, server>>
    BY <1>3 DEF Read
  <2>6. QED
    BY <2>1, <2>2, <2>3, <2>4, <2>5 DEF Typed, TypeOK, Drained, Fresh, server
<1>4. CASE SendCommand
  <2>1. outbox' \subseteq 0..Delay /\ (peer # "up" => outbox' = {})
    BY <1>4, SendTyped DEF SendCommand
  <2>2. stray' \in BOOLEAN
    BY <1>4 DEF SendCommand, Typed, TypeOK
  <2>3. UNCHANGED <<stream, ws, silence, autoPong, reading, reader, server>>
    BY <1>4 DEF SendCommand
  <2>4. QED
    BY <2>1, <2>2, <2>3 DEF Typed, TypeOK, Drained, Fresh, Ready, reader, server
<1>5. QED
  BY <1>1, <1>2, <1>3, <1>4

LEMMA StrayTyped ==
  ASSUME Typed, StrayRead \/ StrayEnds
  PROVE  Typed'
<1>1. CASE StrayRead
  <2>1. outbox' \subseteq 0..Delay /\ (peer # "up" => outbox' = {})
    <3>1. outbox' = outbox \/ Send
      BY <1>1 DEF StrayRead
    <3>2. QED
      BY <3>1, SendTyped DEF Typed, TypeOK, Drained
  <2>2. /\ silence' \in 0..Horizon /\ silence' # Never /\ sinceGone' \in 0..Horizon
        /\ sinceGone' = 0
    BY <1>1, HorizonFacts DEF StrayRead, Never
  <2>3. stray' \in BOOLEAN
    BY <1>1 DEF StrayRead
  <2>4. /\ UNCHANGED <<stream, ws, autoPong, reading, reader, peer>>
        /\ UNCHANGED <<sincePing, owed, sinceData, refused>>
    BY <1>1 DEF StrayRead
  <2>5. QED
    BY <2>1, <2>2, <2>3, <2>4 DEF Typed, TypeOK, Drained, Fresh, reader
<1>2. CASE StrayEnds
  BY <1>2 DEF StrayEnds, Typed, TypeOK, Drained, Fresh, Ready, reader, server
<1>3. QED
  BY <1>1, <1>2

LEMMA LostTyped ==
  ASSUME Typed, NEW refuse \in BOOLEAN, Lost(refuse)
  PROVE  Typed'
<1>1. inbox' \in Seq({"data", "ping"})
  BY Frames DEF Lost, Typed, TypeOK
<1>2. /\ outbox' \subseteq 0..Delay /\ outbox' = {} /\ peer' = "gone"
      /\ reading' = reading /\ reading # "greeting"
  BY DEF Lost, Served, Typed, Fresh, client
<1>3. wait' \in 0..Delay /\ sincePing' \in 0..Interval /\ sinceData' \in 0..Gap
  BY Times DEF Lost
<1>4. QED
  BY <1>1, <1>2, <1>3 DEF Lost, Typed, TypeOK, Drained, Fresh, Ready, client

LEMMA ServerTyped ==
  ASSUME Typed, Ping \/ Push \/ Hear \/ Refuse \/ Vanish
  PROVE  Typed'
<1>1. CASE Ping \/ Push
  <2>1. inbox' \in Seq({"data", "ping"})
    BY <1>1, Frames DEF Ping, Push, Arrive, Typed, TypeOK
  <2>2. sincePing' \in 0..Interval /\ sinceData' \in 0..Gap
    BY <1>1, Times DEF Ping, Push, Typed, TypeOK
  <2>3. owed' \in BOOLEAN
    BY <1>1 DEF Ping, Push, Typed, TypeOK
  <2>4. peer' = "up" /\ reading' = reading /\ reading # "greeting"
    BY <1>1 DEF Ping, Push, Served, Typed, Fresh, client
  <2>5. QED
    BY <1>1, <2>1, <2>2, <2>3, <2>4 DEF Ping, Push, Typed, TypeOK, Drained, Fresh, Ready, client
<1>2. CASE Hear
  <2>1. peer' = "up" /\ reading' = reading /\ reading # "greeting"
    BY <1>2 DEF Hear, Served, Typed, Fresh, client
  <2>2. QED
    BY <1>2, <2>1 DEF Hear, Typed, TypeOK, Drained, Fresh, Ready, client, reader
<1>3. CASE Refuse \/ Vanish
  BY <1>3, LostTyped DEF Refuse, Vanish
<1>4. QED
  BY <1>1, <1>2, <1>3

LEMMA TickTyped ==
  ASSUME Typed, Tick
  PROVE  Typed'
<1>1. outbox' \subseteq 0..Delay /\ (peer # "up" => outbox' = {})
  BY Times DEF Tick, MayPass, Typed, TypeOK, Drained
<1>2. silence' \in 0..Horizon \cup {Never} /\ (silence # Never => silence' # Never)
  BY HorizonFacts DEF Tick, Later, Typed, TypeOK, Never
<1>3. wait' \in 0..Delay /\ busy' \in 0..Hold
  BY Times DEF Tick, MayPass, Readable, Typed, TypeOK
<1>4. sincePing' \in 0..Interval /\ sinceData' \in 0..Gap /\ sinceGone' \in 0..Horizon
  <2>1. /\ sincePing \in 0..Interval /\ sinceData \in 0..Gap /\ sinceGone \in 0..Horizon
        /\ Interval \in Nat /\ Gap \in Nat /\ Horizon \in Nat
    BY Times, HorizonFacts DEF Typed, TypeOK
  <2>2. /\ sincePing' = sincePing \/ (sincePing < Interval /\ sincePing' = sincePing + 1)
        /\ sinceData' = sinceData \/ sinceData' = Later(sinceData, Gap)
        /\ sinceGone' = sinceGone \/ sinceGone' = Later(sinceGone, Horizon)
    BY DEF Tick, MayPass
  <2>3. sincePing' \in 0..Interval
    BY <2>1, <2>2
  <2>4. sinceData' \in 0..Gap
    BY <2>1, <2>2 DEF Later
  <2>5. sinceGone' \in 0..Horizon
    BY <2>1, <2>2 DEF Later
  <2>6. QED
    BY <2>3, <2>4, <2>5
<1>5. Fresh'
  <2> SUFFICES ASSUME reading = "greeting"
               PROVE  Fresh'
    BY DEF Tick, Fresh
  <2>1. /\ peer = "accepted" /\ inbox = <<>> /\ wait = 0 /\ busy = 0
        /\ ~owed /\ ~refused /\ sinceGone = 0
    BY DEF Typed, Fresh
  <2>2. inbox' = <<>> /\ wait' = 0 /\ busy' = 0 /\ sinceGone' = 0
    BY <2>1 DEF Tick, Readable
  <2>3. QED
    BY <2>1, <2>2 DEF Tick, Fresh
<1>6. UNCHANGED <<stream, ws, autoPong, reading, stray, inbox, peer, owed, refused>>
  BY DEF Tick
<1>7. QED
  BY <1>1, <1>2, <1>3, <1>4, <1>5, <1>6 DEF Typed, TypeOK, Drained, Ready

LEMMA StepTyped == Typed /\ [Next]_vars => Typed'
<1> SUFFICES ASSUME Typed, [Next]_vars
             PROVE  Typed'
  OBVIOUS
<1>1. CASE UNCHANGED vars
  BY <1>1 DEF vars, client, reader, server, Typed, TypeOK, Drained, Fresh, Ready
<1>2. CASE Next
  BY <1>2, ConnectTyped, ClientTyped, StrayTyped, ServerTyped, TickTyped DEF Next
<1>3. QED
  BY <1>1, <1>2

LEMMA AlwaysTyped == Spec => []Typed
  BY InitTyped, StepTyped, PTL DEF Spec

\* Every variable keeps its type: clocks stay within their horizon, frames are
\* read and pongs arrive within the delay, for any intervals.
THEOREM TypeCorrect == Spec => []TypeOK
<1>1. Typed => TypeOK
  BY DEF Typed
<1>2. QED
  BY <1>1, AlwaysTyped, PTL

------------------------------------------------------------------------------
\* A healthy peer is alive

\* How long nothing was read: not longer than the latest ping is old, if all is
\* read, as long as the consumer keeps its frame, if one does, and else at most
\* an interval more than the next frame has waited.
Quiet ==
  /\ inbox = <<>> \/ busy > 0 => wait = 0
  /\ busy > 0 => silence + busy <= Hold
  /\ Up /\ inbox = <<>> => silence <= sincePing
  /\ Up /\ inbox # <<>> /\ busy = 0 => silence <= Interval + wait

\* The numbers among the types.
LEMMA Clocks ==
  ASSUME Typed
  PROVE  /\ silence \in Int /\ silence >= -1 /\ silence <= Horizon
         /\ wait \in Nat /\ wait <= Delay /\ busy \in Nat /\ busy <= Hold
         /\ sincePing \in Nat /\ sincePing <= Interval /\ sinceData \in Nat /\ sinceData <= Gap
         /\ outbox \subseteq Nat /\ inbox \in Seq({"data", "ping"})
         /\ Ready => silence \in Nat
  BY Times, HorizonFacts DEF Typed, TypeOK, Never

LEMMA NoSummand == \A x \in Int : x + 0 = x /\ 0 + x = x
  OBVIOUS

LEMMA InitQuiet == Init => Quiet
  BY DEF Init, Quiet, Up, Ready

LEMMA ConnectQuiet ==
  ASSUME Typed, Quiet, Connect \/ Dial \/ Greeted \/ HandshakeFails
  PROVE  Quiet'
<1>1. CASE Connect
  BY <1>1, Times DEF Connect, Open, Quiet, Up
<1>2. CASE Dial
  BY <1>2 DEF Dial, Open, Quiet, Up, Ready
<1>3. CASE Greeted
  <2>1. /\ silence' = 0 /\ inbox' = <<>> /\ wait' = 0 /\ ~(busy' > 0)
        /\ sincePing' = sincePing
    BY <1>3 DEF Greeted, Typed, Fresh
  <2>2. 0 <= sincePing
    BY Clocks
  <2>3. silence' <= sincePing'
    BY <2>1, <2>2, Zenon
  <2>4. QED
    BY <2>1, <2>3 DEF Quiet
<1>4. CASE HandshakeFails
  <2>1. inbox' = <<>> /\ wait' = 0 /\ ~(busy' > 0) /\ ~Up'
    BY <1>4 DEF HandshakeFails, Typed, Fresh, Up, Ready
  <2>2. QED
    BY <2>1 DEF Quiet
<1>5. QED
  BY <1>1, <1>2, <1>3, <1>4

LEMMA ClientQuiet ==
  ASSUME Typed, Quiet, Disconnect \/ Read \/ SendCommand \/ CloseSeen
  PROVE  Quiet'
<1>2. CASE Disconnect \/ CloseSeen
  BY <1>2, Clocks DEF Disconnect, CloseSeen, Quiet, Up, Ready, reader, server
<1>3. CASE Read
  <2>1. silence' = 0 /\ wait' = 0 /\ busy' \in 0..Hold /\ sincePing' = sincePing
    BY <1>3, Times, Clocks DEF Read, server
  <2>2. Hold \in Nat /\ Interval \in Nat /\ sincePing \in Nat
        /\ busy' \in Int /\ busy' <= Hold
    BY <2>1, Times, Clocks
  <2>3. 0 <= sincePing /\ 0 <= Interval + 0
    BY <2>2
  <2>4. 0 + busy' = busy'
    BY <2>2, NoSummand, Zenon
  <2>5. silence' + busy' <= Hold
    BY <2>1, <2>2, <2>4, Zenon
  <2>6. silence' <= sincePing' /\ silence' <= Interval + wait'
    BY <2>1, <2>3, Zenon
  <2>7. QED
    BY <2>1, <2>5, <2>6, Zenon DEF Quiet
<1>4. CASE SendCommand
  BY <1>4 DEF SendCommand, Quiet, Up, Ready, reader, server
<1>5. QED
  BY <1>2, <1>3, <1>4

LEMMA StrayQuiet ==
  ASSUME Typed, Quiet, StrayRead \/ StrayEnds
  PROVE  Quiet'
<1>1. CASE StrayRead
  <2>1. silence' = 0 /\ inbox' = inbox /\ wait' = wait /\ busy' = busy /\ sincePing' = sincePing
    BY <1>1 DEF StrayRead, reader
  <2>2. /\ Interval \in Nat /\ sincePing \in Nat /\ wait \in Nat
        /\ busy \in Nat /\ busy <= Hold
    BY Times, Clocks
  <2>3. 0 <= sincePing /\ 0 <= Interval + wait
    BY <2>2
  <2>4. busy \in Int /\ 0 + busy = busy
    BY <2>2, NoSummand
  <2>5. silence' + busy' <= Hold
    BY <2>1, <2>2, <2>4, Zenon
  <2>6. silence' <= sincePing' /\ silence' <= Interval + wait'
    BY <2>1, <2>3, Zenon
  <2>7. inbox' = <<>> \/ busy' > 0 => wait' = 0
    BY <2>1 DEF Quiet
  <2>8. QED
    BY <2>5, <2>6, <2>7 DEF Quiet
<1>2. CASE StrayEnds
  BY <1>2 DEF StrayEnds, Quiet, Up, Ready, reader, server
<1>3. QED
  BY <1>1, <1>2

LEMMA ServerQuiet ==
  ASSUME Typed, Quiet, Ping \/ Push \/ Hear \/ Refuse \/ Vanish
  PROVE  Quiet'
<1>1. CASE Ping \/ Push
  <2>1. silence' = silence /\ wait' = wait /\ busy' = busy /\ Up' = Up
    BY <1>1 DEF Ping, Push, client, Up, Ready
  <2>2. CASE Ready
    <3>1. inbox' # <<>> /\ Up
      BY <1>1, <2>2, Clocks, AppendProperties DEF Ping, Push, Arrive, Served, Up
    <3>2. inbox = <<>> => silence <= Interval /\ wait = 0
      BY <3>1, Times, Clocks DEF Quiet
    <3>3. silence \in Nat /\ busy = 0 => silence <= Interval + wait
      BY <3>1, <3>2, Clocks, Times DEF Quiet
    <3>4. silence \in Nat
      BY <2>2, Clocks
    <3>5. QED
      BY <2>1, <3>1, <3>3, <3>4 DEF Quiet
  <2>3. CASE ~Ready
    BY <1>1, <2>1, <2>3 DEF Ping, Push, Arrive, Quiet, Up
  <2>4. QED
    BY <2>2, <2>3
<1>2. CASE Hear
  BY <1>2 DEF Hear, Quiet, Up, Ready, client, reader
<1>3. CASE Refuse \/ Vanish
  <2>1. peer' = "gone" /\ wait' = 0 /\ busy' = busy /\ silence' = silence
    BY <1>3 DEF Refuse, Vanish, Lost, client
  <2>2. QED
    BY <2>1 DEF Quiet, Up
<1>4. QED
  BY <1>1, <1>2, <1>3

LEMMA TickQuiet ==
  ASSUME Typed, Quiet, Tick
  PROVE  Quiet'
<1>1. /\ silence \in Int /\ silence' \in Int
      /\ silence' <= silence + 1 /\ inbox' = inbox
  <2>1. /\ silence' = silence \/ silence' = Later(silence, Horizon)
        /\ inbox' = inbox
    BY DEF Tick
  <2>2. silence \in Int /\ silence <= Horizon /\ Horizon \in Nat
    BY Clocks, HorizonFacts
  <2>3. QED
    BY <2>1, <2>2 DEF Later
<1>2. (inbox = <<>> \/ busy > 0) => wait' = 0
  BY Clocks DEF Tick, Readable, Quiet
<1>3. busy > 0 => busy' = busy - 1
  BY DEF Tick
<1>4. busy = 0 => busy' = 0
  BY DEF Tick
<1>5. busy > 0 => silence' + busy' <= Hold
  BY <1>1, <1>3, Clocks, Times DEF Quiet
<1>6. Up' => Up /\ sincePing' = sincePing + 1
  BY DEF Tick, Up, Ready
<1>7. Up' /\ inbox = <<>> => silence' <= sincePing'
  BY <1>1, <1>6, Clocks DEF Quiet
<1>8. ASSUME Up', inbox # <<>>, busy' = 0
      PROVE  silence' <= Interval + wait'
  <2>1. CASE busy = 0
    <3>1. wait' = wait + 1
      BY <1>8, <2>1 DEF Tick, Readable
    <3>2. silence <= Interval + wait
      BY <1>6, <1>8, <2>1 DEF Quiet
    <3>3. wait \in Nat /\ Interval \in Nat
      BY Clocks, Times
    <3>4. silence' <= Interval + (wait + 1)
      BY <1>1, <3>2, <3>3
    <3>5. QED
      BY <3>1, <3>4, Zenon
  <2>2. CASE busy > 0
    <3>1. wait' = 0 /\ silence' + 0 <= Hold
      BY <1>2, <1>5, <1>8, <2>2
    <3>2. Hold \in Nat /\ Interval \in Nat /\ Hold <= Interval
      BY Times
    <3>3. silence' \in Int /\ Interval \in Int
      BY <1>1, <3>2
    <3>4. silence' + 0 = silence' /\ Interval + 0 = Interval
      BY <3>3, NoSummand, Zenon
    <3>5. silence' <= Hold
      BY <3>1, <3>4, Zenon
    <3>6. silence' <= Interval
      BY <3>2, <3>3, <3>5
    <3>7. Interval + wait' = Interval
      BY <3>1, <3>4, Zenon
    <3>8. QED
      BY <3>6, <3>7, Zenon
  <2>3. QED
    BY <2>1, <2>2, Clocks
<1>9. busy' > 0 => busy > 0
  BY <1>4, Clocks
<1>10. QED
  BY <1>1, <1>2, <1>5, <1>7, <1>8, <1>9 DEF Quiet

LEMMA StepQuiet == Typed /\ Quiet /\ [Next]_vars => Quiet'
<1> SUFFICES ASSUME Typed, Quiet, [Next]_vars
             PROVE  Quiet'
  OBVIOUS
<1>1. CASE UNCHANGED vars
  BY <1>1 DEF vars, client, reader, server, Quiet, Up, Ready
<1>2. CASE Next
  BY <1>2, ConnectQuiet, ClientQuiet, StrayQuiet, ServerQuiet, TickQuiet DEF Next
<1>3. QED
  BY <1>1, <1>2

\* Whatever the intervals, a peer that is up is never declared dead by is_alive() of a
\* stream whose connect() has returned and whose connection is read (for the control
\* stream: with the greeting, and with a recv loop of its own): the window covers an
\* interval and the delay, and the assumption keeps the consumer's pauses below the
\* interval.
THEOREM HealthyPeerIsAlive == Spec => []HealthyIsAlive
<1>1. Typed /\ Quiet => HealthyIsAlive
  <2> SUFFICES ASSUME Typed, Quiet, Up
               PROVE  Alive
    BY DEF HealthyIsAlive
  <2>1. ws = "open" /\ silence \in Nat
    BY Clocks DEF Up, Ready
  <2>2. silence <= Interval + Delay
    <3>1. CASE inbox = <<>>
      BY <3>1, <2>1, Clocks, Times DEF Quiet
    <3>2. CASE inbox # <<>> /\ busy = 0
      BY <3>2, <2>1, Clocks, Times DEF Quiet
    <3>3. CASE busy > 0
      BY <3>3, <2>1, Clocks, Times DEF Quiet
    <3>4. QED
      BY <3>1, <3>2, <3>3, Clocks
  <2>3. silence # Never
    BY <2>1 DEF Never
  <2>4. QED
    BY <2>1, <2>2, <2>3, Times DEF Alive
<1>2. Spec => []Quiet
  BY InitQuiet, StepQuiet, AlwaysTyped, PTL DEF Spec
<1>3. QED
  BY <1>1, <1>2, AlwaysTyped, PTL

------------------------------------------------------------------------------
\* Pings are answered in time

\* What can be on its way to a reader that keeps up.
D  == <<"data">>
P  == <<"ping">>
DP == Append(D, "ping")
PD == Append(P, "data")

LEMMA Shapes ==
  /\ Append(<<>>, "ping") = P /\ Append(D, "ping") = DP
  /\ Append(<<>>, "data") = D /\ Append(P, "data") = PD
  /\ Tail(D) = <<>> /\ Tail(P) = <<>> /\ Tail(DP) = P /\ Tail(PD) = D
  /\ Head(D) = "data" /\ Head(P) = "ping" /\ Head(DP) = "data" /\ Head(PD) = "ping"
<1>1. Append(<<>>, "ping") = P /\ Append(<<>>, "data") = D
  BY DEF D, P
<1>2. Append(D, "ping") = DP /\ Append(P, "data") = PD
  BY DEF DP, PD
<1>3. /\ Tail(D) = <<>> /\ Tail(P) = <<>>
      /\ Head(D) = "data" /\ Head(P) = "ping"
      /\ D # <<>> /\ P # <<>> /\ D \in Seq({"data", "ping"}) /\ P \in Seq({"data", "ping"})
  <2>1. <<>> \in Seq({"data", "ping"})
    BY EmptySeq
  <2>2. D \in Seq({"data", "ping"}) /\ P \in Seq({"data", "ping"})
    <3>1. "data" \in {"data", "ping"} /\ "ping" \in {"data", "ping"}
      OBVIOUS
    <3>2. \A e \in {"data", "ping"} : Append(<<>>, e) \in Seq({"data", "ping"})
      BY <2>1, AppendProperties
    <3>3. QED
      BY <1>1, <3>1, <3>2, Zenon
  <2>3. D # <<>> /\ P # <<>>
    BY <1>1, <2>1, AppendProperties
  <2>4. Tail(D) = <<>> /\ Tail(P) = <<>> /\ Head(D) = "data" /\ Head(P) = "ping"
    BY <1>1, <2>1, HeadTailAppend
  <2>5. QED
    BY <2>2, <2>3, <2>4
<1>4. Tail(DP) = P /\ Head(DP) = "data"
  BY <1>1, <1>3, HeadTailAppend DEF DP
<1>5. Tail(PD) = D /\ Head(PD) = "ping"
  BY <1>1, <1>3, HeadTailAppend DEF PD
<1>6. QED
  BY <1>1, <1>2, <1>3, <1>4, <1>5

LEMMA Distinct ==
  /\ D # <<>> /\ P # <<>> /\ DP # <<>> /\ PD # <<>>
  /\ D # P /\ D # DP /\ D # PD /\ P # DP /\ P # PD /\ DP # PD
<1>1. D # <<>> /\ P # <<>> /\ D # P
  BY DEF D, P
<1>2. Tail(D) = <<>> /\ Tail(P) = <<>> /\ Tail(DP) = P /\ Tail(PD) = D
  BY Shapes
<1>3. DP # <<>> /\ PD # <<>>
  BY Shapes, HeadTailProperties, AppendProperties DEF D, P, DP, PD
<1>4. QED
  BY <1>1, <1>2, <1>3

\* Application frames are too far apart to queue up, and what the server has been
\* waiting for is either a ping that is about to be read, or a frame of the client
\* that was sent no later than the latest reading of the ping.
DataTimes ==
  /\ inbox \in {<<>>, D, P, DP, PD}
  /\ busy > 0 => inbox \in {<<>>, P} /\ sinceData + busy <= Hold + 2 * Delay
  /\ inbox \in {D, DP} => sinceData <= Delay + wait
  /\ inbox = PD => sinceData <= wait

PingTimes ==
  /\ inbox = DP => sincePing <= wait
  /\ inbox = P /\ busy > 0 => sincePing + busy <= Hold + Delay
  /\ inbox \in {P, PD} /\ busy = 0 => sincePing <= Hold + Delay + wait

Owing ==
  owed => \/ inbox \in {P, DP, PD}
          \/ \E age \in outbox : sincePing <= Hold + 2 * Delay + age

Prompt == autoPong /\ Up => DataTimes /\ PingTimes /\ Owing

LEMMA InitPrompt == Init => Prompt
  BY DEF Init, Prompt, Up

LEMMA ConnectPrompt ==
  ASSUME Typed, Prompt, Connect \/ Dial \/ Greeted \/ HandshakeFails
  PROVE  Prompt'
<1>1. CASE Dial \/ HandshakeFails
  BY <1>1 DEF Dial, HandshakeFails, Prompt, Up, Ready
<1>2. CASE Connect \/ Greeted
  <2>1. inbox' = <<>> /\ ~(busy' > 0) /\ ~owed'
    BY <1>2 DEF Connect, Open, Greeted, Typed, Fresh
  <2>2. QED
    BY <2>1, Distinct DEF Prompt, DataTimes, PingTimes, Owing
<1>3. QED
  BY <1>1, <1>2

LEMMA ClientPrompt ==
  ASSUME Typed, Prompt, Disconnect \/ SendCommand \/ StrayRead \/ StrayEnds \/ CloseSeen
  PROVE  Prompt'
<1>1. CASE Disconnect \/ CloseSeen
  BY <1>1 DEF Disconnect, CloseSeen, Prompt, Up, Ready
<1>2. CASE SendCommand \/ StrayRead \/ StrayEnds
  <2>1. outbox \subseteq outbox'
    BY <1>2 DEF SendCommand, StrayRead, StrayEnds, Send
  <2>2. UNCHANGED <<ws, autoPong, reading, reader, peer, sincePing, owed, sinceData>>
    BY <1>2 DEF SendCommand, StrayRead, StrayEnds, server
  <2>3. Owing => Owing'
    BY <2>1, <2>2 DEF Owing, reader
  <2>4. QED
    BY <2>2, <2>3 DEF Prompt, DataTimes, PingTimes, Up, Ready, reader
<1>3. QED
  BY <1>1, <1>2

LEMMA ReadPrompt ==
  ASSUME Typed, Quiet, Prompt, Read, autoPong, Up
  PROVE  DataTimes' /\ PingTimes' /\ Owing'
<1>1. /\ inbox # <<>> /\ ~(busy > 0) /\ busy = 0 /\ inbox' = Tail(inbox)
      /\ sincePing' = sincePing /\ sinceData' = sinceData /\ owed' = owed
  BY DEF Read, server
<1>2. DataTimes /\ PingTimes /\ Owing
  BY DEF Prompt
<1>3. /\ Hold \in Nat /\ Delay \in Nat /\ wait \in Nat /\ wait <= Delay /\ wait' \in Nat
      /\ sincePing \in Nat /\ sinceData \in Nat
  BY Times, Clocks DEF Read
<1>4. CASE inbox \in {D, DP}
  <2>1. Head(inbox) = "data" /\ busy' \in 0..Hold /\ outbox' = outbox
    BY <1>4, Shapes DEF Read
  <2>2. busy' \in Nat /\ busy' <= Hold
    BY <2>1, <1>3
  <2>3. sinceData <= Delay + Delay
    BY <1>2, <1>3, <1>4 DEF DataTimes
  <2>4. sinceData + busy' <= Hold + 2 * Delay
    <3>1. \A a, b, c, d \in Nat : a <= c + c /\ b <= d => a + b <= d + 2 * c
      OBVIOUS
    <3>2. QED
      BY <1>3, <2>2, <2>3, <3>1
  <2>5. CASE inbox = D
    <3>1. inbox' = <<>>
      BY <1>1, <2>5, Shapes
    <3>2. Owing'
      BY <1>1, <1>2, <2>1, <2>5, Distinct DEF Owing
    <3>3. QED
      BY <1>1, <2>4, <3>1, <3>2, Distinct DEF DataTimes, PingTimes
  <2>6. CASE inbox = DP
    <3>1. inbox' = P
      BY <1>1, <2>6, Shapes
    <3>2. sincePing <= Delay
      BY <1>2, <1>3, <2>6 DEF PingTimes
    <3>3. sincePing + busy' <= Hold + Delay
      <4>1. \A a, b, c, d \in Nat : a <= c /\ b <= d => a + b <= d + c
        OBVIOUS
      <4>2. QED
        BY <1>3, <2>2, <3>2, <4>1
    <3>5. sincePing <= Hold + Delay + wait'
      <4>1. \A a, b, c, d \in Nat : a <= b => a <= c + b + d
        OBVIOUS
      <4>2. QED
        BY <1>3, <3>2, <4>1
    <3>4. QED
      BY <1>1, <2>4, <3>1, <3>3, <3>5, Distinct DEF DataTimes, PingTimes, Owing
  <2>7. QED
    BY <1>4, <2>5, <2>6
<1>5. CASE inbox \in {P, PD}
  <2>1. Head(inbox) = "ping" /\ busy' = busy /\ Send
    BY <1>5, Shapes DEF Read
  <2>2. 0 \in outbox'
    BY <2>1 DEF Send, Up
  <2>3. sincePing <= Hold + Delay + wait
    BY <1>1, <1>2, <1>5 DEF PingTimes
  <2>4. sincePing <= Hold + 2 * Delay + 0
    BY <1>3, <2>3
  <2>5. Owing'
    BY <1>1, <2>2, <2>4, Zenon DEF Owing
  <2>6. CASE inbox = P
    <3>1. inbox' = <<>>
      BY <1>1, <2>6, Shapes
    <3>2. QED
      BY <1>1, <2>1, <2>5, <3>1, Distinct DEF DataTimes, PingTimes
  <2>7. CASE inbox = PD
    <3>1. inbox' = D
      BY <1>1, <2>7, Shapes
    <3>2. sinceData <= Delay + wait'
      <4>1. sinceData <= Delay
        BY <1>2, <1>3, <2>7 DEF DataTimes
      <4>2. \A a, b, c \in Nat : a <= b => a <= b + c
        OBVIOUS
      <4>3. QED
        BY <1>3, <4>1, <4>2
    <3>3. QED
      BY <1>1, <2>1, <2>5, <3>1, <3>2, Distinct DEF DataTimes, PingTimes
  <2>8. QED
    BY <1>5, <2>6, <2>7
<1>6. QED
  BY <1>1, <1>2, <1>4, <1>5 DEF DataTimes

LEMMA PingPrompt ==
  ASSUME Typed, Quiet, Prompt, Ping, autoPong, Up
  PROVE  DataTimes' /\ PingTimes' /\ Owing'
<1>1. /\ sincePing = Interval /\ inbox' = Append(inbox, "ping") /\ sincePing' = 0
      /\ busy' = busy /\ wait' = wait /\ sinceData' = sinceData
  BY DEF Ping, Arrive, Up
<1>2. DataTimes /\ PingTimes
  BY DEF Prompt
<1>3. /\ Hold \in Nat /\ Delay \in Nat /\ wait \in Nat /\ wait <= Delay
      /\ busy \in Nat /\ busy <= Hold /\ Interval \in Nat /\ Interval > Hold + 4 * Delay
  BY Times, Clocks
<1>4. inbox # DP
  BY <1>1, <1>2, <1>3 DEF PingTimes
<1>5. ~(inbox \in {P, PD} /\ busy = 0)
  BY <1>1, <1>2, <1>3 DEF PingTimes
<1>6. ~(inbox = P /\ busy > 0)
  BY <1>1, <1>2, <1>3 DEF PingTimes
<1>7. busy = 0 \/ busy > 0
  BY <1>3
<1>8. inbox # PD
  BY <1>2, <1>5, <1>7, Distinct DEF DataTimes
<1>9. inbox \in {<<>>, D}
  BY <1>2, <1>4, <1>5, <1>6, <1>7, <1>8 DEF DataTimes
<1>10. CASE inbox = <<>>
  <2>1. inbox' = P
    BY <1>1, <1>10, Shapes
  <2>2. sincePing' + busy' <= Hold + Delay
    <3>1. 0 + busy = busy /\ busy <= Hold + Delay
      BY <1>3, NoSummand
    <3>2. QED
      BY <1>1, <3>1, Zenon
  <2>3. sincePing' <= Hold + Delay + wait'
    BY <1>1, <1>3
  <2>4. busy' > 0 => sinceData' + busy' <= Hold + 2 * Delay
    BY <1>1, <1>2 DEF DataTimes
  <2>5. QED
    BY <2>1, <2>2, <2>3, <2>4, Distinct DEF DataTimes, PingTimes, Owing
<1>11. CASE inbox = D
  <2>1. inbox' = DP
    BY <1>1, <1>11, Shapes
  <2>2. ~(busy > 0)
    BY <1>2, <1>11, Distinct DEF DataTimes
  <2>3. sinceData' <= Delay + wait'
    BY <1>1, <1>2, <1>11 DEF DataTimes
  <2>4. sincePing' <= wait'
    BY <1>1, <1>3
  <2>5. QED
    BY <1>1, <2>1, <2>2, <2>3, <2>4, Distinct DEF DataTimes, PingTimes, Owing
<1>12. QED
  BY <1>9, <1>10, <1>11

LEMMA PushPrompt ==
  ASSUME Typed, Quiet, Prompt, Push, autoPong, Up
  PROVE  DataTimes' /\ PingTimes' /\ Owing'
<1>1. /\ sinceData = Gap /\ inbox' = Append(inbox, "data") /\ sinceData' = 0
      /\ busy' = busy /\ wait' = wait /\ sincePing' = sincePing
      /\ owed' = owed /\ outbox' = outbox
  BY DEF Push, Arrive, Up
<1>2. DataTimes /\ PingTimes /\ Owing
  BY DEF Prompt
<1>3. /\ Hold \in Nat /\ Delay \in Nat /\ wait \in Nat /\ wait <= Delay
      /\ busy \in Nat /\ Gap \in Nat /\ Gap > Hold + 2 * Delay
  BY Times, Clocks
<1>4. ~(busy > 0)
  BY <1>1, <1>2, <1>3 DEF DataTimes
<1>5. ~(inbox \in {D, DP})
  BY <1>1, <1>2, <1>3 DEF DataTimes
<1>6. inbox # PD
  BY <1>1, <1>2, <1>3 DEF DataTimes
<1>7. CASE inbox = <<>>
  <2>1. inbox' = D
    BY <1>1, <1>7, Shapes
  <2>2. sinceData' <= Delay + wait'
    BY <1>1, <1>3
  <2>3. Owing'
    BY <1>1, <1>2, <1>7, Distinct DEF Owing
  <2>4. QED
    BY <1>1, <1>4, <2>1, <2>2, <2>3, Distinct DEF DataTimes, PingTimes
<1>8. CASE inbox = P
  <2>1. inbox' = PD
    BY <1>1, <1>8, Shapes
  <2>2. sinceData' <= wait'
    BY <1>1, <1>3
  <2>3. busy = 0
    BY <1>3, <1>4
  <2>4. sincePing' <= Hold + Delay + wait'
    BY <1>1, <1>2, <1>8, <2>3 DEF PingTimes
  <2>5. QED
    BY <1>1, <1>4, <2>1, <2>2, <2>4, Distinct DEF DataTimes, PingTimes, Owing
<1>9. QED
  BY <1>2, <1>5, <1>6, <1>7, <1>8 DEF DataTimes

\* A second passes: what waits grows with the clocks, what is kept shrinks.
LEMMA TickPrompt ==
  ASSUME Typed, Quiet, Prompt, Tick, autoPong, Up
  PROVE  DataTimes' /\ PingTimes' /\ Owing'
<1>1. DataTimes /\ PingTimes /\ Owing
  BY DEF Prompt
<1>2. inbox' = inbox /\ owed' = owed /\ sincePing' = sincePing + 1
  BY DEF Tick, Up
<1>3. /\ Hold \in Nat /\ Delay \in Nat /\ wait \in Nat /\ busy \in Nat
      /\ sincePing \in Nat /\ sinceData \in Nat /\ outbox \subseteq Nat
  BY Times, Clocks
<1>4. sinceData' \in Nat /\ sinceData' <= sinceData + 1
  BY <1>3, Times DEF Tick, Up, Later
<1>5. busy > 0 => busy' = busy - 1
  BY DEF Tick
<1>6. busy = 0 => busy' = 0
  BY DEF Tick
<1>7. inbox # <<>> /\ busy = 0 => wait' = wait + 1
  BY DEF Tick, Readable
<1>8. busy > 0 => wait' = 0
  BY <1>3 DEF Tick, Readable, Quiet
<1>9. outbox' = {age + 1 : age \in outbox}
  BY DEF Tick
<1>10. Owing'
  <2> SUFFICES ASSUME owed, inbox \notin {P, DP, PD}
               PROVE  \E age \in outbox' : sincePing' <= Hold + 2 * Delay + age
    BY <1>2 DEF Owing
  <2>1. PICK age \in outbox : sincePing <= Hold + 2 * Delay + age
    BY <1>1 DEF Owing
  <2>2. age + 1 \in outbox' /\ age \in Nat
    BY <1>3, <1>9
  <2>3. sincePing + 1 <= Hold + 2 * Delay + (age + 1)
    BY <1>3, <2>1, <2>2
  <2>4. QED
    BY <1>2, <2>2, <2>3
<1>11. CASE busy = 0
  <2>1. inbox \in {D, DP} => sinceData' <= Delay + wait'
    <3> SUFFICES ASSUME inbox \in {D, DP}
                 PROVE  sinceData' <= Delay + wait'
      OBVIOUS
    <3>1. sinceData <= Delay + wait /\ wait' = wait + 1
      BY <1>1, <1>7, <1>11, Distinct DEF DataTimes
    <3>2. QED
      BY <1>3, <1>4, <3>1
  <2>2. inbox = PD => sinceData' <= wait'
    BY <1>1, <1>3, <1>4, <1>7, <1>11, Distinct DEF DataTimes
  <2>3. inbox = DP => sincePing' <= wait'
    BY <1>1, <1>2, <1>3, <1>7, <1>11, Distinct DEF PingTimes
  <2>4. inbox \in {P, PD} => sincePing' <= Hold + Delay + wait'
    <3> SUFFICES ASSUME inbox \in {P, PD}
                 PROVE  sincePing' <= Hold + Delay + wait'
      OBVIOUS
    <3>1. sincePing <= Hold + Delay + wait /\ wait' = wait + 1
      BY <1>1, <1>7, <1>11, Distinct DEF PingTimes
    <3>2. QED
      BY <1>2, <1>3, <3>1
  <2>5. ~(busy' > 0)
    BY <1>6, <1>11
  <2>6. QED
    BY <1>1, <1>2, <1>10, <2>1, <2>2, <2>3, <2>4, <2>5 DEF DataTimes, PingTimes
<1>12. CASE busy > 0
  <2>1. inbox \in {<<>>, P} /\ sinceData + busy <= Hold + 2 * Delay
    BY <1>1, <1>12 DEF DataTimes
  <2>2. busy' = busy - 1 /\ wait' = 0
    BY <1>5, <1>8, <1>12
  <2>3. sinceData' + busy' <= Hold + 2 * Delay
    <3>1. \A a, b, c, d \in Nat : a <= b + 1 /\ b + c <= d => a + (c - 1) <= d
      OBVIOUS
    <3>2. Hold + 2 * Delay \in Nat
      BY <1>3
    <3>3. sinceData' + (busy - 1) <= Hold + 2 * Delay
      BY <1>3, <1>4, <2>1, <3>1, <3>2, Zenon
    <3>4. QED
      BY <2>2, <3>3, Zenon
  <2>4. inbox = P => sincePing' + busy' <= Hold + Delay
    BY <1>1, <1>2, <1>3, <1>12, <2>2 DEF PingTimes
  <2>5. inbox = P => sincePing' <= Hold + Delay + wait'
    <3> SUFFICES ASSUME inbox = P
                 PROVE  sincePing' <= Hold + Delay + wait'
      OBVIOUS
    <3>1. sincePing + busy <= Hold + Delay
      BY <1>1, <1>12 DEF PingTimes
    <3>2. sincePing + 1 <= Hold + Delay
      BY <1>3, <1>12, <3>1
    <3>3. sincePing' <= Hold + Delay /\ Hold + Delay \in Int
      BY <1>2, <1>3, <3>2
    <3>4. Hold + Delay + wait' = Hold + Delay
      BY <2>2, <3>3, NoSummand, Zenon
    <3>5. QED
      BY <3>3, <3>4, Zenon
  <2>6. QED
    BY <1>2, <1>10, <2>1, <2>3, <2>4, <2>5, Distinct DEF DataTimes, PingTimes
<1>13. QED
  BY <1>3, <1>11, <1>12

LEMMA StepPrompt == Typed /\ Quiet /\ Prompt /\ [Next]_vars => Prompt'
<1> SUFFICES ASSUME Typed, Quiet, Prompt, [Next]_vars, autoPong', Up'
             PROVE  DataTimes' /\ PingTimes' /\ Owing'
  BY DEF Prompt
<1>1. CASE UNCHANGED vars
  BY <1>1 DEF vars, client, reader, server, Prompt, DataTimes, PingTimes, Owing, Up, Ready
<1>2. CASE Connect \/ Dial \/ Greeted \/ HandshakeFails
  BY <1>2, ConnectPrompt DEF Prompt
<1>3. CASE Disconnect \/ SendCommand \/ StrayRead \/ StrayEnds \/ CloseSeen
  BY <1>3, ClientPrompt DEF Prompt
<1>4. CASE Refuse \/ Vanish
  BY <1>4 DEF Refuse, Vanish, Lost, Up
<1>5. CASE Read
  BY <1>5, ReadPrompt DEF Read, server, Up, Ready
<1>6. CASE Ping \/ Push
  <2>1. Up /\ autoPong
    BY <1>6 DEF Ping, Push, client, Up, Ready
  <2>2. QED
    BY <1>6, <2>1, PingPrompt, PushPrompt
<1>7. CASE Hear
  BY <1>7 DEF Hear, client, reader, Prompt, DataTimes, PingTimes, Owing, Up, Ready
<1>8. CASE Tick
  BY <1>8, TickPrompt DEF Tick, Up, Ready
<1>9. QED
  BY <1>1, <1>2, <1>3, <1>4, <1>5, <1>6, <1>7, <1>8 DEF Next

\* The server never closes the connection of a client that answers pings for want
\* of a frame, if connect() has left the connection read: a ping on its way, or the
\* pong that answers it, is younger than the server's patience, whatever the consumer
\* does within Hold seconds.
THEOREM PingsAreInTime == Spec => []AnswersInTime
<1>1. Init => AnswersInTime
  BY DEF Init, AnswersInTime
<1>2. Typed /\ Quiet /\ Prompt /\ AnswersInTime /\ [Next]_vars => AnswersInTime'
  <2> SUFFICES ASSUME Typed, Quiet, Prompt, AnswersInTime, [Next]_vars
               PROVE  AnswersInTime'
    OBVIOUS
  <2>1. ~(Refuse /\ autoPong /\ reading = "frames")
    <3> SUFFICES ASSUME Refuse, autoPong, reading = "frames"
                 PROVE  FALSE
      OBVIOUS
    <3>1. DataTimes /\ PingTimes /\ Owing /\ owed /\ sincePing >= PongTimeout
      BY DEF Refuse, Lost, Served, Up, Ready, Prompt
    <3>2. /\ Hold \in Nat /\ Delay \in Nat /\ wait \in Nat /\ wait <= Delay
          /\ busy \in Nat /\ sincePing \in Nat /\ PongTimeout \in Nat
          /\ Hold + 4 * Delay < PongTimeout
      BY Times, Clocks
    <3>3. inbox # DP
      BY <3>1, <3>2 DEF PingTimes
    <3>4. ~(inbox = P /\ busy > 0)
      BY <3>1, <3>2 DEF PingTimes
    <3>5. ~(inbox \in {P, PD} /\ busy = 0)
      BY <3>1, <3>2 DEF PingTimes
    <3>6. inbox = PD => busy = 0
      BY <3>1, <3>2, Distinct DEF DataTimes
    <3>7. inbox \notin {P, DP, PD}
      BY <3>2, <3>3, <3>4, <3>5, <3>6
    <3>8. PICK age \in outbox : sincePing <= Hold + 2 * Delay + age
      BY <3>1, <3>7 DEF Owing
    <3>9. age \in 0..Delay
      BY <3>8 DEF Typed, TypeOK
    <3>10. QED
      BY <3>1, <3>2, <3>8, <3>9
  <2>2. CASE Refuse
    BY <2>1, <2>2 DEF Refuse, Lost, client, AnswersInTime
  <2>3. CASE Vanish \/ Connect \/ Dial
    BY <2>3 DEF Vanish, Lost, Connect, Dial, Open, AnswersInTime
  <2>4. CASE Greeted \/ HandshakeFails
    <3>1. CASE Greeted
      <4>1. ~refused
        BY <3>1 DEF Greeted, Typed, Fresh
      <4>2. QED
        BY <3>1, <4>1 DEF Greeted, AnswersInTime
    <3>2. CASE HandshakeFails
      BY <3>2 DEF HandshakeFails, AnswersInTime
    <3>3. QED
      BY <2>4, <3>1, <3>2
  <2>5. CASE Disconnect \/ Read \/ SendCommand \/ StrayRead \/ StrayEnds \/ CloseSeen
    BY <2>5 DEF Disconnect, Read, SendCommand, StrayRead, StrayEnds, CloseSeen,
                AnswersInTime, server
  <2>6. CASE Ping \/ Push \/ Hear \/ Tick
    BY <2>6 DEF Ping, Push, Hear, Tick, AnswersInTime, client
  <2>7. CASE UNCHANGED vars
    BY <2>7 DEF vars, client, server, AnswersInTime
  <2>8. QED
    BY <2>2, <2>3, <2>4, <2>5, <2>6, <2>7 DEF Next
<1>3. QED
  BY <1>1, <1>2, InitQuiet, StepQuiet, InitPrompt, StepPrompt, AlwaysTyped, PTL DEF Spec
------------------------------------------------------------------------------
\* The death of the peer is noticed

\* A consumer that answers pings itself keeps them like other frames: it keeps up
\* only if two frames are done with before the next of either kind.  (Without it, the
\* frames that are still to be read when the peer dies can be any number.)
KeepsUp ==
  FALSE \in AutoPongs => /\ 2 * (Delay + Hold) <= Gap
                         /\ 2 * (Delay + Hold) <= Interval

\* How long a frame can take its reader.
Work == Delay + Hold
PingWork == Delay + (IF autoPong THEN 0 ELSE Hold)

LEMMA Works ==
  ASSUME KeepsUp, Typed
  PROVE  /\ Work \in Nat /\ PingWork \in Nat /\ Delay \in Nat /\ Hold \in Nat
         /\ Gap \in Nat /\ Interval \in Nat
         /\ Work = Delay + Hold /\ Delay <= PingWork /\ PingWork <= Work
         /\ Work + PingWork <= Gap /\ Work + PingWork <= Interval
         /\ Work + Delay < Gap /\ Work + Delay < Interval
         /\ ~autoPong => PingWork = Delay + Hold
<1>1. autoPong \in AutoPongs /\ autoPong \in BOOLEAN
  BY HeartbeatAssumption DEF Typed, TypeOK
<1>2. CASE autoPong
  <2>1. Delay + 0 = Delay
    BY Times, NoSummand
  <2>2. PingWork = Delay
    BY <1>2, <2>1, Zenon DEF PingWork
  <2>3. QED
    BY <1>2, <2>2, Times DEF Work
<1>3. CASE ~autoPong
  <2>1. PingWork = Delay + Hold /\ FALSE \in AutoPongs
    BY <1>1, <1>3, Zenon DEF PingWork
  <2>2. 2 * (Delay + Hold) <= Gap /\ 2 * (Delay + Hold) <= Interval
    BY <2>1 DEF KeepsUp
  <2>3. Delay + Hold + Delay < Gap /\ Delay + Hold + Delay < Interval
    BY Times
  <2>4. QED
    BY <2>1, <2>2, <2>3, Times DEF Work
<1>4. QED
  BY <1>2, <1>3

\* Two frames at most are to be read, and the ages of the latest say how far the
\* reader has got with them.
Both(t, bound) == sinceData + t <= bound /\ sincePing + t <= bound
Backlog ==
  /\ inbox \in {<<>>, D, P, DP, PD}
  /\ inbox = <<>> /\ busy > 0 => \/ sinceData + busy <= Work
                                 \/ sincePing + busy <= PingWork
                                 \/ Both(busy, Work + PingWork)
  /\ inbox = D => sinceData + busy <= wait \/ Both(busy, PingWork + wait)
  /\ inbox = P => sincePing + busy <= wait \/ Both(busy, Work + wait)
  /\ inbox \in {DP, PD} => busy = 0 /\ sinceData <= wait /\ sincePing <= wait

\* What was left when the peer died is read in time; then silence grows.
Aftermath ==
  /\ inbox \in {<<>>, D, P, DP, PD}
  /\ inbox \in {D, P} => sinceGone + busy <= Work + wait
  /\ inbox \in {DP, PD} => busy = 0 /\ sinceGone <= wait
  /\ sinceGone <= silence + (Work + Work)

Ages ==
  /\ peer # "gone" => sinceGone = 0
  /\ Up => Backlog
  /\ Ready /\ peer = "gone" => Aftermath

LEMMA ReadBacklog ==
  ASSUME KeepsUp, Typed, Quiet, Backlog, Read
  PROVE  Backlog'
<1>1. /\ inbox # <<>> /\ busy = 0 /\ inbox' = Tail(inbox) /\ wait' = 0
      /\ sincePing' = sincePing /\ sinceData' = sinceData /\ autoPong' = autoPong
  BY DEF Read, server
<1>2. /\ wait \in Nat /\ wait <= Delay /\ sincePing \in Nat /\ sinceData \in Nat
      /\ Work' = Work /\ PingWork' = PingWork
  BY <1>1, Clocks DEF Work, PingWork
<1>3. /\ busy' \in Nat /\ busy' <= Hold
      /\ Head(inbox) = "ping" /\ autoPong => busy' = 0
  BY <1>1, Works DEF Read
<1>4. Head(inbox) = "ping" => Delay + busy' <= PingWork
  BY <1>3, Works
<1>5. CASE inbox = D
  <2>1. inbox' = <<>>
    BY <1>1, <1>5, Shapes
  <2>2. sinceData + 0 <= wait \/ Both(0, PingWork + wait)
    BY <1>1, <1>5 DEF Backlog
  <2>3. sinceData + busy' <= Work \/ Both(busy', Work + PingWork)
    BY <1>2, <1>3, <2>2, Works DEF Both
  <2>4. QED
    BY <1>1, <1>2, <2>1, <2>3, Distinct DEF Backlog, Both
<1>6. CASE inbox = P
  <2>1. inbox' = <<>> /\ Head(inbox) = "ping"
    BY <1>1, <1>6, Shapes
  <2>2. sincePing + 0 <= wait \/ Both(0, Work + wait)
    BY <1>1, <1>6 DEF Backlog
  <2>3. \/ sincePing <= Delay
        \/ sinceData <= Work + Delay /\ sincePing <= Work + Delay
    BY <1>2, <2>2, Works DEF Both
  <2>4. Delay + busy' <= PingWork
    BY <1>4, <2>1
  <2>5. sincePing + busy' <= PingWork \/ Both(busy', Work + PingWork)
    BY <1>2, <1>3, <2>3, <2>4, Works DEF Both
  <2>6. QED
    BY <1>1, <1>2, <2>1, <2>5, Distinct DEF Backlog, Both
<1>7. CASE inbox \in {DP, PD}
  <2>1. sinceData <= Delay /\ sincePing <= Delay
    BY <1>2, <1>7, Works DEF Backlog
  <2>2. CASE inbox = DP
    <3>1. inbox' = P
      BY <1>1, <2>2, Shapes
    <3>2. Both(busy', Work + wait')
      <4>1. wait' \in Nat
        BY <1>1
      <4>2. QED
        BY <1>2, <1>3, <2>1, <4>1, Works DEF Both
    <3>3. QED
      BY <1>1, <1>2, <3>1, <3>2, Distinct DEF Backlog, Both
  <2>3. CASE inbox = PD
    <3>1. inbox' = D /\ Head(inbox) = "ping"
      BY <1>1, <2>3, Shapes
    <3>2. Both(busy', PingWork + wait')
      <4>1. Delay + busy' <= PingWork /\ wait' \in Nat
        BY <1>1, <1>4, <3>1
      <4>2. QED
        BY <1>2, <1>3, <2>1, <4>1, Works DEF Both
    <3>3. QED
      BY <1>1, <1>2, <3>1, <3>2, Distinct DEF Backlog, Both
  <2>4. QED
    BY <1>7, <2>2, <2>3
<1>8. QED
  BY <1>1, <1>5, <1>6, <1>7 DEF Backlog

\* A clock that has come to its limit is beyond every lower bound.
LEMMA TooLate == \A t, b, k \in Nat : k < t => ~(t + b <= k)
  OBVIOUS

LEMMA TooBusy == \A t, b, k \in Nat : k <= t /\ b > 0 => ~(t + b <= k)
  OBVIOUS

\* Neither kind of frame comes before the reader is done with the latest of it.
LEMMA ArrivalBacklog ==
  ASSUME KeepsUp, Typed, Quiet, Backlog, Ping \/ Push, Ready
  PROVE  Backlog'
<1>1. /\ busy' = busy /\ wait' = wait /\ autoPong' = autoPong
      /\ busy \in Nat /\ wait \in Nat /\ wait <= Delay
      /\ sincePing \in Nat /\ sinceData \in Nat
      /\ Work' = Work /\ PingWork' = PingWork
  BY Clocks DEF Ping, Push, client, Work, PingWork
<1>2. inbox = <<>> \/ busy > 0 => wait = 0
  BY DEF Quiet
<1>3. /\ Work \in Nat /\ PingWork \in Nat /\ Gap \in Nat /\ Interval \in Nat
      /\ Work + wait \in Nat /\ PingWork + wait \in Nat /\ Work + PingWork \in Nat
      /\ wait < Interval /\ Work + wait < Interval /\ PingWork + wait < Interval
      /\ wait < Gap /\ Work + wait < Gap /\ PingWork + wait < Gap
  BY <1>1, Works
<1>4. /\ Work <= Gap /\ PingWork <= Interval
      /\ Work + PingWork <= Gap /\ Work + PingWork <= Interval
  BY Works
<1>5. CASE Ping
  <2>1. /\ sincePing = Interval /\ sincePing' = 0 /\ sinceData' = sinceData
        /\ inbox' = Append(inbox, "ping")
    BY <1>5 DEF Ping, Arrive
  <2>2. inbox \notin {P, DP, PD}
    <3>1. /\ inbox = P => sincePing + busy <= wait \/ sincePing + busy <= Work + wait
          /\ inbox \in {DP, PD} => sincePing <= wait
      BY Zenon DEF Backlog, Both
    <3>2. wait < sincePing /\ Work + wait < sincePing
      BY <1>3, <2>1, Zenon
    <3>3. ~(sincePing + busy <= wait)
      BY <1>1, <3>2, TooLate, Zenon
    <3>4. ~(sincePing + busy <= Work + wait)
      BY <1>1, <1>3, <3>2, TooLate, Zenon
    <3>5. ~(sincePing <= wait)
      BY <1>1, <3>2
    <3>6. QED
      BY <3>1, <3>3, <3>4, <3>5
  <2>3. CASE inbox = <<>>
    <3>1. inbox' = P /\ wait = 0
      BY <1>2, <2>1, <2>3, Shapes
    <3>2. CASE busy = 0
      BY <1>1, <2>1, <3>1, <3>2, Distinct DEF Backlog
    <3>3. CASE busy > 0
      <4>1. sinceData + busy <= Work
        <5>1. \/ sinceData + busy <= Work
              \/ sincePing + busy <= PingWork
              \/ /\ sinceData + busy <= Work + PingWork
                 /\ sincePing + busy <= Work + PingWork
          BY <2>3, <3>3, Zenon DEF Backlog, Both
        <5>2. PingWork <= sincePing /\ Work + PingWork <= sincePing
          BY <1>4, <2>1, Zenon
        <5>3. ~(sincePing + busy <= PingWork)
          BY <1>1, <1>3, <3>3, <5>2, TooBusy, Zenon
        <5>4. ~(sincePing + busy <= Work + PingWork)
          BY <1>1, <1>3, <3>3, <5>2, TooBusy, Zenon
        <5>5. QED
          BY <5>1, <5>3, <5>4
      <4>2. busy <= Work + wait /\ sinceData + busy <= Work + wait
        BY <1>1, <1>3, <4>1
      <4>3. Both(busy, Work + wait)'
        BY <1>1, <2>1, <4>2, NoSummand DEF Both
      <4>4. QED
        BY <3>1, <4>3, Distinct DEF Backlog
    <3>4. QED
      BY <1>1, <3>2, <3>3
  <2>4. CASE inbox = D
    <3>1. inbox' = DP
      BY <2>1, <2>4, Shapes
    <3>2. sinceData + busy <= wait
      <4>1. sinceData + busy <= wait \/ sincePing + busy <= PingWork + wait
        BY <2>4, Zenon DEF Backlog, Both
      <4>2. PingWork + wait < sincePing
        BY <1>3, <2>1, Zenon
      <4>3. ~(sincePing + busy <= PingWork + wait)
        BY <1>1, <1>3, <4>2, TooLate, Zenon
      <4>4. QED
        BY <4>1, <4>3
    <3>3. busy = 0 /\ sinceData <= wait
      BY <1>1, <1>2, <3>2
    <3>4. QED
      BY <1>1, <2>1, <3>1, <3>3, Distinct DEF Backlog
  <2>5. QED
    BY <2>2, <2>3, <2>4 DEF Backlog
<1>6. CASE Push
  <2>1. /\ sinceData = Gap /\ sinceData' = 0 /\ sincePing' = sincePing
        /\ inbox' = Append(inbox, "data")
    BY <1>6 DEF Push, Arrive
  <2>2. inbox \notin {D, DP, PD}
    <3>1. /\ inbox = D => sinceData + busy <= wait \/ sinceData + busy <= PingWork + wait
          /\ inbox \in {DP, PD} => sinceData <= wait
      BY Zenon DEF Backlog, Both
    <3>2. wait < sinceData /\ PingWork + wait < sinceData
      BY <1>3, <2>1, Zenon
    <3>3. ~(sinceData + busy <= wait)
      BY <1>1, <3>2, TooLate, Zenon
    <3>4. ~(sinceData + busy <= PingWork + wait)
      BY <1>1, <1>3, <3>2, TooLate, Zenon
    <3>5. ~(sinceData <= wait)
      BY <1>1, <3>2
    <3>6. QED
      BY <3>1, <3>3, <3>4, <3>5
  <2>3. CASE inbox = <<>>
    <3>1. inbox' = D /\ wait = 0
      BY <1>2, <2>1, <2>3, Shapes
    <3>2. CASE busy = 0
      BY <1>1, <2>1, <3>1, <3>2, Distinct DEF Backlog
    <3>3. CASE busy > 0
      <4>1. sincePing + busy <= PingWork
        <5>1. \/ sinceData + busy <= Work
              \/ sincePing + busy <= PingWork
              \/ /\ sinceData + busy <= Work + PingWork
                 /\ sincePing + busy <= Work + PingWork
          BY <2>3, <3>3, Zenon DEF Backlog, Both
        <5>2. Work <= sinceData /\ Work + PingWork <= sinceData
          BY <1>4, <2>1, Zenon
        <5>3. ~(sinceData + busy <= Work)
          BY <1>1, <1>3, <3>3, <5>2, TooBusy, Zenon
        <5>4. ~(sinceData + busy <= Work + PingWork)
          BY <1>1, <1>3, <3>3, <5>2, TooBusy, Zenon
        <5>5. QED
          BY <5>1, <5>3, <5>4
      <4>2. busy <= PingWork + wait /\ sincePing + busy <= PingWork + wait
        BY <1>1, <1>3, <4>1
      <4>3. Both(busy, PingWork + wait)'
        BY <1>1, <2>1, <4>2, NoSummand DEF Both
      <4>4. QED
        BY <3>1, <4>3, Distinct DEF Backlog
    <3>4. QED
      BY <1>1, <3>2, <3>3
  <2>4. CASE inbox = P
    <3>1. inbox' = PD
      BY <2>1, <2>4, Shapes
    <3>2. sincePing + busy <= wait
      <4>1. sincePing + busy <= wait \/ sinceData + busy <= Work + wait
        BY <2>4, Zenon DEF Backlog, Both
      <4>2. Work + wait < sinceData
        BY <1>3, <2>1, Zenon
      <4>3. ~(sinceData + busy <= Work + wait)
        BY <1>1, <1>3, <4>2, TooLate, Zenon
      <4>4. QED
        BY <4>1, <4>3
    <3>3. busy = 0 /\ sincePing <= wait
      BY <1>1, <1>2, <3>2
    <3>4. QED
      BY <1>1, <2>1, <3>1, <3>3, Distinct DEF Backlog
  <2>5. QED
    BY <2>2, <2>3, <2>4 DEF Backlog
<1>7. QED
  BY <1>5, <1>6

\* While the consumer keeps a frame, or the next one waits, the bounds hold on.
LEMMA TickWork ==
  ASSUME Typed, Quiet, Tick
  PROVE  /\ inbox' = inbox /\ autoPong' = autoPong /\ Work' = Work /\ PingWork' = PingWork
         /\ busy \in Nat /\ wait \in Nat /\ busy' \in Nat /\ wait' \in Nat
         /\ busy > 0 => busy' = busy - 1 /\ wait = 0 /\ wait' = 0
         /\ busy = 0 => busy' = 0 /\ (inbox # <<>> => wait' = wait + 1)
<1>1. busy \in Nat /\ wait \in Nat
  BY Clocks
<1>2. inbox' = inbox /\ autoPong' = autoPong
  BY DEF Tick
<1>3. busy > 0 => busy' = busy - 1 /\ wait = 0 /\ wait' = 0
  BY <1>1 DEF Tick, Readable, Quiet
<1>4. busy = 0 => busy' = 0 /\ (inbox # <<>> => wait' = wait + 1)
  BY DEF Tick, Readable
<1>5. wait' \in Nat /\ busy' \in Nat
  BY <1>1, <1>3, <1>4 DEF Tick
<1>6. QED
  BY <1>1, <1>2, <1>3, <1>4, <1>5 DEF Work, PingWork

\* A clock against the time that a frame is still kept, or has been waiting.
LEMMA Descent ==
  ASSUME NEW s \in Nat, NEW t \in Nat, NEW b \in Nat, NEW c \in Nat, NEW k \in Nat,
         t <= s + 1, c = b - 1
  PROVE  s + b <= k => t + c <= k
  OBVIOUS

LEMMA Ascent ==
  ASSUME NEW s \in Nat, NEW t \in Nat, NEW w \in Nat, NEW v \in Nat,
         t <= s + 1, v = w + 1
  PROVE  s <= w => t <= v
  OBVIOUS

LEMMA AscentAt ==
  ASSUME NEW s \in Nat, NEW t \in Nat, NEW b \in Nat, NEW c \in Nat,
         NEW w \in Nat, NEW v \in Nat, t <= s + 1, c <= b, v = w + 1
  PROVE  s + b <= w => t + c <= v
  OBVIOUS

LEMMA AscentAbove ==
  ASSUME NEW s \in Nat, NEW t \in Nat, NEW b \in Nat, NEW c \in Nat, NEW k \in Nat,
         NEW w \in Nat, NEW v \in Nat, t <= s + 1, c <= b, v = w + 1
  PROVE  s + b <= k + w => t + c <= k + v
  OBVIOUS

LEMMA Sums == \A a, b \in Nat : a + b \in Nat
  OBVIOUS

LEMMA TickBacklog ==
  ASSUME KeepsUp, Typed, Quiet, Backlog, Tick, Up
  PROVE  Backlog'
<1>1. /\ sincePing \in Nat /\ sinceData \in Nat /\ sincePing' \in Nat
      /\ sincePing' <= sincePing + 1
      /\ sinceData' \in Nat /\ sinceData' <= sinceData + 1
  <2>1. sincePing \in Nat /\ sinceData \in Nat
    BY Clocks
  <2>2. sincePing' = sincePing + 1
    BY DEF Tick, Up
  <2>3. sinceData' \in Nat /\ sinceData' <= sinceData + 1
    BY <2>1, Times DEF Tick, Up, Later
  <2>4. QED
    BY <2>1, <2>2, <2>3
<1>2. /\ inbox' = inbox /\ Work' = Work /\ PingWork' = PingWork
      /\ Work \in Nat /\ PingWork \in Nat /\ busy \in Nat /\ wait \in Nat
      /\ busy' \in Nat /\ wait' \in Nat
      /\ Work + PingWork \in Nat /\ Work + wait \in Nat /\ PingWork + wait \in Nat
  BY TickWork, Works, Sums, Zenon
<1>3. CASE busy > 0
  <2>1. busy' = busy - 1 /\ wait' = wait
    BY <1>3, TickWork
  <2>2. inbox \notin {DP, PD}
    BY <1>3, Distinct DEF Backlog
  <2>3. \A b \in Nat : /\ sinceData + busy <= b => sinceData' + busy' <= b
                       /\ sincePing + busy <= b => sincePing' + busy' <= b
    <3> TAKE b \in Nat
    <3>1. sinceData + busy <= b => sinceData' + busy' <= b
      <4>1. sinceData \in Nat /\ sinceData' \in Nat /\ sinceData' <= sinceData + 1
        BY <1>1
      <4>2. busy \in Nat /\ busy' \in Nat
        BY <1>2
      <4>3. QED
        BY <2>1, <4>1, <4>2, Descent
    <3>2. sincePing + busy <= b => sincePing' + busy' <= b
      <4>1. sincePing \in Nat /\ sincePing' \in Nat /\ sincePing' <= sincePing + 1
        BY <1>1
      <4>2. busy \in Nat /\ busy' \in Nat
        BY <1>2
      <4>3. QED
        BY <2>1, <4>1, <4>2, Descent
    <3>3. QED
      BY <3>1, <3>2
  <2>4. inbox = <<>> => \/ sinceData + busy <= Work
                        \/ sincePing + busy <= PingWork
                        \/ Both(busy, Work + PingWork)
    BY <1>3, Zenon DEF Backlog
  <2>5. inbox' = <<>> => \/ sinceData' + busy' <= Work'
                         \/ sincePing' + busy' <= PingWork'
                         \/ Both(busy, Work + PingWork)'
    BY <1>2, <2>3, <2>4, Zenon DEF Both
  <2>6. inbox' = D => sinceData' + busy' <= wait' \/ Both(busy, PingWork + wait)'
    BY <1>2, <2>1, <2>3, Zenon DEF Both, Backlog
  <2>7. inbox' = P => sincePing' + busy' <= wait' \/ Both(busy, Work + wait)'
    BY <1>2, <2>1, <2>3, Zenon DEF Both, Backlog
  <2>8. QED
    BY <1>2, <2>2, <2>5, <2>6, <2>7, Zenon DEF Backlog
<1>4. CASE busy = 0 /\ inbox # <<>>
  <2>1. busy' <= busy /\ busy' = 0 /\ wait' = wait + 1
    BY <1>4, TickWork
  <2>2. /\ \A b \in Nat : /\ sinceData + busy <= b + wait => sinceData' + busy' <= b + wait'
                          /\ sincePing + busy <= b + wait => sincePing' + busy' <= b + wait'
        /\ sinceData + busy <= wait => sinceData' + busy' <= wait'
        /\ sincePing + busy <= wait => sincePing' + busy' <= wait'
        /\ sinceData <= wait => sinceData' <= wait'
        /\ sincePing <= wait => sincePing' <= wait'
    <3>1. /\ \A b \in Nat : sinceData + busy <= b + wait => sinceData' + busy' <= b + wait'
          /\ sinceData + busy <= wait => sinceData' + busy' <= wait'
          /\ sinceData <= wait => sinceData' <= wait'
      <4>1. sinceData \in Nat /\ sinceData' \in Nat /\ sinceData' <= sinceData + 1
        BY <1>1
      <4>2. /\ busy \in Nat /\ busy' \in Nat /\ wait \in Nat /\ wait' \in Nat
            /\ busy' <= busy /\ wait' = wait + 1
        BY <1>2, <2>1, Zenon
      <4>3. ASSUME NEW b \in Nat
            PROVE  sinceData + busy <= b + wait => sinceData' + busy' <= b + wait'
        BY ONLY <4>1, <4>2, <4>3, AscentAbove, ZenonT(30)
      <4>4. sinceData + busy <= wait => sinceData' + busy' <= wait'
        BY ONLY <4>1, <4>2, AscentAt
      <4>5. sinceData <= wait => sinceData' <= wait'
        BY <4>1, <4>2, Ascent
      <4>6. QED
        BY <4>3, <4>4, <4>5, Zenon
    <3>2. /\ \A b \in Nat : sincePing + busy <= b + wait => sincePing' + busy' <= b + wait'
          /\ sincePing + busy <= wait => sincePing' + busy' <= wait'
          /\ sincePing <= wait => sincePing' <= wait'
      <4>1. sincePing \in Nat /\ sincePing' \in Nat /\ sincePing' <= sincePing + 1
        BY <1>1
      <4>2. /\ busy \in Nat /\ busy' \in Nat /\ wait \in Nat /\ wait' \in Nat
            /\ busy' <= busy /\ wait' = wait + 1
        BY <1>2, <2>1, Zenon
      <4>3. ASSUME NEW b \in Nat
            PROVE  sincePing + busy <= b + wait => sincePing' + busy' <= b + wait'
        BY ONLY <4>1, <4>2, <4>3, AscentAbove, ZenonT(30)
      <4>4. sincePing + busy <= wait => sincePing' + busy' <= wait'
        BY ONLY <4>1, <4>2, AscentAt
      <4>5. sincePing <= wait => sincePing' <= wait'
        BY <4>1, <4>2, Ascent
      <4>6. QED
        BY <4>3, <4>4, <4>5, Zenon
    <3>3. QED
      BY <1>2, <3>1, <3>2, Zenon
  <2>3. inbox' = D => sinceData' + busy' <= wait' \/ Both(busy, PingWork + wait)'
    BY <1>2, <2>2, Zenon DEF Both, Backlog
  <2>4. inbox' = P => sincePing' + busy' <= wait' \/ Both(busy, Work + wait)'
    BY <1>2, <2>2, Zenon DEF Both, Backlog
  <2>5. inbox' \in {DP, PD} => busy' = 0 /\ sinceData' <= wait' /\ sincePing' <= wait'
    BY <1>2, <2>1, <2>2, Zenon DEF Backlog
  <2>6. QED
    BY <1>2, <1>4, <2>3, <2>4, <2>5, Zenon DEF Backlog
<1>5. CASE busy = 0 /\ inbox = <<>>
  BY <1>5, TickWork, Distinct DEF Backlog
<1>6. QED
  BY <1>2, <1>3, <1>4, <1>5

\* The peer is gone: some of the frames, from the first, still come.
LEMMA FirstOf ==
  \A S : \A q \in Seq(S) : \A e \in S : \A n \in 0..Len(Append(q, e)) :
    \/ SubSeq(Append(q, e), 1, n) = Append(q, e)
    \/ n \in 0..Len(q) /\ SubSeq(Append(q, e), 1, n) = SubSeq(q, 1, n)
<1> TAKE S
<1> TAKE q \in Seq(S)
<1> TAKE e \in S
<1> TAKE n \in 0..Len(Append(q, e))
<1> DEFINE r == Append(q, e)
<1>1. /\ r \in Seq(S) /\ Len(r) = Len(q) + 1 /\ Len(q) \in Nat
      /\ \A i \in 1..Len(q) : r[i] = q[i] /\ q[i] \in S
  BY AppendProperties, LenProperties, ElementOfSeq
<1> HIDE DEF r
<1>2. CASE n = Len(r)
  <2>1. SubSeq(r, 1, Len(r)) = r
    BY <1>1, SubSeqFull
  <2>2. QED
    BY <1>2, <2>1 DEF r
<1>3. CASE n # Len(r)
  <2>1. n \in Int /\ n \in 0..Len(q)
    BY <1>1, <1>3 DEF r
  <2>2. \A i \in 1..n : r[i] = q[i] /\ r[i] \in S /\ q[i] \in S
    BY <1>1, <2>1
  <2>3. /\ SubSeq(q, 1, n) \in Seq(S) /\ SubSeq(r, 1, n) \in Seq(S)
        /\ Len(SubSeq(q, 1, n)) = n /\ Len(SubSeq(r, 1, n)) = n
        /\ \A i \in 1..n : SubSeq(q, 1, n)[i] = q[i] /\ SubSeq(r, 1, n)[i] = r[i]
    BY <2>1, <2>2, SubSeqProperties
  <2>4. SubSeq(r, 1, n) = SubSeq(q, 1, n)
    BY <2>2, <2>3, SeqEqual
  <2>5. QED
    BY <2>1, <2>4 DEF r
<1>4. QED
  BY <1>2, <1>3

LEMMA Prefixes ==
  ASSUME inbox \in {<<>>, D, P, DP, PD}, NEW n \in 0..Len(inbox)
  PROVE  /\ SubSeq(inbox, 1, n) \in {<<>>, D, P, DP, PD}
         /\ SubSeq(inbox, 1, n) \in {DP, PD} => inbox \in {DP, PD}
<1> DEFINE F == {"data", "ping"}
<1>1. /\ <<>> \in Seq(F) /\ D \in Seq(F) /\ P \in Seq(F) /\ "data" \in F /\ "ping" \in F
      /\ Append(<<>>, "ping") = P /\ Append(D, "ping") = DP
      /\ Append(<<>>, "data") = D /\ Append(P, "data") = PD
  <2>1. "data" \in F /\ "ping" \in F /\ <<>> \in Seq(F)
    BY EmptySeq
  <2> HIDE DEF F
  <2>2. Append(<<>>, "data") \in Seq(F) /\ Append(<<>>, "ping") \in Seq(F)
    BY <2>1, AppendProperties, Zenon
  <2>3. QED
    BY <2>1, <2>2, Shapes, Zenon
<1> HIDE DEF F
<1>2. \A m \in 0..Len(<<>>) : SubSeq(<<>>, 1, m) = <<>>
  <2>1. Len(<<>>) = 0
    BY EmptySeq
  <2>2. QED
    BY <2>1, SubSeqEmpty
<1>3. \A m \in 0..Len(D) : SubSeq(D, 1, m) \in {<<>>, D}
  <2>1. Len(D) = 1 /\ SubSeq(D, 1, Len(D)) = D
    BY <1>1, SubSeqFull DEF D
  <2>2. SubSeq(D, 1, 0) = <<>>
    BY SubSeqEmpty
  <2>3. QED
    BY <2>1, <2>2
<1>4. \A m \in 0..Len(P) : SubSeq(P, 1, m) \in {<<>>, P}
  <2>1. Len(P) = 1 /\ SubSeq(P, 1, Len(P)) = P
    BY <1>1, SubSeqFull DEF P
  <2>2. SubSeq(P, 1, 0) = <<>>
    BY SubSeqEmpty
  <2>3. QED
    BY <2>1, <2>2
<1>5. \A m \in 0..Len(DP) : SubSeq(DP, 1, m) \in {<<>>, D, DP}
  <2>1. \A m \in 0..Len(Append(D, "ping")) :
          \/ SubSeq(Append(D, "ping"), 1, m) = Append(D, "ping")
          \/ m \in 0..Len(D) /\ SubSeq(Append(D, "ping"), 1, m) = SubSeq(D, 1, m)
    <3>1. D \in Seq(F) /\ "ping" \in F
      BY <1>1
    <3>2. QED
      BY <3>1, FirstOf
  <2>2. QED
    BY <1>1, <1>3, <2>1, Zenon
<1>6. \A m \in 0..Len(PD) : SubSeq(PD, 1, m) \in {<<>>, P, PD}
  <2>1. \A m \in 0..Len(Append(P, "data")) :
          \/ SubSeq(Append(P, "data"), 1, m) = Append(P, "data")
          \/ m \in 0..Len(P) /\ SubSeq(Append(P, "data"), 1, m) = SubSeq(P, 1, m)
    <3>1. P \in Seq(F) /\ "data" \in F
      BY <1>1
    <3>2. QED
      BY <3>1, FirstOf
  <2>2. QED
    BY <1>1, <1>4, <2>1, Zenon
<1>7. QED
  BY <1>2, <1>3, <1>4, <1>5, <1>6, Distinct, Zenon

LEMMA Limits ==
  \A b, h, w, d, s \in Nat : b <= h /\ w = d + h => b <= w /\ 0 <= s + (w + w)
  OBVIOUS

LEMMA LostAftermath ==
  ASSUME KeepsUp, Typed, Quiet, Ages, NEW refuse, Lost(refuse), Ready
  PROVE  Aftermath'
<1>1. /\ Backlog /\ sinceGone' = 0 /\ wait' = 0 /\ busy' = busy /\ silence' = silence
      /\ autoPong' = autoPong
  BY DEF Lost, Served, Ages, Up, client
<1>2. PICK n \in 0..Len(inbox) : inbox' = SubSeq(inbox, 1, n)
  BY DEF Lost
<1>3. /\ inbox' \in {<<>>, D, P, DP, PD}
      /\ inbox' \in {DP, PD} => busy = 0
  BY <1>1, <1>2, Prefixes DEF Backlog
<1>4. busy \in Nat /\ busy <= Hold /\ silence \in Nat /\ Work' = Work
  BY <1>1, Clocks DEF Work
<1>5. busy <= Work /\ 0 <= silence + (Work + Work)
  BY <1>4, Limits, Works, Zenon
<1>6. sinceGone' + busy' <= Work' + wait'
  <2>1. 0 + busy = busy /\ Work + 0 = Work
    BY <1>4, Works
  <2>2. QED
    BY <1>1, <1>4, <1>5, <2>1, Zenon
<1>7. sinceGone' <= silence' + (Work' + Work')
  BY <1>1, <1>4, <1>5, Zenon
<1>8. QED
  BY <1>1, <1>3, <1>6, <1>7 DEF Aftermath

\* What is read last was waiting no longer than the delay; what is read before that,
\* not even as long as the next one will be kept.
LEMMA LastRead ==
  \A g, b, w, v, d, h, k, s \in Nat :
    w = d + h /\ v <= d => /\ g + b <= w + v /\ h <= w => g <= s + (w + w)
                           /\ g <= v /\ k <= h => /\ g <= s + (w + w)
                                                  /\ g + k <= w
  OBVIOUS

LEMMA ReadAftermath ==
  ASSUME KeepsUp, Typed, Aftermath, Read, peer = "gone"
  PROVE  Aftermath'
<1>1. /\ inbox # <<>> /\ inbox' = Tail(inbox) /\ wait' \in Nat /\ silence' \in Nat
      /\ sinceGone' = sinceGone /\ Work' = Work
  BY DEF Read, server, Work
<1>2. /\ wait \in Nat /\ wait <= Delay /\ busy \in Nat /\ busy' \in Nat /\ busy' <= Hold
      /\ sinceGone \in Nat /\ Work \in Nat /\ Delay \in Nat /\ Hold \in Nat
      /\ Work = Delay + Hold /\ Hold <= Work
  <2>1. wait \in Nat /\ wait <= Delay /\ busy \in Nat
    BY Clocks
  <2>2. sinceGone \in Nat
    BY HorizonFacts DEF Typed, TypeOK
  <2>3. busy' \in Nat /\ busy' <= Hold
    BY <2>1, Times DEF Read
  <2>4. Work \in Nat /\ Delay \in Nat /\ Hold \in Nat /\ Work = Delay + Hold
    BY Works
  <2>5. \A h, d \in Nat : h <= d + h
    OBVIOUS
  <2>6. QED
    BY <2>1, <2>2, <2>3, <2>4, <2>5, Zenon
<1>3. CASE inbox \in {D, P}
  <2>1. inbox' = <<>>
    BY <1>1, <1>3, Shapes
  <2>2. sinceGone + busy <= Work + wait
    BY <1>3, Zenon DEF Aftermath
  <2>3. sinceGone <= silence' + (Work + Work)
    BY <1>1, <1>2, <2>2, LastRead, Zenon
  <2>4. sinceGone' <= silence' + (Work' + Work')
    BY <1>1, <2>3, Zenon
  <2>5. QED
    BY <2>1, <2>4, Distinct, Zenon DEF Aftermath
<1>4. CASE inbox \in {DP, PD}
  <2>1. inbox' \in {D, P}
    BY <1>1, <1>4, Shapes
  <2>2. sinceGone <= wait
    BY <1>4, Zenon DEF Aftermath
  <2>3. sinceGone + busy' <= Work /\ sinceGone <= silence' + (Work + Work)
    BY <1>1, <1>2, <2>2, LastRead, Zenon
  <2>4. sinceGone' + busy' <= Work' + wait'
    <3>1. \A a, c \in Nat : Work <= Work + c /\ (a <= Work => a <= Work + c)
      BY <1>2
    <3>2. sinceGone + busy' \in Nat
      BY <1>2, Sums, Zenon
    <3>3. QED
      BY <1>1, <2>3, <3>1, <3>2, Zenon
  <2>5. sinceGone' <= silence' + (Work' + Work')
    BY <1>1, <2>3, Zenon
  <2>6. QED
    BY <2>1, <2>4, <2>5, Distinct, Zenon DEF Aftermath
<1>5. QED
  BY <1>1, <1>3, <1>4, Zenon DEF Aftermath

\* Silence goes with the time since the peer is gone, as far as either is followed.
LEMMA Silence ==
  \A g, h, s, t, w, m \in Nat :
    h <= g + 1 /\ h <= m /\ (t = s + 1 \/ t >= m) /\ g <= s + (w + w) => h <= t + (w + w)
  OBVIOUS

LEMMA TickAftermath ==
  ASSUME KeepsUp, Typed, Quiet, Aftermath, Tick, Ready, peer = "gone"
  PROVE  Aftermath'
<1>1. /\ sinceGone \in Nat /\ sinceGone' \in Nat /\ sinceGone' <= sinceGone + 1
      /\ sinceGone' <= Horizon /\ Horizon \in Nat
  BY HorizonFacts DEF Tick, Later, Typed, TypeOK
<1>2. /\ silence \in Nat /\ silence' \in Nat
      /\ silence' = silence + 1 \/ silence' >= Horizon
  <2>1. silence \in Nat /\ Horizon \in Nat /\ silence # Never
    BY Clocks, HorizonFacts DEF Never
  <2>2. silence' = Later(silence, Horizon)
    BY <2>1 DEF Tick
  <2>3. QED
    BY <2>1, <2>2 DEF Later
<1>3. /\ inbox' = inbox /\ Work' = Work /\ Work \in Nat /\ busy \in Nat /\ wait \in Nat
      /\ busy' \in Nat /\ wait' \in Nat /\ Work + wait \in Nat
  BY TickWork, Works, Sums, Zenon
<1>4. sinceGone' <= silence' + (Work' + Work')
  <2>1. sinceGone <= silence + (Work + Work)
    BY DEF Aftermath
  <2>2. sinceGone' <= silence' + (Work + Work)
    BY <1>1, <1>2, <1>3, <2>1, Silence, Zenon
  <2>3. QED
    BY <1>3, <2>2, Zenon
<1>5. CASE busy > 0
  <2>1. busy' = busy - 1 /\ wait' = wait
    BY <1>5, TickWork
  <2>2. inbox' \notin {DP, PD}
    BY <1>3, <1>5 DEF Aftermath
  <2>3. inbox \in {D, P} => sinceGone + busy <= Work + wait
    BY Zenon DEF Aftermath
  <2>4. inbox' \in {D, P} => sinceGone' + busy' <= Work' + wait'
    <3>1. sinceGone + busy <= Work + wait => sinceGone' + busy' <= Work + wait
      BY <1>1, <1>3, <2>1, Descent, Zenon
    <3>2. QED
      BY <1>3, <2>1, <2>3, <3>1, Zenon
  <2>5. QED
    BY <1>3, <1>4, <2>2, <2>4, Zenon DEF Aftermath
<1>6. CASE busy = 0 /\ inbox # <<>>
  <2>1. busy' <= busy /\ busy' = 0 /\ wait' = wait + 1
    BY <1>6, TickWork
  <2>2. inbox \in {D, P} => sinceGone + busy <= Work + wait
    BY Zenon DEF Aftermath
  <2>3. inbox \in {DP, PD} => sinceGone <= wait
    BY Zenon DEF Aftermath
  <2>4. /\ sinceGone + busy <= Work + wait => sinceGone' + busy' <= Work + wait'
        /\ sinceGone <= wait => sinceGone' <= wait'
    <3>1. busy' <= busy /\ wait' = wait + 1
      BY <2>1
    <3>2. sinceGone + busy <= Work + wait => sinceGone' + busy' <= Work + wait'
      BY <1>1, <1>3, <3>1, AscentAbove
    <3>3. sinceGone <= wait => sinceGone' <= wait'
      BY <1>1, <1>3, <3>1, Ascent
    <3>4. QED
      BY <3>2, <3>3
  <2>5. inbox' \in {D, P} => sinceGone' + busy' <= Work' + wait'
    BY <1>3, <2>2, <2>4, Zenon
  <2>6. inbox' \in {DP, PD} => busy' = 0 /\ sinceGone' <= wait'
    BY <1>3, <2>1, <2>3, <2>4, Zenon
  <2>7. QED
    BY <1>3, <1>4, <2>5, <2>6, Zenon DEF Aftermath
<1>7. CASE busy = 0 /\ inbox = <<>>
  BY <1>3, <1>4, <1>7, Distinct, Zenon DEF Aftermath
<1>8. QED
  BY <1>3, <1>5, <1>6, <1>7

\* A frame of another connection is read: silence and sinceGone begin anew.
LEMMA StrayAftermath ==
  ASSUME KeepsUp, Typed, Aftermath, StrayRead
  PROVE  Aftermath'
<1>1. /\ inbox' = inbox /\ busy' = busy /\ wait' = wait /\ silence' = 0 /\ sinceGone' = 0
      /\ Work' = Work
  BY DEF StrayRead, reader, Work
<1>2. /\ busy \in Nat /\ busy <= Hold /\ wait \in Nat /\ Work \in Nat /\ Hold <= Work
      /\ 0 \in Nat
  BY Clocks, Works
<1>3. 0 + busy <= Work + wait /\ 0 <= wait /\ 0 <= 0 + (Work + Work)
  <2>1. \A b, h, w, v \in Nat :
          b <= h /\ h <= w => 0 + b <= w + v /\ 0 <= v /\ 0 <= 0 + (w + w)
    OBVIOUS
  <2>2. Hold \in Nat
    BY Works
  <2>3. QED
    BY <1>2, <2>1, <2>2, Zenon
<1>4. sinceGone' + busy' <= Work' + wait'
  BY <1>1, <1>3, Zenon
<1>5. sinceGone' <= wait' /\ sinceGone' <= silence' + (Work' + Work')
  BY <1>1, <1>3, Zenon
<1>6. QED
  BY <1>1, <1>4, <1>5, Zenon DEF Aftermath

LEMMA StepAges == KeepsUp /\ Typed /\ Quiet /\ Ages /\ [Next]_vars => Ages'
<1> SUFFICES ASSUME KeepsUp, Typed, Quiet, Ages, [Next]_vars
             PROVE  Ages'
  OBVIOUS
<1>1. CASE Connect \/ Greeted
  <2>1. /\ inbox' = <<>> /\ ~(busy' > 0) /\ peer' = "up" /\ sinceGone' = 0
    BY <1>1 DEF Connect, Open, Greeted, Typed, Fresh
  <2>2. Backlog'
    BY <2>1, Distinct DEF Backlog
  <2>3. QED
    BY <2>1, <2>2 DEF Ages
<1>2. CASE Dial \/ HandshakeFails
  BY <1>2 DEF Dial, Open, HandshakeFails, Typed, Fresh, Ages, Up, Ready
<1>3. CASE Disconnect \/ CloseSeen
  BY <1>3 DEF Disconnect, CloseSeen, Ages, Up, Ready, server
<1>4. CASE SendCommand \/ StrayEnds
  <2>1. UNCHANGED <<ws, silence, autoPong, reading, reader, server>>
    BY <1>4 DEF SendCommand, StrayEnds
  <2>2. QED
    BY <2>1 DEF Ages, Up, Ready, Backlog, Both, Aftermath, Work, PingWork, reader, server
<1>5. CASE StrayRead
  <2>1. /\ UNCHANGED <<ws, autoPong, reading, reader, peer, sincePing, sinceData>>
        /\ sinceGone' = 0
    BY <1>5 DEF StrayRead
  <2>2. Backlog => Backlog'
    BY <2>1 DEF Backlog, Both, Work, PingWork, reader
  <2>3. QED
    BY <1>5, <2>1, <2>2, StrayAftermath DEF Ages, Up, Ready
<1>6. CASE Read
  <2>1. Ready /\ Ready' /\ peer' = peer /\ sinceGone' = sinceGone
    BY <1>6 DEF Read, Ready, server
  <2>2. QED
    BY <1>6, <2>1, ReadBacklog, ReadAftermath DEF Ages, Up
<1>7. CASE Ping \/ Push
  BY <1>7, ArrivalBacklog DEF Ages, Up, Ready, Ping, Push, Served, client
<1>8. CASE Hear
  BY <1>8 DEF Hear, Served, Ages, Up, Ready, Backlog, Both, Work, PingWork, client, reader
<1>9. CASE Refuse \/ Vanish
  <2>1. peer' = "gone" /\ Ready' = Ready
    BY <1>9 DEF Refuse, Vanish, Lost, client, Ready
  <2>2. QED
    BY <1>9, <2>1, LostAftermath DEF Refuse, Vanish, Ages, Up
<1>10. CASE Tick
  <2>1. /\ peer # "gone" => sinceGone' = sinceGone
        /\ peer' = peer /\ Ready' = Ready
    BY <1>10 DEF Tick, Ready
  <2>2. QED
    BY <1>10, <2>1, TickBacklog, TickAftermath DEF Ages, Up
<1>11. CASE UNCHANGED vars
  BY <1>11 DEF vars, client, reader, server, Ages, Up, Ready, Backlog, Both, Aftermath,
               Work, PingWork
<1>12. QED
  BY <1>1, <1>2, <1>3, <1>4, <1>5, <1>6, <1>7, <1>8, <1>9, <1>10, <1>11 DEF Next

\* A peer that dies without a word, and with frames still on their way, is noticed
\* by is_alive() within the window and the time it takes to read two frames, counted
\* from its death or from the latest frame of another connection that is still read,
\* as long as the consumer keeps up; with auto_pong it always does.
THEOREM DeadPeerIsNoticed == KeepsUp => (Spec => []DeathIsNoticed)
<1> SUFFICES ASSUME KeepsUp
             PROVE  Spec => []DeathIsNoticed
  OBVIOUS
<1>1. Init => Ages
  BY DEF Init, Ages, Up, Ready
<1>2. Typed /\ Quiet /\ Ages /\ [Next]_vars => Ages'
  BY StepAges
<1>3. Typed /\ Ages => DeathIsNoticed
  <2> SUFFICES ASSUME Typed, Ages, Ready, peer = "gone",
                      sinceGone > Window + 2 * (Delay + Hold)
               PROVE  ~Alive
    BY DEF DeathIsNoticed
  <2>1. silence \in Nat /\ sinceGone \in Nat
    BY Clocks, HorizonFacts DEF Typed, TypeOK
  <2>2. sinceGone <= silence + 2 * (Delay + Hold)
    BY <2>1, Times DEF Ages, Aftermath, Work
  <2>3. silence > Window
    BY <2>1, <2>2, Times
  <2>4. QED
    BY <2>1, <2>3, Times DEF Alive
<1>4. QED
  BY <1>1, <1>2, <1>3, InitQuiet, StepQuiet, AlwaysTyped, PTL DEF Spec
==============================================================================
