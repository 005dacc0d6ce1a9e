------------------------ MODULE TrainingStreamProofs ------------------------
(***************************************************************************)
(* CascorTrainingStream: type correctness, what listeners hear, and that   *)
(* the stream keeps the promise of FrameDelivery, for any number of        *)
(* consumers, listeners, connections and frames.                           *)
(***************************************************************************)
EXTENDS TrainingStream, SequenceTheorems, TLAPS

Places == {"none", "reading", "recv", "pong", "yielded"}

LEMMA AppendFacts ==
  ASSUME NEW S, NEW s \in Seq(S), NEW e \in S
  PROVE  /\ Append(s, e) \in Seq(S)
         /\ Len(Append(s, e)) = Len(s) + 1
         /\ DOMAIN Append(s, e) = DOMAIN s \cup {Len(s) + 1}
         /\ \A i \in DOMAIN s : Append(s, e)[i] = s[i] /\ i \in Nat /\ 1 <= i /\ i <= Len(s)
         /\ Append(s, e)[Len(s) + 1] = e
         /\ Range(Append(s, e)) = Range(s) \cup {e}
         /\ Len(s) \in Nat
         /\ DOMAIN s = 1..Len(s)
  BY AppendProperties DEF Range

------------------------------------------------------------------------------
\* Type correctness

LEMMA AskTyped ==
  ASSUME TypeOK, NEW c \in Consumers, NEW at \in Places, Ask(c, at)
  PROVE  gen' \in [Consumers -> GenRecord]
  BY ZenonT(30) DEF TypeOK, Ask, GenRecord, Places

LEMMA TakeTyped ==
  ASSUME TypeOK, NEW k \in Conns, Take(k)
  PROVE  conn' \in [Conns -> ConnRecord]
<1>1. conn[k] \in ConnRecord /\ conn[k].read + 1 \in Nat
  BY DEF TypeOK, ConnRecord
<1>2. [conn[k] EXCEPT !.read = @ + 1] \in ConnRecord
  BY <1>1 DEF ConnRecord
<1>3. conn' = [conn EXCEPT ![k] = [conn[k] EXCEPT !.read = @ + 1]]
  BY DEF Take
<1>4. QED
  BY <1>2, <1>3 DEF TypeOK

LEMMA NextTyped ==
  ASSUME TypeOK, NEW k \in Conns, Unread(k)
  PROVE  /\ NextType(k) \in Types
         /\ conn[k].read + 1 \in Nat
         /\ conn[k].read + 1 <= Len(conn[k].sent)
<1>1. conn[k].read \in Nat /\ conn[k].sent \in Seq(Types)
  BY DEF TypeOK, ConnRecord
<1>2. QED
  BY <1>1 DEF Unread, NextType

LEMMA ReportTyped ==
  ASSUME TypeOK, NEW type \in Kinds, NEW k \in Conns, NEW n \in Nat, Report(type, k, n)
  PROVE  events' \in Seq(Event) /\ heard' \in [Listeners -> Seq(Nat)]
<1>1. [type |-> type, on |-> k, n |-> n] \in Event
  BY DEF Event, Types, Kinds
<1>2. events \in Seq(Event) /\ Len(events) + 1 \in Nat
  BY DEF TypeOK
<1>3. ASSUME NEW l \in Listeners PROVE Append(heard[l], Len(events) + 1) \in Seq(Nat)
  <2>1. heard[l] \in Seq(Nat)
    BY DEF TypeOK
  <2>2. QED
    BY <1>2, <2>1, AppendFacts
<1>4. QED
  BY <1>1, <1>2, <1>3, AppendFacts DEF Report, Dispatch, TypeOK

LEMMA HandleTyped ==
  ASSUME TrainingStreamAssumption, TypeOK, NEW c \in Consumers, Handle(c)
  PROVE  TypeOK'
<1> DEFINE k == gen[c].on
<1>1. k \in Conns
  BY DEF TypeOK, GenRecord
<1>2. /\ Unread(k) /\ NextType(k) \in Types /\ conn[k].read + 1 \in Nat
      /\ UNCHANGED <<ws, callbacks, owner>>
  BY <1>1, NextTyped DEF Handle
<1>3. CASE DropFrame(c) \/ Crash(c)
  <2>1. Take(k) /\ UNCHANGED <<pongs, history>>
    BY <1>3 DEF DropFrame, Crash
  <2>2. gen' \in [Consumers -> GenRecord]
    BY <1>3, AskTyped DEF DropFrame, Crash, Places
  <2>3. conn' \in [Conns -> ConnRecord]
    BY <1>1, <2>1, TakeTyped
  <2>4. QED
    BY <1>2, <2>1, <2>2, <2>3 DEF TypeOK, history
<1>4. CASE AnswerPing(c)
  <2>1. Take(k) /\ UNCHANGED history
    BY <1>4 DEF AnswerPing
  <2>2. conn' \in [Conns -> ConnRecord]
    BY <1>1, <2>1, TakeTyped
  <2>3. CASE Ask(c, "reading") /\ (UNCHANGED pongs \/
             (ws # 0 /\ pongs' = pongs \cup {<<k, conn[k].read + 1, ws>>}))
    <3>1. gen' \in [Consumers -> GenRecord]
      BY <2>3, AskTyped DEF Places
    <3>2. pongs' \subseteq Conns \X Nat \X Conns
      BY <1>1, <1>2, <2>3 DEF TypeOK
    <3>3. QED
      BY <1>2, <2>1, <2>2, <3>1, <3>2 DEF TypeOK, history
  <2>4. CASE /\ ws # 0 /\ UNCHANGED pongs
             /\ gen' = [gen EXCEPT ![c].at = "pong", ![c].via = ws,
                                   ![c].ping = conn[k].read + 1]
    <3>1. gen' \in [Consumers -> GenRecord]
      <4> DEFINE r == [gen[c] EXCEPT !.at = "pong", !.via = ws, !.ping = conn[k].read + 1]
      <4>1. gen[c] \in GenRecord /\ ws \in Conns
        BY <2>4 DEF TypeOK
      <4>2. r \in GenRecord
        BY <1>2, <4>1 DEF GenRecord
      <4>3. gen' = [gen EXCEPT ![c] = r]
        BY <2>4
      <4>4. QED
        BY <4>2, <4>3 DEF TypeOK
    <3>2. QED
      BY <1>2, <2>1, <2>2, <2>4, <3>1 DEF TypeOK, history
  <2>5. QED
    BY <1>4, <2>3, <2>4 DEF AnswerPing
<1>5. CASE YieldPing(c)
  <2>1. conn' \in [Conns -> ConnRecord]
    BY <1>1, <1>5, TakeTyped DEF YieldPing
  <2>2. gen' \in [Consumers -> GenRecord]
    BY <1>5, AskTyped DEF YieldPing, Places
  <2>3. [type |-> "ping", on |-> k, n |-> conn[k].read + 1] \in Event
    BY <1>1, <1>2 DEF Event, Types
  <2>4. events \in Seq(Event)
    BY DEF TypeOK
  <2>5. events' \in Seq(Event)
    BY <1>5, <2>3, <2>4, AppendFacts DEF YieldPing
  <2>6. QED
    BY <1>2, <1>5, <2>1, <2>2, <2>5 DEF TypeOK, YieldPing
<1>6. CASE HandOver(c)
  <2>1. conn' \in [Conns -> ConnRecord]
    BY <1>1, <1>6, TakeTyped DEF HandOver
  <2>2. gen' \in [Consumers -> GenRecord]
    BY <1>6, AskTyped DEF HandOver, Places
  <2>3. events' \in Seq(Event) /\ heard' \in [Listeners -> Seq(Nat)]
    BY <1>1, <1>2, <1>6, ReportTyped DEF HandOver, Kinds
  <2>4. QED
    BY <1>2, <1>6, <2>1, <2>2, <2>3 DEF TypeOK, HandOver
<1>7. QED
  BY <1>3, <1>4, <1>5, <1>6 DEF Handle

LEMMA FinishTyped ==
  ASSUME TypeOK, NEW c \in Consumers, Finish(c)
  PROVE  TypeOK'
<1> DEFINE k == gen[c].on
<1>1. k \in Conns
  BY DEF TypeOK, GenRecord
<1>2. gen' \in [Consumers -> GenRecord]
  BY AskTyped DEF Finish, Places
<1>3. ended' \subseteq Conns
  BY <1>1 DEF Finish, TypeOK
<1>4. events' \in Seq(Event) /\ heard' \in [Listeners -> Seq(Nat)]
  <2>1. CASE UNCHANGED <<events, heard>>
    BY <2>1 DEF TypeOK
  <2>2. CASE Report("disconnect", k, 0)
    BY <1>1, <2>2, ReportTyped DEF Kinds
  <2>3. QED
    BY <2>1, <2>2 DEF Finish
<1>5. QED
  BY <1>2, <1>3, <1>4 DEF Finish, TypeOK

LEMMA ConsumerTyped ==
  ASSUME TrainingStreamAssumption, TypeOK, NEW c \in Consumers,
         \/ Start(c) \/ Resume(c) \/ Leave(c) \/ Receive(c) \/ Woken(c) \/ PongSent(c)
  PROVE  TypeOK'
<1>1. CASE Start(c)
  <2>1. gen[c].starts + 1 \in 0..MaxStarts /\ ws \in Conns
    BY <1>1 DEF Start, TypeOK, GenRecord, TrainingStreamAssumption
  <2>2. gen' \in [Consumers -> GenRecord]
    <3> DEFINE r == [gen[c] EXCEPT !.at = "reading", !.on = ws, !.starts = @ + 1]
    <3>1. gen[c] \in GenRecord
      BY DEF TypeOK
    <3>2. r \in GenRecord
      BY <2>1, <3>1 DEF GenRecord
    <3>3. gen' = [gen EXCEPT ![c] = r]
      BY <1>1 DEF Start
    <3>4. QED
      BY <3>2, <3>3 DEF TypeOK
  <2>3. QED
    BY <1>1, <2>2 DEF Start, TypeOK, history
<1>2. CASE Handle(c) \/ Finish(c)
  BY <1>2, HandleTyped, FinishTyped
<1>3. CASE PongSent(c)
  <2>1. gen' \in [Consumers -> GenRecord]
    BY <1>3, AskTyped DEF PongSent, Places
  <2>2. pongs' \subseteq Conns \X Nat \X Conns
    BY <1>3 DEF PongSent, TypeOK, GenRecord
  <2>3. QED
    BY <1>3, <2>1, <2>2 DEF PongSent, TypeOK, history
<1>4. CASE /\ UNCHANGED <<ws, callbacks, owner, conn, pongs, history>>
           /\ \E at \in Places : Ask(c, at)
  <2>1. gen' \in [Consumers -> GenRecord]
    BY <1>4, AskTyped
  <2>2. QED
    BY <1>4, <2>1 DEF TypeOK, history
<1>5. QED
  BY <1>1, <1>2, <1>3, <1>4 DEF Resume, Leave, Receive, Woken, Places

LEMMA OwnerTyped ==
  ASSUME TypeOK,
         \/ Connect \/ ConnectFails \/ Connected \/ Disconnect \/ Disconnected
  PROVE  TypeOK'
<1>1. CASE Connect \/ ConnectFails \/ Disconnected
  BY <1>1 DEF Connect, ConnectFails, Disconnected, TypeOK, history
<1>2. CASE Connected
  <2>1. PICK k \in Conns : conn' = [conn EXCEPT ![k].state = "open"] /\ ws' = k
    BY <1>2 DEF Connected
  <2>2. conn' \in [Conns -> ConnRecord]
    BY <2>1 DEF TypeOK, ConnRecord
  <2>3. QED
    BY <1>2, <2>1, <2>2 DEF Connected, TypeOK, history
<1>3. CASE Disconnect
  <2>1. conn' \in [Conns -> ConnRecord]
    BY ZenonT(30), <1>3 DEF Disconnect, TypeOK, ConnRecord
  <2>2. QED
    BY <1>3, <2>1 DEF Disconnect, TypeOK, history
<1>4. QED
  BY <1>1, <1>2, <1>3

LEMMA ServerTyped ==
  ASSUME TrainingStreamAssumption, TypeOK, NEW k \in Conns,
         Close(k) \/ \E t \in Pushed : Push(k, t)
  PROVE  TypeOK'
<1>1. conn[k].sent \in Seq(Types)
  BY DEF TypeOK, ConnRecord
<1>2. CASE Close(k)
  <2>1. PICK s \in {"ok", "error"} : conn' = [conn EXCEPT ![k].state = s]
    BY <1>2 DEF Close
  <2>2. conn \in [Conns -> ConnRecord] /\ [conn[k] EXCEPT !.state = s] \in ConnRecord
    BY ZenonT(30) DEF TypeOK, ConnRecord
  <2>3. conn' \in [Conns -> ConnRecord]
    BY <2>1, <2>2
  <2>4. QED
    BY <1>2, <2>3 DEF Close, TypeOK, history
<1>3. ASSUME NEW t \in Pushed, Push(k, t) PROVE TypeOK'
  <2>1. Append(conn[k].sent, t) \in Seq(Types)
    BY <1>1, AppendFacts DEF TrainingStreamAssumption
  <2>2. conn' \in [Conns -> ConnRecord]
    <3> DEFINE r == [conn[k] EXCEPT !.sent = Append(@, t)]
    <3>1. conn[k] \in ConnRecord
      BY DEF TypeOK
    <3>2. r \in ConnRecord
      BY <2>1, <3>1 DEF ConnRecord
    <3>3. conn' = [conn EXCEPT ![k] = r]
      BY <1>3 DEF Push
    <3>4. QED
      BY <3>2, <3>3 DEF TypeOK
  <2>3. QED
    BY <1>3, <2>2 DEF Push, TypeOK, history
<1>4. QED
  BY <1>2, <1>3

LEMMA RegisterTyped ==
  ASSUME TypeOK, NEW l \in Listeners, Register(l)
  PROVE  TypeOK'
<1>1. ASSUME NEW kind \in Kinds PROVE Append(callbacks[kind], l) \in Seq(Listeners)
  <2>1. callbacks[kind] \in Seq(Listeners)
    BY DEF TypeOK
  <2>2. QED
    BY <2>1, AppendFacts
<1>2. callbacks' \in [Kinds -> Seq(Listeners)]
  BY <1>1 DEF Register, TypeOK
<1>3. Len(events) \in Nat
  BY DEF TypeOK
<1>4. QED
  BY <1>2, <1>3 DEF Register, TypeOK

LEMMA InitTyped == ASSUME TrainingStreamAssumption, Init PROVE TypeOK
  BY DEF Init, TypeOK, TrainingStreamAssumption, GenRecord, ConnRecord, Conns

\* The state of the stream and of its generators keeps its type.
THEOREM TypeCorrect == Spec => []TypeOK
<1>1. Init => TypeOK
  BY InitTyped, TrainingStreamAssumption
<1>2. TypeOK /\ [Next]_vars => TypeOK'
  <2> SUFFICES ASSUME TypeOK, [Next]_vars PROVE TypeOK'
    OBVIOUS
  <2>1. CASE Next
    BY <2>1, ConsumerTyped, OwnerTyped, ServerTyped, RegisterTyped,
       TrainingStreamAssumption DEF Next
  <2>2. CASE UNCHANGED vars
    BY <2>2 DEF vars, TypeOK
  <2>3. QED
    BY <2>1, <2>2
<1>3. QED
  BY <1>1, <1>2, PTL DEF Spec

------------------------------------------------------------------------------
\* What listeners hear

\* A listener is registered for all of its kinds or for none.
CallbacksOfKind ==
  \A l \in Listeners :
    \/ \A kind \in Kinds : l \notin Range(callbacks[kind])
    \/ \A kind \in Kinds : l \in Range(callbacks[kind]) <=> kind \in KindsOf[l]

ReadIsBounded == \A k \in Conns : conn[k].read <= Len(conn[k].sent)
EndedIsClosed == \A k \in ended : Closed(k)
SinceIsPast   == \A l \in Listeners : since[l] <= Len(events)

Inv ==
  /\ TypeOK /\ CallbacksOfKind /\ ReadIsBounded /\ EndedIsClosed
  /\ SinceIsPast /\ ListenersHearAll

\* The four ways in which a step may concern listeners.
Silent == UNCHANGED <<callbacks, events, heard, since>>
Pings  == /\ UNCHANGED <<callbacks, heard, since>>
          /\ \E e \in Event : e.type = "ping" /\ events' = Append(events, e)
Tells  == /\ UNCHANGED <<callbacks, since>>
          /\ \E type \in Kinds, k \in Conns, n \in Nat : Report(type, k, n)
Enrols == \E l \in Listeners : Register(l)

Hearing == SinceIsPast /\ ListenersHearAll /\ CallbacksOfKind

LEMMA AppendRange ==
  ASSUME NEW S, NEW s \in Seq(S), NEW e \in S
  PROVE  Range(Append(s, e)) = Range(s) \cup {e}
  BY AppendFacts

LEMMA SilentHearing == ASSUME Inv, Silent PROVE Hearing'
  BY DEF Inv, Silent, Hearing, SinceIsPast, ListenersHearAll, CallbacksOfKind, Registered

LEMMA PingsHearing ==
  ASSUME TrainingStreamAssumption, Inv, Pings
  PROVE  Hearing'
<1>1. PICK e \in Event : e.type = "ping" /\ events' = Append(events, e)
  BY DEF Pings
<1>2. events \in Seq(Event)
  BY DEF Inv, TypeOK
<1>3. /\ DOMAIN events' = DOMAIN events \cup {Len(events) + 1}
      /\ \A i \in DOMAIN events : events'[i] = events[i]
      /\ events'[Len(events) + 1].type = "ping"
      /\ Len(events') = Len(events) + 1 /\ Len(events) \in Nat
  BY <1>1, <1>2, AppendFacts
<1>4. \A l \in Listeners : "ping" \notin KindsOf[l]
  BY DEF TrainingStreamAssumption, Kinds
<1>5. UNCHANGED <<callbacks, heard, since>>
  BY DEF Pings
<1>6. SinceIsPast'
  <2>1. \A l \in Listeners : since[l] \in Nat /\ since[l] <= Len(events)
    BY DEF Inv, TypeOK, SinceIsPast
  <2>2. QED
    BY <1>3, <1>5, <2>1 DEF SinceIsPast
<1>7. ListenersHearAll'
  <2>1. \A l \in Listeners : Registered(l)' <=> Registered(l)
    BY <1>5 DEF Registered
  <2>2. ASSUME NEW l \in Listeners
        PROVE  {i \in DOMAIN events' : /\ Registered(l)' /\ since'[l] < i
                                       /\ events'[i].type \in KindsOf[l]}
             = {i \in DOMAIN events : /\ Registered(l) /\ since[l] < i
                                      /\ events[i].type \in KindsOf[l]}
    BY <1>3, <1>4, <1>5, <2>1
  <2>3. QED
    BY <1>5, <2>2 DEF Inv, ListenersHearAll
<1>8. QED
  BY <1>5, <1>6, <1>7 DEF Inv, Hearing, CallbacksOfKind

LEMMA TellsHearing ==
  ASSUME TrainingStreamAssumption, Inv, Tells
  PROVE  Hearing'
<1>1. PICK type \in Kinds, k \in Conns, n \in Nat : Report(type, k, n)
  BY DEF Tells
<1> DEFINE e == [type |-> type, on |-> k, n |-> n]
           p == Len(events) + 1
<1>2. events \in Seq(Event) /\ e \in Event
  BY DEF Inv, TypeOK, Event, Types, Kinds
<1>3. /\ DOMAIN events' = DOMAIN events \cup {p}
      /\ \A i \in DOMAIN events : events'[i] = events[i] /\ i < p
      /\ events'[p].type = type
      /\ Len(events') = p /\ Len(events) \in Nat /\ p \in Nat
      /\ DOMAIN events = 1..Len(events)
  BY <1>1, <1>2, AppendFacts DEF Report
<1>4. UNCHANGED <<callbacks, since>>
  BY DEF Tells
<1>5. SinceIsPast' /\ \A l \in Listeners : since[l] \in Nat /\ since[l] < p
  <2>1. \A l \in Listeners : since[l] \in Nat /\ since[l] <= Len(events)
    BY DEF Inv, TypeOK, SinceIsPast
  <2>2. QED
    BY <1>3, <1>4, <2>1 DEF SinceIsPast
<1>6. \A l \in Listeners : Registered(l)' <=> Registered(l)
  BY <1>4 DEF Registered
<1>7. ASSUME NEW l \in Listeners
      PROVE  /\ Range(heard'[l]) = {i \in DOMAIN events' : /\ Registered(l)' /\ since'[l] < i
                                                         /\ events'[i].type \in KindsOf[l]}
             /\ \A i, j \in DOMAIN heard'[l] : i < j => heard'[l][i] < heard'[l][j]
  <2>1. /\ heard[l] \in Seq(Nat)
        /\ Range(heard[l]) = {i \in DOMAIN events : /\ Registered(l) /\ since[l] < i
                                                   /\ events[i].type \in KindsOf[l]}
        /\ \A i, j \in DOMAIN heard[l] : i < j => heard[l][i] < heard[l][j]
    BY DEF Inv, TypeOK, ListenersHearAll
  <2>2. \A i \in DOMAIN heard[l] : heard[l][i] < p
    <3>1. \A i \in DOMAIN heard[l] : heard[l][i] \in DOMAIN events
      BY <2>1 DEF Range
    <3>2. QED
      BY <1>3, <3>1
  <2>3. l \in Range(callbacks[type]) <=> Registered(l) /\ type \in KindsOf[l]
    BY DEF Inv, CallbacksOfKind, Registered, TrainingStreamAssumption
  <2>4. CASE l \in Range(callbacks[type])
    <3>1. heard'[l] = Append(heard[l], p)
      BY <1>1, <2>4 DEF Report, Dispatch
    <3>2. Range(heard'[l]) = Range(heard[l]) \cup {p}
      <4>1. p \in Nat /\ heard[l] \in Seq(Nat)
        BY <1>3, <2>1
      <4>2. Range(Append(heard[l], p)) = Range(heard[l]) \cup {p}
        <5> HIDE DEF p
        <5>1. QED
          BY <4>1, AppendRange
      <4>3. QED
        BY <3>1, <4>2
    <3>3. \A i, j \in DOMAIN heard'[l] : i < j => heard'[l][i] < heard'[l][j]
      <4>1. /\ DOMAIN heard'[l] = DOMAIN heard[l] \cup {Len(heard[l]) + 1}
            /\ \A i \in DOMAIN heard[l] : /\ heard'[l][i] = heard[l][i]
                                          /\ i \in Nat /\ i <= Len(heard[l])
            /\ heard'[l][Len(heard[l]) + 1] = p
            /\ Len(heard[l]) \in Nat
        BY <1>3, <2>1, <3>1, AppendFacts
      <4>2. QED
        BY SMTT(30), <2>1, <2>2, <4>1
    <3>4. {i \in DOMAIN events' : /\ Registered(l)' /\ since'[l] < i
                                  /\ events'[i].type \in KindsOf[l]}
          = {i \in DOMAIN events : /\ Registered(l) /\ since[l] < i
                                   /\ events[i].type \in KindsOf[l]} \cup {p}
      BY <1>3, <1>4, <1>5, <1>6, <2>3, <2>4
    <3>5. QED
      BY <2>1, <3>2, <3>3, <3>4
  <2>5. CASE l \notin Range(callbacks[type])
    <3>1. heard'[l] = heard[l]
      BY <1>1, <2>5 DEF Report, Dispatch
    <3>2. {i \in DOMAIN events' : /\ Registered(l)' /\ since'[l] < i
                                  /\ events'[i].type \in KindsOf[l]}
          = {i \in DOMAIN events : /\ Registered(l) /\ since[l] < i
                                   /\ events[i].type \in KindsOf[l]}
      BY <1>3, <1>4, <1>6, <2>3, <2>5
    <3>3. QED
      BY <2>1, <3>1, <3>2
  <2>6. QED
    BY <2>4, <2>5
<1>8. QED
  BY <1>4, <1>5, <1>7 DEF Inv, Hearing, CallbacksOfKind, ListenersHearAll

LEMMA EnrolsHearing ==
  ASSUME TrainingStreamAssumption, Inv, Enrols
  PROVE  Hearing'
<1>1. PICK l \in Listeners : Register(l)
  BY DEF Enrols
<1>2. /\ UNCHANGED <<events, heard>> /\ since' = [since EXCEPT ![l] = Len(events)]
      /\ ~Registered(l)
  BY <1>1 DEF Register
<1>3. /\ \A kind \in Kinds : /\ kind \in KindsOf[l] =>
                                   Range(callbacks'[kind]) = Range(callbacks[kind]) \cup {l}
                             /\ kind \notin KindsOf[l] => callbacks'[kind] = callbacks[kind]
  <2> SUFFICES ASSUME NEW kind \in Kinds
               PROVE  /\ kind \in KindsOf[l] =>
                           Range(callbacks'[kind]) = Range(callbacks[kind]) \cup {l}
                      /\ kind \notin KindsOf[l] => callbacks'[kind] = callbacks[kind]
    OBVIOUS
  <2>1. callbacks[kind] \in Seq(Listeners)
    BY DEF Inv, TypeOK
  <2>2. callbacks'[kind] = IF kind \in KindsOf[l] THEN Append(callbacks[kind], l)
                                                 ELSE callbacks[kind]
    BY <1>1 DEF Register
  <2>3. QED
    BY <2>1, <2>2, AppendFacts
<1>4. KindsOf[l] \subseteq Kinds
  BY DEF TrainingStreamAssumption
<1>5. /\ \A kind \in Kinds : l \in Range(callbacks'[kind]) <=> kind \in KindsOf[l]
      /\ \A m \in Listeners \ {l}, kind \in Kinds :
           m \in Range(callbacks'[kind]) <=> m \in Range(callbacks[kind])
  <2>1. \A kind \in Kinds : kind \notin KindsOf[l] => l \notin Range(callbacks[kind])
    BY DEF Inv, CallbacksOfKind
  <2>2. QED
    BY <1>3, <2>1
<1>6. CallbacksOfKind'
  BY <1>5 DEF Inv, CallbacksOfKind
<1>7. \A m \in Listeners \ {l} : (Registered(m)' <=> Registered(m)) /\ since'[m] = since[m]
  BY <1>2, <1>5 DEF Registered, TrainingStreamAssumption, Inv, TypeOK
<1>8. since'[l] = Len(events) /\ Range(heard[l]) = {}
  BY <1>2 DEF Inv, TypeOK, ListenersHearAll
<1>9. Len(events) \in Nat /\ \A i \in DOMAIN events : i \in Nat /\ i <= Len(events)
  BY DEF Inv, TypeOK
<1>10. ListenersHearAll'
  <2> SUFFICES ASSUME NEW m \in Listeners
               PROVE  /\ Range(heard[m]) = {i \in DOMAIN events :
                                             /\ Registered(m)' /\ since'[m] < i
                                             /\ events[i].type \in KindsOf[m]}
                      /\ \A i, j \in DOMAIN heard[m] : i < j => heard[m][i] < heard[m][j]
    BY <1>2 DEF ListenersHearAll
  <2>1. CASE m = l
    <3>1. {i \in DOMAIN events : /\ Registered(m)' /\ since'[m] < i
                                 /\ events[i].type \in KindsOf[m]} = {}
      BY <1>8, <1>9, <2>1
    <3>2. \A i \in DOMAIN heard[m] : FALSE
      <4> SUFFICES ASSUME NEW i \in DOMAIN heard[m] PROVE FALSE
        OBVIOUS
      <4>1. heard[m][i] \in Range(heard[m])
        BY DEF Range
      <4>2. QED
        BY <1>8, <2>1, <4>1
    <3>3. QED
      BY <1>8, <2>1, <3>1, <3>2
  <2>2. CASE m # l
    BY <1>7, <2>2 DEF Inv, ListenersHearAll
  <2>3. QED
    BY <2>1, <2>2
<1>11. SinceIsPast'
  BY <1>2, <1>7, <1>8, <1>9 DEF Inv, SinceIsPast
<1>12. QED
  BY <1>6, <1>10, <1>11 DEF Hearing

------------------------------------------------------------------------------
\* What a step does to the promise of FrameDelivery

Application == {"metrics", "state"} \cup (IF AutoPong THEN {} ELSE {"ping"})

Keeps ==
  /\ UNCHANGED <<events, ended>>
  /\ \A k \in Conns : /\ conn'[k].sent = conn[k].sent /\ conn'[k].read = conn[k].read
                      /\ Closed(k) => Closed(k)'
Sends ==
  /\ UNCHANGED <<events, ended>>
  /\ \E k \in Conns, t \in Types :
       ~Closed(k) /\ conn' = [conn EXCEPT ![k].sent = Append(@, t)]
Reads ==
  \E k \in Conns :
    /\ Unread(k) /\ Take(k) /\ UNCHANGED ended
    /\ \/ NextType(k) \notin Application /\ UNCHANGED events
       \/ /\ NextType(k) \in Application
          /\ events' = Append(events, [type |-> NextType(k), on |-> k, n |-> conn[k].read + 1])
Sees ==
  \E k \in Conns :
    /\ Closed(k) /\ ~Unread(k) /\ UNCHANGED conn /\ ended' = ended \cup {k}
    /\ \/ UNCHANGED events
       \/ events' = Append(events, [type |-> "disconnect", on |-> k, n |-> 0])

Effect == /\ Silent \/ Pings \/ Tells \/ Enrols
          /\ Keeps \/ Sends \/ Reads \/ Sees

LEMMA HandleEffect ==
  ASSUME TrainingStreamAssumption, Inv, NEW c \in Consumers, Handle(c)
  PROVE  Effect
<1> DEFINE k == gen[c].on
<1>1. k \in Conns /\ TypeOK
  BY DEF Inv, TypeOK, GenRecord
<1>2. /\ Unread(k) /\ NextType(k) \in Types /\ conn[k].read + 1 \in Nat
      /\ UNCHANGED callbacks
  BY <1>1, NextTyped DEF Handle
<1>3. CASE DropFrame(c) \/ Crash(c) \/ AnswerPing(c)
  <2>1. Take(k) /\ UNCHANGED history /\ NextType(k) \notin Application
    BY <1>3 DEF DropFrame, Crash, AnswerPing, Application
  <2>2. QED
    BY <1>1, <1>2, <2>1 DEF Effect, Silent, Reads, history
<1>4. CASE YieldPing(c)
  <2>1. /\ Take(k) /\ UNCHANGED <<heard, since, ended>> /\ NextType(k) \in Application
        /\ NextType(k) = "ping"
        /\ events' = Append(events, [type |-> "ping", on |-> k, n |-> conn[k].read + 1])
    BY <1>4 DEF YieldPing, Application
  <2>2. [type |-> "ping", on |-> k, n |-> conn[k].read + 1] \in Event
    BY <1>1, <1>2 DEF Event, Types
  <2>3. Pings
    BY <1>2, <2>1, <2>2 DEF Pings
  <2>4. Reads
    BY <1>1, <1>2, <2>1 DEF Reads
  <2>5. QED
    BY <2>3, <2>4 DEF Effect
<1>5. CASE HandOver(c)
  <2>1. /\ Take(k) /\ UNCHANGED <<since, ended>> /\ NextType(k) \in {"metrics", "state"}
        /\ Report(NextType(k), k, conn[k].read + 1)
    BY <1>5 DEF HandOver
  <2>2. Tells
    BY <1>1, <1>2, <2>1 DEF Tells, Kinds
  <2>3. Reads
    BY <1>1, <1>2, <2>1 DEF Reads, Report, Application
  <2>4. QED
    BY <2>2, <2>3 DEF Effect
<1>6. QED
  BY <1>3, <1>4, <1>5 DEF Handle

LEMMA FinishEffect ==
  ASSUME Inv, NEW c \in Consumers, Finish(c)
  PROVE  Effect
<1> DEFINE k == gen[c].on
<1>1. k \in Conns
  BY DEF Inv, TypeOK, GenRecord
<1>2. /\ Closed(k) /\ ~Unread(k) /\ UNCHANGED <<conn, callbacks, since>>
      /\ ended' = ended \cup {k}
      /\ UNCHANGED <<events, heard>> \/ Report("disconnect", k, 0)
  BY DEF Finish
<1>3. Sees
  BY <1>1, <1>2 DEF Sees, Report
<1>4. Silent \/ Tells
  BY <1>1, <1>2 DEF Silent, Tells, Kinds
<1>5. QED
  BY <1>3, <1>4 DEF Effect

LEMMA StepEffect ==
  ASSUME TrainingStreamAssumption, Inv, [Next]_vars
  PROVE  Effect
<1>1. TypeOK
  BY DEF Inv
<1>2. CASE UNCHANGED <<callbacks, conn, history>>
  BY <1>2 DEF Effect, Silent, Keeps, history, Closed
<1>3. CASE \E c \in Consumers : Handle(c) \/ Finish(c)
  BY <1>3, HandleEffect, FinishEffect
<1>4. CASE \E l \in Listeners : Register(l)
  BY <1>4 DEF Register, Effect, Enrols, Keeps, Closed
<1>5. CASE Connected
  <2>1. PICK k \in Conns : conn[k].state = "unused" /\ conn' = [conn EXCEPT ![k].state = "open"]
    BY <1>5 DEF Connected
  <2>2. Keeps
    BY SMTT(30), <1>1, <1>5, <2>1 DEF Keeps, Closed, Connected, history, TypeOK, ConnRecord
  <2>3. QED
    BY <1>5, <2>2 DEF Effect, Silent, Connected, history
<1>6. CASE Disconnect
  <2>1. Keeps
    BY <1>1, <1>6 DEF Keeps, Closed, Disconnect, history, TypeOK, ConnRecord
  <2>2. QED
    BY <1>6, <2>1 DEF Effect, Silent, Disconnect, history
<1>7. ASSUME NEW k \in Conns, Close(k) PROVE Effect
  <2>1. Keeps
    BY <1>1, <1>7 DEF Keeps, Closed, Close, history, TypeOK, ConnRecord
  <2>2. QED
    BY <1>7, <2>1 DEF Effect, Silent, Close, history
<1>8. ASSUME NEW k \in Conns, NEW t \in Pushed, Push(k, t) PROVE Effect
  <2>1. t \in Types /\ ~Closed(k)
    BY <1>8 DEF TrainingStreamAssumption, Push, Closed
  <2>2. Sends
    BY <1>8, <2>1 DEF Sends, Push, history
  <2>3. QED
    BY <1>8, <2>2 DEF Effect, Silent, Push, history
<1>9. CASE \E c \in Consumers : \/ Start(c) \/ Resume(c) \/ Leave(c) \/ PongSent(c)
                              \/ Receive(c) \/ Woken(c)
  BY <1>2, <1>3, <1>9 DEF Start, Resume, Leave, PongSent, Receive, Woken
<1>10. CASE Connect \/ ConnectFails \/ Disconnected \/ UNCHANGED vars
  BY <1>2, <1>10 DEF Connect, ConnectFails, Disconnected, vars, history
<1>11. QED
  BY <1>4, <1>5, <1>6, <1>7, <1>8, <1>9, <1>10 DEF Next

LEMMA EffectKeepsBounds ==
  ASSUME Inv, Effect
  PROVE  ReadIsBounded' /\ EndedIsClosed'
<1>1. /\ TypeOK /\ ReadIsBounded /\ EndedIsClosed
      /\ \A k \in Conns : conn[k].sent \in Seq(Types) /\ conn[k].read \in Nat
  BY DEF Inv, TypeOK, ConnRecord
<1>2. CASE Keeps
  BY <1>1, <1>2 DEF Keeps, ReadIsBounded, EndedIsClosed, TypeOK
<1>3. CASE Sends
  <2>1. PICK k \in Conns, t \in Types :
          ~Closed(k) /\ conn' = [conn EXCEPT ![k].sent = Append(@, t)]
    BY <1>3 DEF Sends
  <2>2. conn \in [Conns -> ConnRecord]
    BY <1>1 DEF TypeOK
  <2>3. \A j \in Conns : /\ conn'[j].read = conn[j].read /\ conn'[j].state = conn[j].state
                        /\ Len(conn'[j].sent) >= Len(conn[j].sent)
                        /\ Len(conn'[j].sent) \in Nat
    BY <1>1, <2>1, <2>2, AppendFacts DEF ConnRecord
  <2>4. QED
    BY <1>1, <1>3, <2>3 DEF Sends, ReadIsBounded, EndedIsClosed, Closed, TypeOK
<1>4. CASE Reads
  <2>1. PICK k \in Conns : Unread(k) /\ Take(k) /\ UNCHANGED ended
    BY <1>4 DEF Reads
  <2>2. \A j \in Conns : /\ conn'[j].sent = conn[j].sent /\ conn'[j].state = conn[j].state
                        /\ conn'[j].read = IF j = k THEN conn[j].read + 1 ELSE conn[j].read
    BY <1>1, <2>1 DEF Take, TypeOK, ConnRecord
  <2>3. EndedIsClosed'
    <3>1. \A j \in ended : j \in Conns /\ Closed(j)
      BY <1>1 DEF EndedIsClosed, TypeOK
    <3>2. \A j \in ended : Closed(j)'
      BY <2>2, <3>1 DEF Closed
    <3>3. QED
      BY <2>1, <3>2 DEF EndedIsClosed
  <2>4. ReadIsBounded'
    <3>1. SUFFICES ASSUME NEW j \in Conns PROVE conn'[j].read <= Len(conn'[j].sent)
      BY DEF ReadIsBounded
    <3>2. Len(conn[j].sent) \in Nat /\ conn[j].read \in Nat
          /\ conn[j].read <= Len(conn[j].sent)
      BY <1>1 DEF ReadIsBounded
    <3>3. j = k => conn[j].read < Len(conn[j].sent)
      BY <2>1 DEF Unread
    <3>4. QED
      BY <2>2, <3>2, <3>3
  <2>5. QED
    BY <2>3, <2>4
<1>5. CASE Sees
  BY <1>1, <1>5 DEF Sees, ReadIsBounded, EndedIsClosed, Closed
<1>6. QED
  BY <1>2, <1>3, <1>4, <1>5 DEF Effect

LEMMA EffectHearing ==
  ASSUME TrainingStreamAssumption, Inv, Effect
  PROVE  Hearing'
  BY SilentHearing, PingsHearing, TellsHearing, EnrolsHearing DEF Effect

LEMMA InitInv == ASSUME TrainingStreamAssumption, Init PROVE Inv
<1>1. TypeOK
  BY InitTyped
<1>2. ReadIsBounded /\ EndedIsClosed /\ SinceIsPast
  BY DEF Init, ReadIsBounded, EndedIsClosed, SinceIsPast
<1>3. CallbacksOfKind
  BY DEF Init, CallbacksOfKind, TrainingStreamAssumption
<1>4. ListenersHearAll
  BY DEF Init, ListenersHearAll, Range
<1>5. QED
  BY <1>1, <1>2, <1>3, <1>4 DEF Inv

\* Inv holds in every reachable state.
THEOREM Invariant == Spec => []Inv
<1>1. Init => Inv
  BY InitInv, TrainingStreamAssumption
<1>2. TypeOK /\ TypeOK' /\ Inv /\ [Next]_vars => Inv'
  BY StepEffect, EffectKeepsBounds, EffectHearing, TrainingStreamAssumption DEF Inv, Hearing
<1>3. QED
  BY <1>1, <1>2, TypeCorrect, PTL DEF Spec

\* Whatever other listeners raise, a listener is called once and in order for
\* each event of its kind after its registration.
THEOREM ListenersAreServed == Spec => []ListenersHearAll
<1>1. Inv => ListenersHearAll
  BY DEF Inv
<1>2. QED
  BY <1>1, Invariant, PTL

------------------------------------------------------------------------------
\* The refinement: each way a step may concern the frames is a step of the
\* promise, or none.

Sent == [k \in Conns |-> conn[k].sent]
Read == [k \in Conns |-> conn[k].read]

LEMMA KeepsRefines ==
  ASSUME Keeps
  PROVE  Sent' = Sent /\ Read' = Read /\ UNCHANGED <<events, ended>>
  BY DEF Keeps, Sent, Read

LEMMA SendsRefines ==
  ASSUME Inv, Sends
  PROVE  \E k \in Conns : Promise!Send(k)
<1>1. PICK k \in Conns, t \in Types :
        ~Closed(k) /\ conn' = [conn EXCEPT ![k].sent = Append(@, t)]
  BY DEF Sends
<1>2. conn \in [Conns -> ConnRecord]
  BY DEF Inv, TypeOK
<1>3. k \notin ended
  BY <1>1 DEF Inv, EndedIsClosed
<1>4. \A j \in Conns : /\ conn'[j].read = conn[j].read
                      /\ conn'[j].sent = IF j = k THEN Append(conn[j].sent, t)
                                                  ELSE conn[j].sent
  BY <1>1, <1>2 DEF ConnRecord
<1>5. Read' = Read /\ Sent' = [Sent EXCEPT ![k] = Append(@, t)]
  BY <1>4 DEF Sent, Read
<1>6. QED
  BY <1>1, <1>3, <1>5 DEF Promise!Send, Sends, Sent, Read

LEMMA ReadsRefines ==
  ASSUME Inv, Reads
  PROVE  \E k \in Conns : Promise!Read(k)
<1>1. PICK k \in Conns :
        /\ Unread(k) /\ Take(k) /\ UNCHANGED ended
        /\ \/ NextType(k) \notin Application /\ UNCHANGED events
           \/ /\ NextType(k) \in Application
              /\ events' = Append(events, [type |-> NextType(k), on |-> k,
                                          n |-> conn[k].read + 1])
  BY DEF Reads
<1>2. conn \in [Conns -> ConnRecord]
  BY DEF Inv, TypeOK
<1>3. \A j \in Conns : /\ conn'[j].sent = conn[j].sent
                      /\ conn'[j].read = IF j = k THEN conn[j].read + 1 ELSE conn[j].read
  BY <1>1, <1>2 DEF Take, ConnRecord
<1>4. Sent' = Sent /\ Read' = [Read EXCEPT ![k] = @ + 1]
  BY <1>3 DEF Sent, Read
<1>5. /\ Sent[k] = conn[k].sent /\ Read[k] = conn[k].read
      /\ NextType(k) = Sent[k][Read[k] + 1] /\ Read[k] < Len(Sent[k])
  BY <1>1 DEF Sent, Read, NextType, Unread
<1>6. QED
  BY <1>1, <1>4, <1>5 DEF Promise!Read, Promise!Entry, Sent, Read, Application

LEMMA SeesRefines ==
  ASSUME Inv, Sees
  PROVE  \E k \in Conns : Promise!End(k)
<1>1. PICK k \in Conns :
        /\ ~Unread(k) /\ UNCHANGED conn /\ ended' = ended \cup {k}
        /\ \/ UNCHANGED events
           \/ events' = Append(events, [type |-> "disconnect", on |-> k, n |-> 0])
  BY DEF Sees
<1>2. conn[k].read \in Nat /\ Len(conn[k].sent) \in Nat
  BY DEF Inv, TypeOK, ConnRecord
<1>3. conn[k].read = Len(conn[k].sent)
  BY <1>1, <1>2 DEF Inv, ReadIsBounded, Unread
<1>4. QED
  BY <1>1, <1>3 DEF Promise!End, Promise!Entry

\* However consumers iterate, leave, are cancelled and come back, the stream
\* keeps the promise of FrameDelivery: each connection's frames once, in order,
\* and an end only when nothing is left to read.
THEOREM StreamKeepsPromise == Spec => ImplementsDelivery
<1>1. Init => Promise!Init
  BY DEF Init, Promise!Init
<1>2. Inv /\ [Next]_vars =>
        [Promise!Next]_<<[k \in Conns |-> conn[k].sent], [k \in Conns |-> conn[k].read],
                         events, ended>>
  <2>1. SUFFICES ASSUME Inv, [Next]_vars
                 PROVE  [Promise!Next]_<<Sent, Read, events, ended>>
    BY DEF Sent, Read
  <2>2. Effect
    BY <2>1, StepEffect, TrainingStreamAssumption
  <2>3. CASE Keeps
    BY <2>3, KeepsRefines
  <2>4. CASE Sends \/ Reads \/ Sees
    BY <2>1, <2>4, SendsRefines, ReadsRefines, SeesRefines DEF Promise!Next
  <2>5. QED
    BY <2>2, <2>3, <2>4 DEF Effect
<1>3. QED
  BY <1>1, <1>2, Invariant, PTL DEF Promise!Spec, ImplementsDelivery, Spec

------------------------------------------------------------------------------
Delivery == INSTANCE FrameDeliveryProofs WITH
  Application <- {"metrics", "state"} \cup (IF AutoPong THEN {} ELSE {"ping"}),
  sent <- [k \in Conns |-> conn[k].sent], read <- [k \in Conns |-> conn[k].read],
  handed <- events, ended <- ended

\* What the promise implies holds of the stream: the frames of each connection
\* are handed over once each and in order.
THEOREM StreamDeliversInOrder == Spec => []HandedInOrder
<1>1. Delivery!Constants
  BY DEF Delivery!Constants, Types
<1>2. Delivery!Spec => []Delivery!HandedInOrder
  BY <1>1, Delivery!DeliveredInOrder
<1>3. Promise!Init => Delivery!Init
  BY DEF Promise!Init, Delivery!Init
<1>4. Promise!Next => Delivery!Next
  BY DEF Promise!Next, Delivery!Next, Promise!Send, Delivery!Send, Promise!Read, Delivery!Read,
         Promise!End, Delivery!End, Promise!Entry, Delivery!Entry
<1>5. Delivery!HandedInOrder => HandedInOrder
  BY DEF Delivery!HandedInOrder, Promise!HandedInOrder, HandedInOrder, Delivery!FramesOf,
         Promise!FramesOf, Delivery!Entry, Promise!Entry
<1>6. QED
  BY <1>2, <1>3, <1>4, <1>5, StreamKeepsPromise, PTL
     DEF ImplementsDelivery, Promise!Spec, Delivery!Spec
==============================================================================
