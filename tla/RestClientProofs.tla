-------------------------- MODULE RestClientProofs --------------------------
(***************************************************************************)
(* JuniperCascorClient: type correctness, at most one change per call, the *)
(* bound on wait_for_ready(), and that outcomes are answers, for any       *)
(* number of retries and calls, any timeouts and any statuses.             *)
(***************************************************************************)
EXTENDS RestClient, TLAPS

------------------------------------------------------------------------------
\* Type correctness needs that attempts are counted: there is a next one when
\* the client backs off.

Counted == /\ call.at # "idle" => call.tries >= 1
           /\ call.at = "backoff" => call.tries <= Retries
Typed == TypeOK /\ Counted

Phases == {"idle", "connecting", "reading", "body", "backoff", "sleeping"}
CallTyped == call \in CallRecord /\ Counted
FlagsTyped == polling \in BOOLEAN /\ wasReady \in BOOLEAN
ClockTyped == budget \in Int /\ extra \in Nat /\ answer \in {"none", "true", "false", "raises"}
PollTyped == FlagsTyped /\ ClockTyped

LEMMA ConstantsTyped ==
  ASSUME RestClientAssumption
  PROVE  /\ Retries \in Nat /\ MaxBackoff \in Nat /\ MaxCalls \in Nat /\ Horizon \in Nat
         /\ Timeout \in Nat /\ Timeout > 0 /\ PollInterval \in Nat /\ PollInterval > 0
         /\ ReadyTimeouts \subseteq Nat
  BY DEF RestClientAssumption

LEMMA EnterTyped ==
  ASSUME Typed, NEW at \in Phases, NEW left \in Nat, Enter(at, left), call.tries >= 1,
         at = "backoff" => call.tries <= Retries
  PROVE  /\ CallTyped'
         /\ call'.at = at /\ call'.left = left /\ call'.tries = call.tries /\ call'.n = call.n
         /\ call'.method = call.method /\ call'.outcome = call.outcome
  BY DEF Typed, TypeOK, Enter, CallRecord, Phases, CallTyped, Counted

LEMMA StartTyped ==
  ASSUME RestClientAssumption, Typed, NEW m \in Methods \cup {"GET"}, Start(m)
  PROVE  /\ CallTyped'
         /\ call'.at = "connecting" /\ call'.tries = 1 /\ call'.left = Timeout
         /\ call'.n = call.n + 1 /\ call'.method = m /\ call'.outcome = "none"
<1>1. call \in CallRecord
  BY DEF Typed, TypeOK
<1>2. call' = [n |-> call.n + 1, method |-> m, at |-> "connecting", tries |-> 1,
               left |-> Timeout, outcome |-> "none"]
  BY ZenonT(60), <1>1 DEF Start, CallRecord
<1>3. call.n + 1 \in Nat /\ 1 \in 0..(Retries + 1)
  BY <1>1, ConstantsTyped DEF CallRecord
<1>4. call' \in CallRecord
  BY <1>2, <1>3, ConstantsTyped DEF CallRecord, Outcomes
<1>5. QED
  BY <1>2, <1>4 DEF CallTyped, Counted

\* A record with some of its fields replaced.
With(c, at, left, o) == [c EXCEPT !.at = at, !.left = left, !.outcome = o]
Again(c, t, left) == [c EXCEPT !.at = "connecting", !.tries = t, !.left = left]

LEMMA WithTyped ==
  ASSUME NEW c \in CallRecord, NEW at \in Phases, NEW left \in Nat, NEW o \in Outcomes
  PROVE  /\ With(c, at, left, o) \in CallRecord
         /\ With(c, at, left, o).tries = c.tries /\ With(c, at, left, o).n = c.n
         /\ With(c, at, left, o).method = c.method /\ With(c, at, left, o).outcome = o
         /\ With(c, at, left, o).at = at /\ With(c, at, left, o).left = left
  BY DEF CallRecord, Phases, With

LEMMA AgainTyped ==
  ASSUME NEW c \in CallRecord, NEW t \in 0..(Retries + 1), NEW left \in Nat
  PROVE  Again(c, t, left) \in CallRecord
  BY DEF CallRecord, Again

LEMMA EndTyped ==
  ASSUME RestClientAssumption, Typed, NEW o \in Outcomes, End(o), call.tries >= 1
  PROVE  /\ CallTyped' /\ PollTyped'
         /\ call'.tries = call.tries /\ call'.n = call.n
         /\ call'.method = call.method /\ call'.outcome = o
         /\ \/ call'.at = "idle" /\ ~polling'
            \/ /\ call'.at = "sleeping" /\ call'.left = PollInterval
               /\ UNCHANGED <<polling, budget, extra>>
<1>1. call \in CallRecord
  BY DEF Typed, TypeOK
<1> DEFINE Ended(at, left) ==
      /\ call' = [call EXCEPT !.at = at, !.left = left, !.outcome = o]
      /\ \/ at = "idle" /\ ~polling'
         \/ at = "sleeping" /\ left = PollInterval /\ UNCHANGED <<polling, budget, extra>>
<1>2. Ended("idle", 0) \/ Ended("sleeping", PollInterval)
  BY DEF End, poll
<1>3. PICK at \in Phases, left \in Nat : Ended(at, left)
  BY ZenonT(30), <1>2, ConstantsTyped DEF Phases
<1> HIDE DEF Ended
<1>4. call' = With(call, at, left, o)
  BY <1>3 DEF Ended, With
<1>5. /\ call' \in CallRecord
      /\ call'.tries = call.tries /\ call'.n = call.n
      /\ call'.method = call.method /\ call'.outcome = o /\ call'.at = at /\ call'.left = left
  BY SMTT(30), <1>1, <1>3, <1>4, WithTyped
<1>6. FlagsTyped'
  BY ZenonT(30) DEF Typed, TypeOK, End, FlagsTyped, poll
<1>7. ClockTyped'
  BY DEF Typed, TypeOK, End, ClockTyped, poll
<1>8. QED
  BY <1>3, <1>5, <1>6, <1>7 DEF Ended, CallTyped, Counted, PollTyped

LEMMA BackOffTyped ==
  ASSUME RestClientAssumption, Typed, BackOff, call.tries >= 1, AnotherTry
  PROVE  /\ CallTyped' /\ PollTyped' /\ UNCHANGED poll
         /\ call'.at = "backoff" /\ call'.left \in 0..MaxBackoff /\ call'.tries = call.tries
         /\ call'.n = call.n /\ call'.method = call.method
<1>1. PICK s \in 0..MaxBackoff : Enter("backoff", s)
  BY DEF BackOff
<1>2. s \in Nat
  BY ConstantsTyped
<1>3. QED
  BY <1>1, <1>2, EnterTyped DEF Phases, AnotherTry, Typed, TypeOK, BackOff, PollTyped, FlagsTyped, ClockTyped, poll

LEMMA OutcomeTyped == ASSUME NEW a PROVE OutcomeOf(a) \in Outcomes
  BY DEF OutcomeOf, Success, Failure, Outcomes

\* What the actions of the client leave alone of the service.
LEMMA ServiceTyped ==
  ASSUME Typed, CallTyped', PollTyped', UNCHANGED service
  PROVE  Typed'
  BY DEF Typed, TypeOK, CallTyped, PollTyped, FlagsTyped, ClockTyped, service, Counted

LEMMA NextTyped ==
  ASSUME RestClientAssumption, Typed, [Next]_vars
  PROVE  Typed'
<1> USE DEF Phases
<1>0. /\ TypeOK /\ call \in CallRecord /\ call.n \in Nat /\ call.left \in Nat
      /\ call.tries \in Nat /\ PollTyped
  BY ConstantsTyped DEF Typed, TypeOK, CallRecord, PollTyped, FlagsTyped, ClockTyped
<1>1. CASE Issue
  BY <1>0, <1>1, StartTyped, ServiceTyped DEF Issue, PollTyped, FlagsTyped, ClockTyped, poll
<1>2. CASE WaitForReady
  <2>1. PollTyped'
    <3>1. FlagsTyped'
      BY ZenonT(30), <1>0, <1>2 DEF WaitForReady, TypeOK, FlagsTyped
    <3>2. ClockTyped'
      BY <1>0, <1>2, ConstantsTyped DEF WaitForReady, TypeOK, ClockTyped
    <3>3. QED
      BY <3>1, <3>2 DEF PollTyped
  <2>2. CASE UNCHANGED call
    BY <1>2, <2>1, <2>2, ServiceTyped DEF WaitForReady, Typed, TypeOK, CallTyped, Counted
  <2>3. CASE Start("GET")
    BY <1>2, <2>1, <2>3, StartTyped, ServiceTyped DEF WaitForReady
  <2>4. QED
    BY <1>2, <2>2, <2>3 DEF WaitForReady
<1>3. CASE ConnectFails
  <2>1. call.tries >= 1
    BY <1>3 DEF ConnectFails, Typed, Counted
  <2>2. QED
    BY <1>3, <2>1, EndTyped, BackOffTyped, ServiceTyped DEF ConnectFails, FailOrRetry, Outcomes
<1>4. CASE Connected
  <2>1. call.tries >= 1 /\ call.tries \in 1..(Retries + 1)
    BY <1>0, <1>4, ConstantsTyped DEF Connected, Typed, Counted, CallRecord
  <2>2. CallTyped'
    BY <1>4, <2>1, EnterTyped, ConstantsTyped DEF Connected
  <2>3. [call |-> call.n, attempt |-> call.tries, method |-> call.method] \in Request
    BY <1>0, <2>1 DEF CallRecord, Request
  <2>4. QED
    BY <1>0, <1>4, <2>2, <2>3 DEF Connected, Typed, CallTyped, Counted, TypeOK, poll
<1>5. CASE ReadFails
  <2>1. call.tries >= 1
    BY <1>5 DEF ReadFails, Typed, Counted
  <2>2. QED
    BY <1>5, <2>1, EndTyped, BackOffTyped, ServiceTyped DEF ReadFails, FailOrRetry, Outcomes
<1>6. CASE Answered
  <2>1. call.tries >= 1
    BY <1>6 DEF Answered, Typed, Counted
  <2>2. CASE BackOff /\ AnotherTry
    BY <1>6, <2>1, <2>2, BackOffTyped, ServiceTyped DEF Answered
  <2>3. CASE Enter("body", Timeout) /\ UNCHANGED poll
    BY <1>0, <1>6, <2>1, <2>3, EnterTyped, ServiceTyped, ConstantsTyped
       DEF Answered, PollTyped, FlagsTyped, ClockTyped, poll
  <2>4. QED
    BY <1>6, <2>2, <2>3 DEF Answered
<1>7. CASE Complete
  <2>1. call.tries >= 1
    BY <1>7 DEF Complete, Typed, Counted
  <2>2. QED
    BY <1>7, <2>1, EndTyped, OutcomeTyped, ServiceTyped DEF Complete
<1>8. CASE BodyFails
  <2>1. call.tries >= 1
    BY <1>8 DEF BodyFails, Typed, Counted
  <2>2. QED
    BY <1>8, <2>1, EndTyped, ServiceTyped DEF BodyFails, Outcomes
<1>9. CASE Retry
  <2>1. call.tries >= 1 /\ call.tries <= Retries
    BY <1>9 DEF Retry, Typed, Counted
  <2>2. PICK t \in 0..(Retries + 1) : t = call.tries + 1
    BY <1>0, <2>1, ConstantsTyped
  <2>3. call' = Again(call, t, Timeout) /\ Timeout \in Nat
    BY <1>9, <2>2, ConstantsTyped DEF Retry, Again
  <2>4. call' \in CallRecord
    BY <1>0, <2>2, <2>3, AgainTyped
  <2>5. call'.tries = call.tries + 1 /\ call'.at = "connecting"
    BY <1>0, <1>9 DEF Retry, CallRecord
  <2>6. CallTyped'
    BY <1>0, <2>1, <2>4, <2>5 DEF CallTyped, Counted
  <2>7. QED
    BY <1>0, <1>9, <2>6, ServiceTyped DEF Retry, PollTyped, FlagsTyped, ClockTyped, poll
<1>10. CASE Poll
  <2>1. CASE Start("GET") /\ UNCHANGED poll
    BY <1>0, <1>10, <2>1, StartTyped, ServiceTyped DEF Poll, PollTyped, FlagsTyped, ClockTyped, poll
  <2>2. CASE /\ call' = [call EXCEPT !.at = "idle"] /\ budget' = 0
             /\ polling' = FALSE /\ answer' = "false" /\ wasReady' = wasReady /\ extra' = 0
    <3>1. CallTyped'
      BY <1>0, <2>2 DEF CallTyped, Counted, CallRecord
    <3>2. FlagsTyped'
      BY <1>0, <2>2 DEF TypeOK, FlagsTyped
    <3>3. ClockTyped'
      BY <1>0, <2>2 DEF TypeOK, ClockTyped
    <3>4. QED
      BY <1>10, <3>1, <3>2, <3>3, ServiceTyped DEF Poll, PollTyped
  <2>3. QED
    BY <1>10, <2>1, <2>2 DEF Poll
<1>11. CASE Handle
  <2>1. PICK r \in wire :
          /\ wire' = wire \ {r}
          /\ changes' = IF r.method = "GET" THEN changes ELSE changes \cup {r}
          /\ \/ UNCHANGED reply
             \/ \E s \in Statuses, b \in Bodies :
                  reply' = [status |-> s, body |-> b, loaded |-> ready]
    BY ZenonT(30), <1>11 DEF Handle
  <2>2. reply' \in Answer \cup {NoAnswer}
    BY <1>0, <2>1 DEF TypeOK, Answer
  <2>3. wire' \subseteq Request /\ changes' \subseteq Request
    BY <1>0, <2>1 DEF TypeOK
  <2>4. QED
    BY <1>0, <1>11, <2>2, <2>3 DEF Handle, Typed, Counted, TypeOK, poll
<1>12. CASE Lose
  BY <1>0, <1>12 DEF Lose, Typed, Counted, TypeOK, poll
<1>13. CASE ReadyChanges
  BY <1>0, <1>13 DEF ReadyChanges, Typed, Counted, TypeOK
<1>14. CASE Tick
  <2>1. CallTyped'
    BY <1>0, <1>14 DEF Tick, CallTyped, Typed, Counted, CallRecord
  <2>2. PollTyped'
    <3>1. FlagsTyped'
      BY <1>0, <1>14 DEF Tick, TypeOK, FlagsTyped
    <3>2. ClockTyped'
      BY <1>0, <1>14 DEF Tick, TypeOK, ClockTyped
    <3>3. QED
      BY <3>1, <3>2 DEF PollTyped
  <2>3. QED
    BY <1>14, <2>1, <2>2, ServiceTyped DEF Tick
<1>15. CASE Piece
  <2>1. /\ call.at \in Phases /\ call.at # "idle" /\ call.at # "backoff"
        /\ call.left \in Nat /\ Timeout \in Nat /\ call.left < Timeout
    BY <1>0, <1>15, ConstantsTyped DEF Piece
  <2>2. call.tries >= 1
    BY <2>1 DEF Typed, Counted
  <2>3. CallTyped'
    BY <1>15, <2>1, <2>2, EnterTyped DEF Piece
  <2>4. FlagsTyped'
    BY <1>0, <1>15 DEF Piece, TypeOK, FlagsTyped
  <2>5. extra + (Timeout - call.left) \in Nat
    BY <1>0, <2>1 DEF TypeOK
  <2>6. ClockTyped'
    BY <1>0, <1>15, <2>5 DEF Piece, TypeOK, ClockTyped
  <2>7. QED
    BY <1>15, <2>3, <2>4, <2>6, ServiceTyped DEF Piece, PollTyped
<1>16. CASE UNCHANGED vars
  BY <1>16 DEF vars, Typed, Counted, TypeOK
<1>17. QED
  BY <1>1, <1>2, <1>3, <1>4, <1>5, <1>6, <1>7, <1>8, <1>9, <1>10, <1>11, <1>12, <1>13,
     <1>14, <1>15, <1>16 DEF Next

LEMMA InitTyped == ASSUME RestClientAssumption, Init PROVE Typed
<1>1. call \in CallRecord /\ Counted
  BY ConstantsTyped DEF Init, Counted, CallRecord, Outcomes
<1>2. polling \in BOOLEAN /\ ready \in BOOLEAN /\ wasReady \in BOOLEAN
  BY DEF Init
<1>3. QED
  BY <1>1, <1>2 DEF Init, Typed, TypeOK

\* Every variable keeps its type, and no attempt is made beyond the last.
THEOREM TypeCorrect == Spec => []TypeOK
<1>1. Init => Typed
  BY InitTyped, RestClientAssumption
<1>2. Typed /\ [Next]_vars => Typed'
  BY NextTyped, RestClientAssumption
<1>3. Typed => TypeOK
  BY DEF Typed
<1>4. QED
  BY <1>1, <1>2, <1>3, PTL DEF Spec

------------------------------------------------------------------------------
\* A call changes the service once.  A request that would change it is repeated
\* only as long as it has not left.

Sent == wire \cup changes
Asking == {"connecting", "backoff"}

OneCall(r) ==
  /\ r.call <= call.n
  /\ r.call = call.n => r.method = call.method
  /\ r.call = call.n /\ call.at \in Asking => r.method = "GET"

Once ==
  /\ \A r \in Sent : OneCall(r)
  /\ \A r, s \in Sent : r.call = s.call /\ r.method # "GET" /\ s.method # "GET" => r = s
  /\ \A r \in changes : r.method # "GET"

\* A step of the latest call that sends nothing, and asks for another attempt
\* only if the method may be repeated.
SameCall ==
  /\ call'.n = call.n /\ call'.method = call.method
  /\ call'.at \in Asking => call.at \in Asking \/ MayRepeat

NothingSent == Sent' \subseteq Sent /\ \A r \in changes' : r \in changes \/ r.method # "GET"

LEMMA RepeatsReads == ASSUME RestClientAssumption, Typed, MayRepeat PROVE call.method = "GET"
  BY DEF RestClientAssumption, Typed, TypeOK, CallRecord, MayRepeat, RetryAllowed

LEMMA SameCallOnce ==
  ASSUME RestClientAssumption, Typed, Once, SameCall, NothingSent
  PROVE  Once'
<1>1. ASSUME NEW r \in Sent' PROVE OneCall(r)'
  <2>1. OneCall(r)
    BY <1>1 DEF Once, NothingSent
  <2>2. CASE call'.at \in Asking /\ call.at \notin Asking
    BY <2>1, <2>2, RepeatsReads DEF OneCall, SameCall
  <2>3. QED
    BY <2>1, <2>2 DEF OneCall, SameCall
<1>2. QED
  BY <1>1 DEF Once, NothingSent

LEMMA StartOnce ==
  ASSUME RestClientAssumption, Typed, Once, NEW m \in Methods \cup {"GET"}, Start(m),
         UNCHANGED service
  PROVE  Once'
<1>1. call.n \in Nat /\ call'.n = call.n + 1 /\ UNCHANGED Sent /\ UNCHANGED changes
  BY StartTyped DEF Typed, TypeOK, CallRecord, Sent, service
<1>2. \A r \in Sent : r.call \in Nat
  BY DEF Typed, TypeOK, Sent, Request
<1>3. \A r \in Sent : OneCall(r)'
  BY <1>1, <1>2 DEF Once, OneCall
<1>4. QED
  BY <1>1, <1>3 DEF Once

LEMMA ConnectedOnce == ASSUME RestClientAssumption, Typed, Once, Connected PROVE Once'
<1> DEFINE new == [call |-> call.n, attempt |-> call.tries, method |-> call.method]
<1>1. Sent' \subseteq Sent \cup {new} /\ changes' = changes
  BY DEF Connected, Sent
<1>2. call.at = "connecting" /\ call'.at = "reading" /\ call'.n = call.n
      /\ call'.method = call.method
  BY EnterTyped, ConstantsTyped DEF Connected, Phases, Typed, Counted
<1>3. new.call = call.n /\ new.method = call.method /\ call.n \in Nat
  BY DEF Typed, TypeOK, CallRecord
<1>4. ASSUME NEW r \in Sent, r.call = call.n PROVE r.method = "GET"
  BY <1>2, <1>4 DEF Once, OneCall, Asking
<1> HIDE DEF new
<1>5. \A r \in Sent' : OneCall(r)'
  BY <1>1, <1>2, <1>3 DEF Once, OneCall, Asking
<1>6. ASSUME NEW r \in Sent', NEW s \in Sent', r.call = s.call, r.method # "GET",
             s.method # "GET"
      PROVE  r = s
  BY <1>1, <1>3, <1>4, <1>6 DEF Once
<1>7. QED
  BY <1>1, <1>5, <1>6 DEF Once

LEMMA NextOnce ==
  ASSUME RestClientAssumption, Typed, Once, [Next]_vars
  PROVE  Once'
<1>1. CASE Issue
  BY <1>1, StartOnce DEF Issue
<1>2. CASE WaitForReady
  <2>1. CASE UNCHANGED call
    BY <1>2, <2>1 DEF WaitForReady, service, Once, OneCall, Sent
  <2>2. QED
    BY <1>2, <2>1, StartOnce DEF WaitForReady
<1>3. CASE ConnectFails \/ ReadFails \/ Answered \/ Complete \/ BodyFails
  <2>1. NothingSent /\ call.tries >= 1
    BY <1>3 DEF ConnectFails, ReadFails, Answered, Complete, BodyFails, service, NothingSent,
                Sent, Typed, Counted
  <2>2. CASE BackOff /\ AnotherTry /\ (call.at \in Asking \/ MayRepeat)
    BY <2>1, <2>2, BackOffTyped, SameCallOnce DEF SameCall
  <2>3. CASE \E o \in Outcomes : End(o)
    BY <2>1, <2>3, EndTyped, SameCallOnce DEF SameCall, Asking
  <2>4. CASE Enter("body", Timeout)
    BY <2>1, <2>4, EnterTyped, ConstantsTyped, SameCallOnce DEF SameCall, Asking, Phases
  <2>5. QED
    BY <1>3, <2>2, <2>3, <2>4, OutcomeTyped
       DEF ConnectFails, ReadFails, Answered, Complete, BodyFails, FailOrRetry, Asking, Outcomes
<1>4. CASE Connected
  BY <1>4, ConnectedOnce
<1>5. CASE Retry \/ Piece \/ Tick \/ UNCHANGED vars
  <2>1. SameCall
    <3>1. call \in CallRecord
      BY DEF Typed, TypeOK
    <3>2. CASE Retry
      <4>1. call.at = "backoff" /\ call'.n = call.n /\ call'.method = call.method
        BY <3>1, <3>2 DEF Retry, CallRecord
      <4>2. QED
        BY <4>1 DEF SameCall, Asking
    <3>3. CASE Tick
      <4>1. call'.n = call.n /\ call'.method = call.method /\ call'.at = call.at
        BY <3>1, <3>3 DEF Tick, CallRecord
      <4>2. QED
        BY <4>1 DEF SameCall
    <3>4. CASE Piece
      <4>1. call'.n = call.n /\ call'.method = call.method /\ call'.at = call.at
        BY <3>1, <3>4 DEF Piece, Enter, CallRecord
      <4>2. QED
        BY <4>1 DEF SameCall
    <3>5. CASE UNCHANGED vars
      BY <3>5 DEF vars, SameCall
    <3>6. QED
      BY <1>5, <3>2, <3>3, <3>4, <3>5
  <2>2. NothingSent
    BY <1>5 DEF Retry, Piece, Tick, vars, service, NothingSent, Sent
  <2>3. QED
    BY <2>1, <2>2, SameCallOnce
<1>6. CASE Poll
  <2>1. CASE Start("GET")
    BY <1>6, <2>1, StartOnce DEF Poll
  <2>2. CASE call' = [call EXCEPT !.at = "idle"]
    <3>1. call \in CallRecord
      BY DEF Typed, TypeOK
    <3>2. call'.n = call.n /\ call'.method = call.method /\ call'.at = "idle"
      BY <2>2, <3>1 DEF CallRecord
    <3>3. SameCall
      BY <3>2 DEF SameCall, Asking
    <3>4. NothingSent
      BY <1>6 DEF Poll, service, NothingSent, Sent
    <3>5. QED
      BY <3>3, <3>4, SameCallOnce
  <2>3. QED
    BY <1>6, <2>1, <2>2 DEF Poll
<1>7. CASE Handle \/ Lose \/ ReadyChanges
  <2>1. SameCall
    BY <1>7 DEF Handle, Lose, ReadyChanges, SameCall
  <2>2. NothingSent
    BY <1>7 DEF Handle, Lose, ReadyChanges, NothingSent, Sent
  <2>3. QED
    BY <2>1, <2>2, SameCallOnce
<1>8. QED
  BY <1>1, <1>2, <1>3, <1>4, <1>5, <1>6, <1>7 DEF Next

\* However requests are lost, late or repeated, no call changes the service
\* twice: Retry's allowed methods, and the order of _request()'s steps.
THEOREM ChangesOnce == Spec => []ChangedOnce
<1>1. Init => Typed /\ Once
  BY InitTyped, RestClientAssumption DEF Init, Once, Sent
<1>2. Typed /\ Once /\ [Next]_vars => (Typed /\ Once)'
  BY NextTyped, NextOnce, RestClientAssumption
<1>3. Once => ChangedOnce
  BY DEF Once, ChangedOnce, Sent
<1>4. QED
  BY <1>1, <1>2, <1>3, PTL DEF Spec

------------------------------------------------------------------------------
\* The bound on wait_for_ready(): what is left of the budget, of the overrun and
\* of the time gained by pieces pays for all that the probe under way may still
\* take if no further piece comes; and a further piece brings what it takes.

\* The longest that an attempt after this one takes, and all of them.
Attempt == 2 * Timeout + MaxBackoff
Spare(tries) == (Retries + 1 - tries) * Attempt

Need ==
  CASE call.at = "connecting" -> call.left + 2 * Timeout + Spare(call.tries) + PollInterval
    [] call.at = "reading" -> call.left + Timeout + Spare(call.tries) + PollInterval
    [] call.at = "backoff" ->
         call.left + Timeout + (Spare(call.tries) - MaxBackoff) + PollInterval
    [] call.at = "body" -> call.left + PollInterval
    [] OTHER -> call.left

Funds == budget + Overrun + extra
Paid == /\ polling => call.at # "idle"
        /\ Counting => Funds > Need

LEMMA SpareFacts ==
  ASSUME RestClientAssumption
  PROVE  /\ Attempt \in Nat /\ Attempt = 2 * Timeout + MaxBackoff
         /\ \A t \in 0..(Retries + 1) : Spare(t) \in Nat
         /\ \A t \in 0..Retries : Spare(t) = Spare(t + 1) + Attempt
         /\ Overrun \in Nat /\ Overrun = 3 * Timeout + Spare(1) + PollInterval
<1>1. \A x \in Nat, y \in Nat : x * y \in Nat /\ (x + 1) * y = x * y + y
  OBVIOUS
<1>2. Attempt \in Nat
  BY ConstantsTyped DEF Attempt
<1>3. \A t \in 0..(Retries + 1) : Spare(t) \in Nat
  BY <1>1, <1>2, ConstantsTyped DEF Spare
<1>4. ASSUME NEW t \in 0..Retries PROVE Spare(t) = Spare(t + 1) + Attempt
  <2>1. PICK x \in Nat : x = Retries - t
    BY ConstantsTyped
  <2>2. Retries + 1 - t = x + 1 /\ Retries + 1 - (t + 1) = x
    BY <2>1, ConstantsTyped
  <2>3. QED
    BY <1>1, <1>2, <2>2 DEF Spare
<1>5. Spare(1) = Retries * Attempt
  BY ConstantsTyped DEF Spare
<1>6. /\ (Retries + 1) * 2 * Timeout = Retries * (2 * Timeout) + 2 * Timeout
      /\ Retries * Attempt = Retries * (2 * Timeout) + Retries * MaxBackoff
      /\ Retries * MaxBackoff \in Nat /\ Retries * (2 * Timeout) \in Nat
  BY <1>1, ConstantsTyped DEF Attempt
<1>7. QED
  BY <1>2, <1>3, <1>4, <1>5, <1>6, ConstantsTyped DEF Attempt, Overrun

\* What the proof of each step needs to know about the numbers.
Numbers ==
  /\ call.left \in Nat /\ budget \in Int /\ call.tries \in 0..(Retries + 1)
  /\ Spare(call.tries) \in Nat /\ Funds \in Int /\ extra \in Nat

LEMMA NumbersTyped == ASSUME RestClientAssumption, Typed PROVE Numbers
<1>1. /\ call.left \in Nat /\ budget \in Int /\ call.tries \in 0..(Retries + 1)
      /\ extra \in Nat
  BY DEF Typed, TypeOK, CallRecord
<1>2. QED
  BY <1>1, SpareFacts DEF Numbers, Funds

\* A step that leaves the clock alone.
SameClock == UNCHANGED <<polling, budget, extra>>

LEMMA SameFunds == ASSUME SameClock PROVE Funds' = Funds /\ (Counting' <=> Counting)
  BY DEF SameClock, Funds, Counting, Overrun

LEMMA StartPaid ==
  ASSUME RestClientAssumption, Typed, Start("GET"), budget' \in Int, budget' > 0,
         extra' \in Nat
  PROVE  Paid'
<1>1. Funds' > Timeout + 2 * Timeout + Spare(1) + PollInterval
  BY SpareFacts, ConstantsTyped DEF Funds
<1>2. QED
  BY <1>1, StartTyped DEF Paid, Need

LEMMA BackOffPaid ==
  ASSUME RestClientAssumption, Typed, Paid, BackOff, AnotherTry,
         call.at \in {"connecting", "reading"}
  PROVE  Paid'
<1>1. call.tries >= 1
  BY DEF Typed, Counted
<1>2. /\ call'.at = "backoff" /\ call'.left \in 0..MaxBackoff /\ call'.tries = call.tries
      /\ SameClock
  BY <1>1, BackOffTyped DEF poll, SameClock
<1>3. CASE Counting
  <2>1. Funds > call.left + Timeout + Spare(call.tries) + PollInterval
    BY <1>3, NumbersTyped, SpareFacts, ConstantsTyped DEF Paid, Need, Numbers
  <2>2. Need' = call'.left + Timeout + (Spare(call.tries) - MaxBackoff) + PollInterval
    BY <1>2 DEF Need
  <2>3. QED
    BY <1>2, <2>1, <2>2, NumbersTyped, SameFunds, ConstantsTyped DEF Paid, Numbers
<1>4. QED
  BY <1>2, <1>3, SameFunds DEF Paid

LEMMA EndPaid ==
  ASSUME RestClientAssumption, Typed, Paid, NEW o \in Outcomes, End(o),
         call.at \in {"connecting", "reading", "body"}
  PROVE  Paid'
<1>1. call.tries >= 1
  BY DEF Typed, Counted
<1>2. \/ ~polling'
      \/ call'.at = "sleeping" /\ call'.left = PollInterval /\ SameClock
  BY <1>1, EndTyped DEF SameClock
<1>3. CASE Counting /\ SameClock /\ call'.at = "sleeping" /\ call'.left = PollInterval
  <2>1. Funds > PollInterval
    BY <1>3, NumbersTyped, SpareFacts, ConstantsTyped DEF Paid, Need, Numbers
  <2>2. QED
    BY <1>3, <2>1, SameFunds DEF Paid, Need
<1>4. QED
  BY <1>2, <1>3, SameFunds DEF Paid, Counting

\* What a piece takes it brings: the time of a wait that begins anew.
LEMMA PiecePaid ==
  ASSUME RestClientAssumption, Typed, Paid, Piece
  PROVE  Paid'
<1>1. /\ call.at \in {"connecting", "reading", "body"} /\ call.left < Timeout
      /\ call'.at = call.at /\ call'.left = Timeout /\ call'.tries = call.tries
  BY EnterTyped, ConstantsTyped DEF Piece, Phases, Typed, Counted
<1>2. UNCHANGED <<polling, budget>> /\ (Counting' <=> Counting)
  BY DEF Piece, Counting
<1>3. CASE Counting
  <2>1. extra' = extra + (Timeout - call.left)
    BY <1>3 DEF Piece
  <2>2. Funds' = Funds + (Timeout - call.left)
    BY <1>2, <2>1, NumbersTyped, SpareFacts, ConstantsTyped DEF Funds, Numbers
  <2>3. Need' = Need + (Timeout - call.left) /\ Need \in Int
    BY <1>1, NumbersTyped, ConstantsTyped DEF Need, Numbers
  <2>4. QED
    BY <1>1, <1>3, <2>2, <2>3, NumbersTyped, ConstantsTyped DEF Paid, Numbers
<1>4. QED
  BY <1>1, <1>2, <1>3 DEF Paid

LEMMA NextPaid ==
  ASSUME RestClientAssumption, Typed, Paid, [Next]_vars
  PROVE  Paid'
<1>1. CASE Issue
  <2>1. ~polling /\ ~polling'
    BY <1>1 DEF Issue, poll, Paid
  <2>2. QED
    BY <2>1 DEF Paid, Counting
<1>2. CASE WaitForReady
  <2>1. call.at = "idle" /\ ~polling /\ extra' = 0
    BY <1>2 DEF WaitForReady, Paid
  <2>2. CASE ~polling'
    BY <2>2 DEF Paid, Counting
  <2>3. CASE Start("GET") /\ \E t \in ReadyTimeouts : t > 0 /\ budget' = t
    <3>1. budget' \in Int /\ budget' > 0 /\ extra' \in Nat
      BY <2>1, <2>3, ConstantsTyped
    <3>2. QED
      BY <2>3, <3>1, StartPaid
  <2>4. \/ UNCHANGED polling
        \/ Start("GET") /\ \E t \in ReadyTimeouts : t > 0 /\ budget' = t
    BY ZenonT(30), <1>2 DEF WaitForReady
  <2>5. QED
    BY <2>1, <2>2, <2>3, <2>4
<1>3. CASE ConnectFails \/ ReadFails \/ Answered \/ Complete \/ BodyFails
  <2>1. CASE BackOff /\ AnotherTry /\ call.at \in {"connecting", "reading"}
    BY <2>1, BackOffPaid
  <2>2. CASE call.at \in {"connecting", "reading", "body"} /\ \E o \in Outcomes : End(o)
    BY <2>2, EndPaid
  <2>3. CASE call.at = "reading" /\ Enter("body", Timeout) /\ UNCHANGED poll
    <3>1. call'.at = "body" /\ call'.left = Timeout
      BY <2>3, EnterTyped, ConstantsTyped DEF Phases, Typed, Counted
    <3>2. SameClock
      BY <2>3 DEF poll, SameClock
    <3>3. Counting => Funds > Timeout + PollInterval
      BY <2>3, NumbersTyped, SpareFacts, ConstantsTyped DEF Paid, Need, Numbers
    <3>4. QED
      BY <3>1, <3>2, <3>3, SameFunds DEF Paid, Need
  <2>4. QED
    BY <1>3, <2>1, <2>2, <2>3, OutcomeTyped
       DEF ConnectFails, ReadFails, Answered, Complete, BodyFails, FailOrRetry, Outcomes
<1>4. CASE Connected
  <2>1. /\ call'.at = "reading" /\ call'.left = Timeout /\ call'.tries = call.tries
        /\ call.at = "connecting" /\ SameClock
    BY <1>4, EnterTyped, ConstantsTyped DEF Connected, Phases, Typed, Counted, poll, SameClock
  <2>2. Counting => Funds > Timeout + Timeout + Spare(call.tries) + PollInterval
    BY <2>1, NumbersTyped, SpareFacts, ConstantsTyped DEF Paid, Need, Numbers
  <2>3. QED
    BY <2>1, <2>2, SameFunds DEF Paid, Need
<1>5. CASE Retry
  <2>1. /\ call.at = "backoff" /\ call.left = 0 /\ call.tries <= Retries
        /\ SameClock
    BY <1>5 DEF Retry, Typed, Counted, poll, SameClock
  <2>2. call'.at = "connecting" /\ call'.left = Timeout /\ call'.tries = call.tries + 1
    BY <1>5 DEF Retry, Typed, TypeOK, CallRecord
  <2>3. Counting => Funds > Timeout + (Spare(call.tries) - MaxBackoff) + PollInterval
    BY <2>1, NumbersTyped, SpareFacts, ConstantsTyped DEF Paid, Need, Numbers
  <2>4. Spare(call.tries) = Spare(call.tries + 1) + (2 * Timeout + MaxBackoff)
        /\ Spare(call.tries + 1) \in Nat
    BY SMTT(30), <2>1, NumbersTyped, SpareFacts, ConstantsTyped DEF Numbers
  <2>5. Counting => Funds > Timeout + 2 * Timeout + Spare(call.tries + 1) + PollInterval
    BY <2>3, <2>4, NumbersTyped, SpareFacts, ConstantsTyped DEF Numbers
  <2>6. QED
    BY <2>1, <2>2, <2>5, SameFunds DEF Paid, Need
<1>6. CASE Poll
  <2>1. CASE budget > 0 /\ Start("GET") /\ UNCHANGED poll
    BY <2>1, StartPaid, NumbersTyped DEF poll, Numbers
  <2>2. QED
    BY <1>6, <2>1 DEF Poll, Paid, Counting
<1>7. CASE Tick
  <2>1. /\ call'.at = call.at /\ call'.left = call.left - 1 /\ call'.tries = call.tries
        /\ call.left > 0 /\ polling' = polling /\ extra' = extra
    BY <1>7 DEF Tick, Typed, TypeOK, CallRecord
  <2>2. Need' = Need - 1 /\ Need \in Int
    BY <2>1, NumbersTyped, SpareFacts, ConstantsTyped DEF Need, Numbers
  <2>3. CASE Counting
    <3>1. budget' = budget - 1
      BY <1>7, <2>3 DEF Tick
    <3>2. Funds' = Funds - 1
      BY <2>1, <3>1, NumbersTyped, SpareFacts DEF Funds, Numbers
    <3>3. QED
      BY <2>1, <2>2, <2>3, <3>2, NumbersTyped DEF Paid, Numbers
  <2>4. CASE ~Counting
    BY <1>7, <2>1, <2>4 DEF Tick, Counting, Paid
  <2>5. QED
    BY <2>3, <2>4
<1>8. CASE Handle \/ Lose \/ ReadyChanges \/ UNCHANGED vars
  <2>1. SameClock /\ UNCHANGED call
    BY ZenonT(30), <1>8 DEF Handle, Lose, ReadyChanges, vars, poll, SameClock
  <2>2. QED
    BY <2>1, SameFunds DEF Paid, Need, SameClock
<1>9. CASE Piece
  BY <1>9, PiecePaid
<1>10. QED
  BY <1>1, <1>2, <1>3, <1>4, <1>5, <1>6, <1>7, <1>8, <1>9 DEF Next

\* wait_for_ready() overruns its timeout by one probe and one sleep at most, and
\* by what more addresses and more pieces of answers have given that probe: the
\* time between one test of the deadline and the next.
THEOREM WaitBounded == Spec => []WaitIsBounded
<1>1. Init => Typed /\ Paid
  BY InitTyped, RestClientAssumption DEF Init, Paid, Counting
<1>2. Typed /\ Paid /\ [Next]_vars => (Typed /\ Paid)'
  BY NextTyped, NextPaid, RestClientAssumption
<1>3. Typed /\ Paid => WaitIsBounded
  <2>1. SUFFICES ASSUME Typed, Paid, Counting PROVE Funds > 0
    BY DEF WaitIsBounded, Funds
  <2>2. Need \in Nat
    <3>1. Spare(call.tries) - MaxBackoff \in Nat \/ call.at # "backoff"
      <4>1. SUFFICES ASSUME call.at = "backoff"
                     PROVE  Spare(call.tries) - MaxBackoff \in Nat
        OBVIOUS
      <4>2. call.tries \in 0..Retries /\ call.tries + 1 \in 0..(Retries + 1)
        BY <2>1, <4>1, RestClientAssumption, NumbersTyped, ConstantsTyped
           DEF Typed, Counted, Numbers
      <4>3. /\ Spare(call.tries) = Spare(call.tries + 1) + (2 * Timeout + MaxBackoff)
            /\ Spare(call.tries + 1) \in Nat
        BY <4>2, RestClientAssumption, SpareFacts
      <4>4. QED
        BY <4>3, RestClientAssumption, ConstantsTyped
    <3>2. QED
      BY <2>1, <3>1, RestClientAssumption, NumbersTyped, ConstantsTyped DEF Need, Numbers
  <2>3. QED
    BY <2>1, <2>2, RestClientAssumption, NumbersTyped DEF Paid, Numbers
<1>4. QED
  BY <1>1, <1>2, <1>3, PTL DEF Spec

------------------------------------------------------------------------------
\* Outcomes are answers, and True is told of a service that had a network.

\* While a call is under way it has no outcome, and the answer whose body is
\* read is there to be classified.
Told ==
  /\ call.at \in {"connecting", "reading", "body", "backoff"} => call.outcome = "none"
  /\ call.at = "body" =>
       /\ reply # NoAnswer
       /\ MayRepeat /\ reply.status \in RetryStatuses => call.tries = Retries + 1
  /\ OutcomeIsAnswer

\* A step after which the call has no outcome that a status stands for.
LEMMA Untold ==
  ASSUME call'.at # "body", call'.outcome \notin StatusOutcomes,
         call'.at \in {"connecting", "reading", "backoff"} => call'.outcome = "none"
  PROVE  Told'
  BY DEF Told, OutcomeIsAnswer

LEMMA StartTold ==
  ASSUME RestClientAssumption, Typed, NEW m \in Methods \cup {"GET"}, Start(m)
  PROVE  Told'
<1>1. call'.at = "connecting" /\ call'.outcome = "none"
  BY StartTyped
<1>2. QED
  BY <1>1, Untold DEF StatusOutcomes

\* A step that leaves alone what Told is about.
LEMMA SameTold ==
  ASSUME Told, call'.tries = call.tries, call'.method = call.method,
         call'.outcome = call.outcome,
         call'.at = call.at \/ call'.at = "idle" \/ (call.at = "backoff" /\ call'.at = "connecting"),
         UNCHANGED reply
  PROVE  Told'
  BY DEF Told, OutcomeIsAnswer, MayRepeat

LEMMA NextTold ==
  ASSUME RestClientAssumption, Typed, Told, [Next]_vars
  PROVE  Told'
<1>0. call \in CallRecord /\ call.tries \in Nat /\ call.tries <= Retries + 1 /\ Retries \in Nat
  BY ConstantsTyped DEF Typed, TypeOK, CallRecord
<1>1. CASE Issue
  BY <1>1, StartTold DEF Issue
<1>2. CASE WaitForReady
  BY <1>2, StartTold, SameTold DEF WaitForReady, service
<1>3. CASE ConnectFails \/ ReadFails \/ BodyFails
  <2>1. call.tries >= 1 /\ call.at # "sleeping" /\ call.outcome = "none"
    BY <1>3 DEF ConnectFails, ReadFails, BodyFails, Typed, Counted, Told
  <2>2. (BackOff /\ AnotherTry) \/ End("connection") \/ End("timeout") \/ End("error")
    BY <1>3 DEF ConnectFails, ReadFails, BodyFails, FailOrRetry
  <2>3. CASE BackOff /\ AnotherTry
    <3>1. call'.at = "backoff" /\ call'.outcome = call.outcome
      BY <1>0, <2>3 DEF BackOff, Enter, CallRecord
    <3>2. QED
      BY <2>1, <3>1, Untold DEF StatusOutcomes
  <2>4. CASE \E o \in {"connection", "timeout", "error"} : End(o)
    <3>1. PICK o \in {"connection", "timeout", "error"} : End(o)
      BY <2>4
    <3>2. o \in Outcomes /\ o \notin StatusOutcomes
      BY DEF Outcomes, StatusOutcomes
    <3>3. call'.outcome = o /\ call'.at \in {"idle", "sleeping"}
      BY <2>1, <3>1, <3>2, EndTyped
    <3>4. QED
      BY <3>2, <3>3, Untold
  <2>5. QED
    BY <2>2, <2>3, <2>4
<1>4. CASE Connected
  <2>1. call'.at = "reading" /\ call'.outcome = call.outcome /\ call.outcome = "none"
    BY <1>0, <1>4 DEF Connected, Enter, CallRecord, Told
  <2>2. QED
    BY <2>1, Untold DEF StatusOutcomes
<1>5. CASE Answered
  <2>1. call.outcome = "none" /\ reply # NoAnswer /\ UNCHANGED reply
    BY <1>5 DEF Answered, Told, service
  <2>2. CASE BackOff
    <3>1. call'.at = "backoff" /\ call'.outcome = call.outcome
      BY <1>0, <2>2 DEF BackOff, Enter, CallRecord
    <3>2. QED
      BY <2>1, <3>1, Untold DEF StatusOutcomes
  <2>3. CASE Enter("body", Timeout) /\ ~(MayRepeat /\ reply.status \in RetryStatuses /\ AnotherTry)
    <3>1. /\ call'.at = "body" /\ call'.outcome = call.outcome /\ call'.tries = call.tries
          /\ call'.method = call.method
      BY <1>0, <2>3 DEF Enter, CallRecord
    <3>2. MayRepeat /\ reply.status \in RetryStatuses => call.tries = Retries + 1
      BY <1>0, <2>3 DEF AnotherTry
    <3>3. QED
      BY <2>1, <3>1, <3>2 DEF Told, OutcomeIsAnswer, StatusOutcomes, MayRepeat
  <2>4. QED
    BY <1>5, <2>2, <2>3 DEF Answered
<1>6. CASE Complete
  <2>1. call.tries >= 1 /\ call.at = "body" /\ UNCHANGED reply /\ End(OutcomeOf(reply))
    BY <1>6 DEF Complete, Typed, Counted, service
  <2>2. /\ call'.tries = call.tries /\ call'.method = call.method
        /\ call'.outcome = OutcomeOf(reply) /\ call'.at \in {"idle", "sleeping"}
    BY <2>1, OutcomeTyped, EndTyped
  <2>3. QED
    BY <2>1, <2>2 DEF Told, OutcomeIsAnswer, MayRepeat
<1>7. CASE Retry
  <2>1. call'.at = "connecting" /\ call'.outcome = call.outcome /\ call.outcome = "none"
    BY <1>0, <1>7 DEF Retry, CallRecord, Told
  <2>2. QED
    BY <2>1, Untold DEF StatusOutcomes
<1>8. CASE Poll
  <2>1. CASE call' = [call EXCEPT !.at = "idle"]
    BY <1>0, <1>8, <2>1, SameTold DEF Poll, service, CallRecord
  <2>2. QED
    BY <1>8, <2>1, StartTold DEF Poll
<1>9. CASE Handle
  <2>1. UNCHANGED call
    BY <1>9 DEF Handle
  <2>2. CASE call.at = "reading"
    BY <2>1, <2>2, Untold DEF Told, StatusOutcomes
  <2>3. CASE call.at # "reading"
    BY <1>9, <2>1, <2>3, SameTold DEF Handle
  <2>4. QED
    BY <2>2, <2>3
<1>10. CASE Lose \/ ReadyChanges \/ UNCHANGED vars
  BY <1>10, SameTold DEF Lose, ReadyChanges, vars
<1>11. CASE Tick
  <2>1. /\ call'.at = call.at /\ call'.tries = call.tries /\ call'.method = call.method
        /\ call'.outcome = call.outcome
    BY <1>0, <1>11 DEF Tick, CallRecord
  <2>2. QED
    BY <1>11, <2>1, SameTold DEF Tick, service
<1>12. CASE Piece
  <2>1. /\ call'.at = call.at /\ call'.tries = call.tries /\ call'.method = call.method
        /\ call'.outcome = call.outcome
    BY <1>0, <1>12 DEF Piece, Enter, CallRecord
  <2>2. QED
    BY <1>12, <2>1, SameTold DEF Piece, service
<1>13. QED
  BY <1>1, <1>2, <1>3, <1>4, <1>5, <1>6, <1>7, <1>8, <1>9, <1>10, <1>11, <1>12 DEF Next

\* What a call reports as a status is the service's answer to its last attempt.
THEOREM OutcomesAreAnswers == Spec => []OutcomeIsAnswer
<1>1. Init => Typed /\ Told
  <2>1. Init => call.at = "idle" /\ call.outcome = "none"
    BY DEF Init
  <2>2. call.at = "idle" /\ call.outcome = "none" => Told
    BY DEF Told, OutcomeIsAnswer, StatusOutcomes
  <2>3. QED
    BY <2>1, <2>2, InitTyped, RestClientAssumption
<1>2. Typed /\ Told /\ [Next]_vars => (Typed /\ Told)'
  BY NextTyped, NextTold, RestClientAssumption
<1>3. Typed /\ Told => OutcomeIsAnswer
  BY DEF Told
<1>4. QED
  BY <1>1, <1>2, <1>3, PTL DEF Spec

\* A network that an answer reports was there while wait_for_ready() polled.
Seen ==
  /\ call.at = "idle" => ~polling
  /\ polling /\ ready => wasReady
  /\ polling /\ call.at \in {"reading", "body"} /\ reply.loaded => wasReady
  /\ TrueWhenReady

LEMMA NextSeen ==
  ASSUME RestClientAssumption, Typed, Seen, [Next]_vars
  PROVE  Seen'
<1>0. call \in CallRecord
  BY DEF Typed, TypeOK
<1>1. CASE Issue
  BY <1>1, StartTyped DEF Issue, Seen, TrueWhenReady, poll, service
<1>2. CASE WaitForReady
  BY <1>2, StartTyped DEF WaitForReady, Seen, TrueWhenReady, service
<1>3. CASE ConnectFails \/ ReadFails \/ Answered \/ Complete \/ BodyFails
  <2>1. call.tries >= 1 /\ UNCHANGED <<reply, ready>>
    BY <1>3 DEF ConnectFails, ReadFails, Answered, Complete, BodyFails, Typed, Counted, service
  <2>2. CASE BackOff
    <3>1. call'.at = "backoff" /\ UNCHANGED poll
      BY <1>0, <2>2 DEF BackOff, Enter, CallRecord
    <3>2. QED
      BY <2>1, <3>1 DEF Seen, TrueWhenReady, poll
  <2>3. CASE \E o \in Outcomes : End(o) /\ (o = "ready" => call.at = "body" /\ reply.loaded)
    <3>1. PICK o \in Outcomes : End(o) /\ (o = "ready" => call.at = "body" /\ reply.loaded)
      BY <2>3
    <3>2. \/ call'.at = "idle" /\ ~polling'
          \/ call'.at = "sleeping" /\ UNCHANGED polling
      BY <2>1, <3>1, EndTyped
    <3>3. UNCHANGED wasReady /\ (polling' => polling)
      BY <3>1 DEF End, poll
    <3>4. answer' = "true" => answer = "true" \/ (polling /\ o = "ready")
      BY <3>1 DEF End, poll, IsReady
    <3>5. QED
      BY <2>1, <3>1, <3>2, <3>3, <3>4 DEF Seen, TrueWhenReady
  <2>4. CASE Enter("body", Timeout) /\ UNCHANGED poll /\ call.at = "reading"
    <3>1. call'.at = "body"
      BY <1>0, <2>4 DEF Enter, CallRecord
    <3>2. QED
      BY <2>1, <2>4, <3>1 DEF Seen, TrueWhenReady, poll
  <2>5. OutcomeOf(reply) = "ready" => reply.loaded
    BY DEF OutcomeOf, Success, Failure
  <2>6. QED
    BY <1>3, <2>2, <2>3, <2>4, <2>5, OutcomeTyped
       DEF ConnectFails, ReadFails, Answered, Complete, BodyFails, FailOrRetry, Outcomes
<1>4. CASE Connected
  <2>1. call'.at = "reading" /\ ~reply'.loaded /\ UNCHANGED <<poll, ready>>
    BY <1>0, <1>4 DEF Connected, Enter, CallRecord, NoAnswer
  <2>2. QED
    BY <2>1 DEF Seen, TrueWhenReady, poll
<1>5. CASE Retry
  <2>1. call'.at = "connecting" /\ UNCHANGED <<poll, ready>>
    BY <1>0, <1>5 DEF Retry, CallRecord, service
  <2>2. QED
    BY <2>1 DEF Seen, TrueWhenReady, poll
<1>6. CASE Poll
  <2>1. CASE Start("GET") /\ UNCHANGED poll
    BY <1>6, <2>1, StartTyped DEF Poll, Seen, TrueWhenReady, poll, service
  <2>2. CASE call' = [call EXCEPT !.at = "idle"] /\ polling' = FALSE /\ answer' = "false"
    <3>1. call'.at = "idle"
      BY <1>0, <2>2 DEF CallRecord
    <3>2. QED
      BY <2>2, <3>1 DEF Seen, TrueWhenReady
  <2>3. QED
    BY <1>6, <2>1, <2>2 DEF Poll
<1>7. CASE Handle
  <2>1. UNCHANGED <<call, poll, ready>> /\ (reply'.loaded => reply.loaded \/ ready)
    BY <1>7 DEF Handle
  <2>2. QED
    BY <2>1 DEF Seen, TrueWhenReady, poll
<1>8. CASE Lose \/ UNCHANGED vars
  BY <1>8 DEF Lose, vars, Seen, TrueWhenReady, poll, service
<1>9. CASE ReadyChanges
  BY <1>9 DEF ReadyChanges, Seen, TrueWhenReady
<1>10. CASE Tick
  <2>1. call'.at = call.at /\ UNCHANGED <<polling, answer, wasReady, reply, ready>>
    BY <1>0, <1>10 DEF Tick, CallRecord, service
  <2>2. QED
    BY <2>1 DEF Seen, TrueWhenReady
<1>11. CASE Piece
  <2>1. call'.at = call.at /\ UNCHANGED <<polling, answer, wasReady, reply, ready>>
    BY <1>0, <1>11 DEF Piece, Enter, CallRecord, service
  <2>2. QED
    BY <2>1 DEF Seen, TrueWhenReady
<1>12. QED
  BY <1>1, <1>2, <1>3, <1>4, <1>5, <1>6, <1>7, <1>8, <1>9, <1>10, <1>11 DEF Next

\* wait_for_ready() returns True only if the service had a network meanwhile.
THEOREM TrueIsReady == Spec => []TrueWhenReady
<1>1. Init => Typed /\ Seen
  <2>1. Init => call.at = "idle" /\ ~polling /\ answer = "none"
    BY DEF Init
  <2>2. call.at = "idle" /\ ~polling /\ answer = "none" => Seen
    BY DEF Seen, TrueWhenReady
  <2>3. QED
    BY <2>1, <2>2, InitTyped, RestClientAssumption
<1>2. Typed /\ Seen /\ [Next]_vars => (Typed /\ Seen)'
  BY NextTyped, NextSeen, RestClientAssumption
<1>3. Typed /\ Seen => TrueWhenReady
  BY DEF Seen
<1>4. QED
  BY <1>1, <1>2, <1>3, PTL DEF Spec
==============================================================================
