------------------------------ MODULE RestClient ------------------------------
(***************************************************************************)
(* JuniperCascorClient (src/juniper_cascor_client/client.py): calls of its *)
(* methods over HTTP, one at a time, and wait_for_ready(), which polls.    *)
(*                                                                         *)
(* A call is a number of attempts.  An attempt connects, sends its request *)
(* and waits for the answer's head and body.  The timeout limits each wait *)
(* for the network and no phase as a whole: a host with several addresses  *)
(* is tried at each of them, and an answer may come in any number of       *)
(* pieces (Piece).  requests and urllib3's Retry, configured by __init__,  *)
(* decide what a failed attempt means.  The service may handle a request   *)
(* late, after the client has given the attempt up, or never.  All methods *)
(* of the class are _request() with another HTTP method and path, and the  *)
(* path does not matter here.                                              *)
(*                                                                         *)
(* Time passes in ticks, and only while the client waits for something.    *)
(***************************************************************************)
EXTENDS Integers

CONSTANTS
  Methods,       \* HTTP methods the application uses
  Statuses,      \* statuses the service answers with
  Retries,       \* retries, Retry(total)
  Timeout,       \* self.timeout, of each address tried and of each read
  MaxBackoff,    \* bound: Retry's longest sleep between two attempts
  PollInterval,  \* wait_for_ready(poll_interval)
  ReadyTimeouts, \* wait_for_ready(timeout)
  Horizon,       \* bound: how far past its deadline a wait's clock is followed
  MaxCalls       \* bound: calls the application makes

ASSUME RestClientAssumption ==
  /\ Methods \subseteq {"GET", "POST", "PATCH", "DELETE"} /\ Statuses \subseteq 200..599
  /\ {Retries, MaxBackoff, Horizon, MaxCalls} \subseteq Nat
  /\ {Timeout, PollInterval} \subseteq Nat \ {0} /\ ReadyTimeouts \subseteq Nat

VARIABLES
  call,      \* the latest call, see CallRecord
  polling,   \* wait_for_ready() is under way,
  budget,    \* the time to its deadline, negative when it is past,
  extra,     \* history: the time its probes have gained by Piece,
  answer,    \* and what the latest one returned
  wire,      \* external: requests sent that the service has not handled
  reply,     \* external: its answer to the latest attempt
  changes,   \* external: the requests by which the service was changed
  ready,     \* external: the service has a network
  wasReady   \* history: it had one at some moment of the latest wait_for_ready()

vars == <<call, polling, budget, extra, answer, wire, reply, changes, ready, wasReady>>
poll == <<polling, budget, extra, answer, wasReady>>
service == <<wire, reply, changes, ready>>

Outcomes == {"none", "ready", "ok", "no_object", "validation", "not_found", "conflict",
             "unavailable", "error", "connection", "timeout"}
CallRecord == [n : Nat, method : Methods \cup {"GET"},
               at : {"idle", "connecting", "reading", "body", "backoff", "sleeping"},
               tries : 0..(Retries + 1), left : Nat, outcome : Outcomes]
Request == [call : Nat, attempt : 1..(Retries + 1), method : Methods \cup {"GET"}]
\* What a body may be: the service's JSON object, other JSON, anything else.
Bodies == {"object", "no_object", "text"}
NoAnswer == [status |-> 0, body |-> "text", loaded |-> FALSE]
Answer == [status : Statuses, body : Bodies, loaded : BOOLEAN]

TypeOK ==
  /\ call \in CallRecord
  /\ polling \in BOOLEAN /\ budget \in Int /\ extra \in Nat
  /\ answer \in {"none", "true", "false", "raises"}
  /\ wire \subseteq Request /\ changes \subseteq Request /\ reply \in Answer \cup {NoAnswer}
  /\ ready \in BOOLEAN /\ wasReady \in BOOLEAN

Init ==
  /\ call = [n |-> 0, method |-> "GET", at |-> "idle", tries |-> 0, left |-> 0,
             outcome |-> "none"]
  /\ polling = FALSE /\ budget = 0 /\ extra = 0 /\ answer = "none"
  /\ wire = {} /\ changes = {} /\ reply = NoAnswer
  /\ ready \in BOOLEAN /\ wasReady = FALSE

------------------------------------------------------------------------------
\* The policy

\* Mutant: retries for every method.
RetryAllowedAll == {"HEAD", "GET", "POST", "PATCH", "DELETE"}

RetryAllowed == {"HEAD", "GET"}
RetryStatuses == {429, 502, 503, 504}

\* Mutants: retries counted as attempts; retries not counted.
AnotherTryEarly == call.tries < Retries
AnotherTryAlways == TRUE

AnotherTry == call.tries <= Retries
MayRepeat == call.method \in RetryAllowed

\* _handle_response(), _parse_json_body() and what is_ready() finds in the
\* health endpoint's object.  JSON that is not an object makes body.get() raise
\* AttributeError, as it does result.get() in is_ready(); other methods return
\* it.
Failure(status) ==
  CASE status \in {400, 422} -> "validation"
    [] status = 404 -> "not_found"
    [] status = 409 -> "conflict"
    [] status = 503 -> "unavailable"
    [] OTHER -> "error"

Success(a) == IF a.body = "text" THEN "error" ELSE IF a.loaded THEN "ready" ELSE "ok"

OutcomeOf(a) ==
  IF a.body = "no_object" THEN "no_object"
  ELSE IF a.status < 400 THEN Success(a) ELSE Failure(a.status)

\* Mutant: a service that answers is ready.
IsReadyAlive(o) == o \in {"ready", "ok"}

\* What is_ready() returns for an outcome; what it does not catch ends
\* wait_for_ready() as well.
IsReady(o) == o = "ready"
Escapes(o) == o = "no_object"

Enter(at, left) == call' = [call EXCEPT !.at = at, !.left = left]

\* The call returns, or raises the exception that o stands for.
End(o) ==
  \/ /\ ~polling
     /\ call' = [call EXCEPT !.at = "idle", !.left = 0, !.outcome = o]
     /\ UNCHANGED poll
  \/ /\ polling /\ (IsReady(o) \/ Escapes(o))
     /\ call' = [call EXCEPT !.at = "idle", !.left = 0, !.outcome = o]
     /\ polling' = FALSE /\ answer' = (IF Escapes(o) THEN "raises" ELSE "true")
     /\ budget' = 0 /\ extra' = 0 /\ UNCHANGED wasReady
  \/ /\ polling /\ ~IsReady(o) /\ ~Escapes(o)
     /\ call' = [call EXCEPT !.at = "sleeping", !.left = PollInterval, !.outcome = o]
     /\ UNCHANGED poll

\* Retry.sleep() between attempts.
BackOff ==
  /\ \E s \in 0..MaxBackoff : Enter("backoff", s)
  /\ UNCHANGED poll

\* The attempt failed in a way that Retry repeats, if it may, and reports with
\* outcome o when it has no attempt left.
FailOrRetry(o) == (AnotherTry /\ BackOff) \/ (~AnotherTry /\ End(o))

Start(method) ==
  call' = [call EXCEPT !.n = @ + 1, !.method = method, !.at = "connecting",
                       !.tries = 1, !.left = Timeout, !.outcome = "none"]

------------------------------------------------------------------------------
\* The client

\* The application calls one of the methods of the class.
Issue ==
  /\ call.at = "idle" /\ call.n < MaxCalls
  /\ \E m \in Methods : Start(m)
  /\ UNCHANGED <<poll, service>>

\* wait_for_ready(timeout): with no time at all there is no probe.
WaitForReady ==
  /\ call.at = "idle" /\ call.n < MaxCalls
  /\ \E t \in ReadyTimeouts :
       \/ t > 0 /\ Start("GET") /\ polling' = TRUE /\ answer' = "none" /\ budget' = t
       \/ t = 0 /\ UNCHANGED <<call, polling>> /\ answer' = "false" /\ budget' = 0
  /\ wasReady' = ready /\ extra' = 0
  /\ UNCHANGED service

\* No address is left to try: the last was refused, or did not answer within the
\* timeout.  The request has not left, and any method is tried again.  requests'
\* ConnectTimeout is a ConnectionError, which _request() catches first.
ConnectFails ==
  /\ call.at = "connecting" /\ FailOrRetry("connection")
  /\ UNCHANGED service

\* The request is sent.  Of the requests given up before, those that are still
\* under way and would change the service matter.
Connected ==
  /\ call.at = "connecting" /\ Enter("reading", Timeout)
  /\ wire' = {r \in wire : r.method # "GET"}
               \cup {[call |-> call.n, attempt |-> call.tries, method |-> call.method]}
  /\ reply' = NoAnswer
  /\ UNCHANGED <<poll, changes, ready>>

\* No answer in time, or the connection is lost.  Retry repeats GET only, and
\* what it raises in the end is not a timeout any more: requests turns its
\* MaxRetryError into a ConnectionError.
ReadFails ==
  /\ call.at = "reading"
  /\ \/ MayRepeat /\ FailOrRetry("connection")
     \/ ~MayRepeat /\ call.left = 0 /\ End("timeout")
     \/ ~MayRepeat /\ call.left > 0 /\ End("connection")
  /\ UNCHANGED service

\* The head of the answer.  With raise_on_status=False the last answer is
\* returned, whatever its status.
Answered ==
  /\ call.at = "reading" /\ reply # NoAnswer
  /\ IF MayRepeat /\ reply.status \in RetryStatuses /\ AnotherTry
     THEN BackOff
     ELSE Enter("body", Timeout) /\ UNCHANGED poll
  /\ UNCHANGED service

\* The rest of the answer arrives; or it does not in time, which requests calls
\* a ConnectionError here too, or is broken off, another RequestException.
Complete == call.at = "body" /\ End(OutcomeOf(reply)) /\ UNCHANGED service

BodyFails ==
  /\ call.at = "body"
  /\ (call.left = 0 /\ End("connection")) \/ (call.left > 0 /\ End("error"))
  /\ UNCHANGED service

\* Mutant: the attempt is not counted.
RetryUncounted ==
  /\ call.at = "backoff" /\ call.left = 0
  /\ Enter("connecting", Timeout)
  /\ UNCHANGED <<poll, service>>

Retry ==
  /\ call.at = "backoff" /\ call.left = 0
  /\ call' = [call EXCEPT !.at = "connecting", !.tries = @ + 1, !.left = Timeout]
  /\ UNCHANGED <<poll, service>>

\* Mutant: `<=` for `<` in the test against the deadline.
PollOnceMore ==
  /\ call.at = "sleeping" /\ call.left = 0
  /\ \/ budget >= 0 /\ Start("GET") /\ UNCHANGED poll
     \/ /\ budget < 0 /\ call' = [call EXCEPT !.at = "idle"]
        /\ polling' = FALSE /\ answer' = "false" /\ budget' = 0 /\ extra' = 0
        /\ UNCHANGED wasReady
  /\ UNCHANGED service

\* wait_for_ready() wakes up and looks at the clock.
Poll ==
  /\ call.at = "sleeping" /\ call.left = 0
  /\ \/ budget > 0 /\ Start("GET") /\ UNCHANGED poll
     \/ /\ budget <= 0 /\ call' = [call EXCEPT !.at = "idle"]
        /\ polling' = FALSE /\ answer' = "false" /\ budget' = 0 /\ extra' = 0
        /\ UNCHANGED wasReady
  /\ UNCHANGED service

------------------------------------------------------------------------------
\* External: the service, the network, the clock

\* A request is handled, whether or not the client still waits for the answer.
Handle ==
  /\ \E r \in wire :
       /\ wire' = wire \ {r}
       /\ changes' = IF r.method = "GET" THEN changes ELSE changes \cup {r}
       /\ IF call.at = "reading" /\ r.call = call.n /\ r.attempt = call.tries
          THEN \E s \in Statuses, b \in Bodies :
                 reply' = [status |-> s, body |-> b, loaded |-> ready]
          ELSE UNCHANGED reply
  /\ UNCHANGED <<call, poll, ready>>

Lose ==
  /\ \E r \in wire : wire' = wire \ {r}
  /\ UNCHANGED <<call, poll, reply, changes, ready>>

\* A network is created or deleted.
ReadyChanges ==
  /\ ready' = ~ready
  /\ wasReady' = (wasReady \/ (polling /\ ~ready))
  /\ UNCHANGED <<call, polling, budget, extra, answer, wire, reply, changes>>

\* An address was tried in vain and there is another, or a piece of an answer
\* comes that is not its end: the client waits anew, for a whole timeout.
Counting == polling /\ budget > -Horizon

Piece ==
  /\ call.at \in {"connecting", "reading", "body"} /\ call.left < Timeout
  /\ Enter(call.at, Timeout)
  /\ extra' = IF Counting THEN extra + (Timeout - call.left) ELSE extra
  /\ UNCHANGED <<polling, budget, answer, wasReady, service>>

Tick ==
  /\ call.left > 0
  /\ call' = [call EXCEPT !.left = @ - 1]
  /\ budget' = IF Counting THEN budget - 1 ELSE budget
  /\ UNCHANGED <<polling, extra, answer, wasReady, service>>

Proceed ==
  ConnectFails \/ Connected \/ ReadFails \/ Answered \/ Complete \/ BodyFails \/ Retry \/ Poll

Next ==
  \/ Issue \/ WaitForReady
  \/ ConnectFails \/ Connected \/ ReadFails \/ Answered \/ Complete \/ BodyFails
  \/ Retry \/ Poll
  \/ Handle \/ Lose \/ ReadyChanges \/ Piece \/ Tick

Spec == Init /\ [][Next]_vars

\* The clock goes on, and a client whose timer has run out goes on.
FairSpec == Spec /\ WF_vars(Tick \/ Proceed)

------------------------------------------------------------------------------
\* Properties

\* Whatever is lost, late or repeated, a call changes the service once at most
\* (RETRY_ALLOWED_METHODS: a repeated save_snapshot() would write twice).
ChangedOnce == \A a, b \in changes : a.call = b.call => a = b

\* A status outcome is what the service answered to the last attempt of this
\* very call, and a status that Retry repeats comes back from a GET only when
\* every attempt has been made (_handle_response(), raise_on_status).
StatusOutcomes == {"ready", "ok", "validation", "not_found", "conflict", "unavailable"}

OutcomeIsAnswer ==
  call.outcome \in StatusOutcomes =>
    /\ reply # NoAnswer /\ OutcomeOf(reply) = call.outcome
    /\ MayRepeat /\ reply.status \in RetryStatuses => call.tries = Retries + 1

\* wait_for_ready() returns True only if the service had a network at some
\* moment after it was called.
TrueWhenReady == answer = "true" => wasReady

\* wait_for_ready() tests its deadline between probes only.  By how much it may
\* overrun it: one probe with all its attempts, and a sleep, if each phase of an
\* attempt is one wait for the network; and all the time that more addresses and
\* more pieces give the probes, on which the code sets no bound.
Overrun == (Retries + 1) * 2 * Timeout + Retries * MaxBackoff + Timeout + PollInterval

WaitIsBounded == Counting => budget + Overrun + extra > 0

\* wait_for_ready() ends whatever is lost, late, refused or malformed, unless the
\* service goes on handing out pieces for ever, each within the timeout.
WaitReturns == <>[][~Piece]_vars => (polling ~> ~polling)
==============================================================================
