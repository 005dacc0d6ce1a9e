----------------------------- MODULE CommandCalls -----------------------------
(***************************************************************************)
(* What CascorControlStream promises to the coroutines that share it: a    *)
(* request is never retried, and a call that returns a response returns    *)
(* the server's response to that very call.                                *)
(***************************************************************************)
EXTENDS Naturals

CONSTANTS
  Callers,
  MaxCalls   \* bound: calls per caller

NoReply == <<>>
Calls   == Callers \X (1..MaxCalls)

VARIABLES
  inCall,    \* callers with a call under way
  n,         \* calls each caller has begun
  accepted,  \* calls whose request the server has taken
  answered,  \* calls the server has answered
  result     \* what each caller's latest call returned

TypeOK ==
  /\ inCall \subseteq Callers
  /\ n \in [Callers -> 0..MaxCalls]
  /\ answered \subseteq accepted /\ accepted \subseteq Calls
  /\ result \in [Callers -> Calls \cup {NoReply}]

Init ==
  /\ inCall = {} /\ accepted = {} /\ answered = {}
  /\ n = [c \in Callers |-> 0]
  /\ result = [c \in Callers |-> NoReply]

Advance(c) ==
  /\ c \notin inCall /\ n[c] < MaxCalls
  /\ n' = [n EXCEPT ![c] = @ + 1]
  /\ result' = [result EXCEPT ![c] = NoReply]

\* The call fails before anything is sent.
Refuse(c) == Advance(c) /\ UNCHANGED <<inCall, accepted, answered>>

\* The call begins; its request reaches the server now or never.
Begin(c) ==
  /\ Advance(c)
  /\ inCall' = inCall \cup {c}
  /\ \/ accepted' = accepted \cup {<<c, n'[c]>>}
     \/ UNCHANGED accepted
  /\ UNCHANGED answered

Answer(q) ==
  /\ q \in accepted
  /\ answered' = answered \cup {q}
  /\ UNCHANGED <<inCall, n, accepted, result>>

\* The call raises, or returns the answer to itself.
Return(c) ==
  /\ c \in inCall
  /\ inCall' = inCall \ {c}
  /\ \/ UNCHANGED result
     \/ /\ <<c, n[c]>> \in answered
        /\ result' = [result EXCEPT ![c] = <<c, n[c]>>]
  /\ UNCHANGED <<n, accepted, answered>>

Next ==
  \/ \E c \in Callers : Refuse(c) \/ Begin(c) \/ Return(c)
  \/ \E q \in accepted : Answer(q)

Spec == Init /\ [][Next]_<<inCall, n, accepted, answered, result>>
==============================================================================
