---------------------------- MODULE FrameDelivery ----------------------------
(***************************************************************************)
(* What a training stream promises to its consumer: the application frames *)
(* of a connection are handed over once each, in the order in which they   *)
(* were sent, and the end of a connection is seen, and reported if it is a *)
(* loss, only when nothing is left of what was sent on it.                 *)
(***************************************************************************)
EXTENDS Naturals, Sequences

CONSTANTS
  Conns,       \* connections
  Types,       \* types of frames
  Application  \* types of the frames that a consumer sees

VARIABLES
  sent,    \* sent[k]: the types of the frames sent on connection k, in order
  read,    \* read[k]: how many of them have been read
  handed,  \* frames handed over and losses reported, in order
  ended    \* connections whose end has been seen

Entry(type, k, n) == [type |-> type, on |-> k, n |-> n]

Init ==
  /\ sent = [k \in Conns |-> <<>>]
  /\ read = [k \in Conns |-> 0]
  /\ handed = <<>> /\ ended = {}

\* Nothing is sent on a connection after its end.
Send(k) ==
  /\ k \notin ended
  /\ \E t \in Types : sent' = [sent EXCEPT ![k] = Append(@, t)]
  /\ UNCHANGED <<read, handed, ended>>

Read(k) ==
  /\ read[k] < Len(sent[k])
  /\ read' = [read EXCEPT ![k] = @ + 1]
  /\ LET n == read[k] + 1  type == sent[k][n]
     IN  \/ type \in Application /\ handed' = Append(handed, Entry(type, k, n))
         \/ type \notin Application /\ UNCHANGED handed
  /\ UNCHANGED <<sent, ended>>

End(k) ==
  /\ read[k] = Len(sent[k])
  /\ ended' = ended \cup {k}
  /\ handed' \in {handed, Append(handed, Entry("disconnect", k, 0))}
  /\ UNCHANGED <<sent, read>>

Next == \E k \in Conns : Send(k) \/ Read(k) \/ End(k)

Spec == Init /\ [][Next]_<<sent, read, handed, ended>>

------------------------------------------------------------------------------
FramesOf(k) == {i \in DOMAIN handed : handed[i].on = k /\ handed[i].type # "disconnect"}

\* The frames handed over of each connection are the application frames among
\* those read from it, in their order and once each.
HandedInOrder ==
  \A k \in Conns :
    /\ \A n \in 1..read[k] :
         sent[k][n] \in Application =>
           \E i \in FramesOf(k) : handed[i] = Entry(sent[k][n], k, n)
    /\ \A i \in FramesOf(k) :
         /\ handed[i].n \in 1..read[k]
         /\ sent[k][handed[i].n] \in Application
         /\ handed[i] = Entry(sent[k][handed[i].n], k, handed[i].n)
    /\ \A i, j \in FramesOf(k) : i < j => handed[i].n < handed[j].n
==============================================================================
