------------------------- MODULE FrameDeliveryProofs -------------------------
(***************************************************************************)
(* FrameDelivery hands over the application frames of each connection once *)
(* each and in order.                                                      *)
(***************************************************************************)
EXTENDS FrameDelivery, SequenceTheorems, TLAPS

Constants == Application \subseteq Types /\ "disconnect" \notin Types

Entries == [type : Types \cup {"disconnect"}, on : Conns, n : Nat]

TypeOK ==
  /\ sent \in [Conns -> Seq(Types)]
  /\ read \in [Conns -> Nat]
  /\ \A k \in Conns : read[k] <= Len(sent[k])
  /\ handed \in Seq(Entries)

Inv == TypeOK /\ HandedInOrder

\* Appending to a sequence keeps the elements it has.
LEMMA AppendKeeps ==
  ASSUME NEW S, NEW s \in Seq(S), NEW e \in S
  PROVE  /\ Append(s, e) \in Seq(S)
         /\ Len(Append(s, e)) = Len(s) + 1
         /\ DOMAIN Append(s, e) = DOMAIN s \cup {Len(s) + 1}
         /\ \A i \in DOMAIN s : Append(s, e)[i] = s[i] /\ i <= Len(s)
         /\ Append(s, e)[Len(s) + 1] = e
         /\ DOMAIN s = 1..Len(s)
         /\ Len(s) \in Nat
  BY AppendProperties

LEMMA SendKeepsInv ==
  ASSUME Constants, Inv, NEW j \in Conns, Send(j)
  PROVE  Inv'
<1>1. PICK t \in Types : sent' = [sent EXCEPT ![j] = Append(@, t)]
  BY DEF Send
<1>2. read' = read /\ handed' = handed
  BY DEF Send
<1>3. \A k \in Conns : /\ sent'[k] \in Seq(Types)
                       /\ Len(sent'[k]) >= Len(sent[k])
                       /\ \A n \in 1..read[k] : sent'[k][n] = sent[k][n]
  <2> SUFFICES ASSUME NEW k \in Conns
               PROVE  /\ sent'[k] \in Seq(Types)
                      /\ Len(sent'[k]) >= Len(sent[k])
                      /\ \A n \in 1..read[k] : sent'[k][n] = sent[k][n]
    OBVIOUS
  <2>1. sent[k] \in Seq(Types) /\ read[k] \in Nat /\ read[k] <= Len(sent[k])
    BY DEF Inv, TypeOK
  <2>2. CASE k = j
    <3>1. sent'[k] = Append(sent[k], t)
      BY <1>1, <2>2 DEF Inv, TypeOK
    <3>2. \A n \in 1..read[k] : n \in DOMAIN sent[k]
      BY <2>1
    <3>3. QED
      BY <2>1, <3>1, <3>2, AppendKeeps
  <2>3. CASE k # j
    BY <1>1, <2>1, <2>3 DEF Inv, TypeOK
  <2>4. QED
    BY <2>2, <2>3
<1>4. TypeOK'
  <2>1. sent' \in [Conns -> Seq(Types)]
    BY <1>1, <1>3 DEF Inv, TypeOK
  <2>2. \A k \in Conns : read'[k] <= Len(sent'[k])
    <3> TAKE k \in Conns
    <3>1. sent[k] \in Seq(Types) /\ sent'[k] \in Seq(Types) /\ read[k] \in Nat
          /\ read[k] <= Len(sent[k])
      BY <1>3 DEF Inv, TypeOK
    <3>2. QED
      BY <1>2, <1>3, <3>1
  <2>3. QED
    BY <1>2, <2>1, <2>2 DEF Inv, TypeOK
<1>5. \A k \in Conns : FramesOf(k)' = FramesOf(k)
  BY <1>2 DEF FramesOf
<1>6. HandedInOrder'
  <2>1. ASSUME NEW k \in Conns, NEW n \in 1..read[k], sent'[k][n] \in Application
        PROVE  \E i \in FramesOf(k) : handed[i] = Entry(sent'[k][n], k, n)
    BY <1>3, <2>1 DEF Inv, HandedInOrder
  <2>2. ASSUME NEW k \in Conns, NEW i \in FramesOf(k)
        PROVE  /\ handed[i].n \in 1..read[k]
               /\ sent'[k][handed[i].n] \in Application
               /\ handed[i] = Entry(sent'[k][handed[i].n], k, handed[i].n)
    BY <1>3, <2>2 DEF Inv, HandedInOrder
  <2>3. \A k \in Conns : \A i, h \in FramesOf(k) : i < h => handed[i].n < handed[h].n
    BY DEF Inv, HandedInOrder
  <2>4. QED
    BY <1>2, <1>5, <2>1, <2>2, <2>3 DEF HandedInOrder, Entry
<1>7. QED
  BY <1>4, <1>6 DEF Inv

\* One more frame of connection j is read and, if it is an application frame,
\* handed over.
LEMMA ReadKeepsInv ==
  ASSUME Constants, Inv, NEW j \in Conns, Read(j)
  PROVE  Inv'
<1> DEFINE m == read[j] + 1
           e == Entry(sent[j][m], j, m)
<1>1. /\ sent \in [Conns -> Seq(Types)] /\ read \in [Conns -> Nat]
      /\ sent[j] \in Seq(Types) /\ read[j] \in Nat /\ m \in Nat
      /\ m <= Len(sent[j])
      /\ read' = [read EXCEPT ![j] = m] /\ sent' = sent
  BY DEF Read, Inv, TypeOK
<1>2. sent[j][m] \in Types
  BY <1>1
<1>3. e \in Entries
  BY <1>1, <1>2 DEF Entry, Entries
<1>4. \/ sent[j][m] \in Application /\ handed' = Append(handed, e)
      \/ sent[j][m] \notin Application /\ handed' = handed
  BY DEF Read
<1>5. handed \in Seq(Entries)
  BY DEF Inv, TypeOK
<1>6. \A k \in Conns : /\ read'[k] \in Nat /\ read'[k] <= Len(sent'[k])
                       /\ read[k] \in Nat /\ read[k] <= read'[k]
                       /\ k # j => read'[k] = read[k]
                       /\ k = j => read'[k] = m
  BY <1>1 DEF Inv, TypeOK
<1>7. TypeOK'
  <2>1. handed' \in Seq(Entries)
    BY <1>3, <1>4, <1>5, AppendKeeps
  <2>2. QED
    BY <1>1, <1>6, <2>1 DEF TypeOK
<1>8. CASE sent[j][m] \notin Application /\ handed' = handed
  <2>1. \A k \in Conns : FramesOf(k)' = FramesOf(k)
    BY <1>8 DEF FramesOf
  <2>2. ASSUME NEW k \in Conns
        PROVE  \A n \in 1..read'[k] : sent[k][n] \in Application => n \in 1..read[k]
    BY <1>1, <1>6, <1>8
  <2>3. ASSUME NEW k \in Conns
        PROVE  1..read[k] \subseteq 1..read'[k]
    BY <1>6
  <2>4. HandedInOrder'
    BY <1>1, <1>8, <2>1, <2>2, <2>3 DEF Inv, HandedInOrder, Entry
  <2>5. QED
    BY <1>7, <2>4 DEF Inv
<1>9. CASE sent[j][m] \in Application /\ handed' = Append(handed, e)
  <2> DEFINE last == Len(handed) + 1
  <2>1. /\ DOMAIN handed' = DOMAIN handed \cup {last}
        /\ \A i \in DOMAIN handed : handed'[i] = handed[i] /\ i < last
        /\ handed'[last] = e /\ last \notin DOMAIN handed
        /\ DOMAIN handed \subseteq Nat /\ last \in Nat
    BY <1>3, <1>5, <1>9, AppendKeeps
  <2>2. e.on = j /\ e.type # "disconnect" /\ e.n = m
    BY <1>2 DEF Entry, Constants
  <2>3. \A k \in Conns : FramesOf(k)' = IF k = j THEN FramesOf(k) \cup {last} ELSE FramesOf(k)
    BY <2>1, <2>2 DEF FramesOf
  <2>4. \A k \in Conns : \A i \in FramesOf(k) : handed'[i] = handed[i] /\ i < last
    BY <2>1 DEF FramesOf
  <2>5. ASSUME NEW k \in Conns, NEW n \in 1..read'[k], sent[k][n] \in Application
        PROVE  \E i \in FramesOf(k)' : handed'[i] = Entry(sent[k][n], k, n)
    <3>1. CASE n \in 1..read[k]
      <4>1. PICK i \in FramesOf(k) : handed[i] = Entry(sent[k][n], k, n)
        BY <2>5, <3>1 DEF Inv, HandedInOrder
      <4>2. QED
        BY <2>3, <2>4, <4>1
    <3>2. CASE k = j /\ n = m
      BY <2>1, <2>3, <3>2
    <3>3. QED
      BY <1>1, <1>6, <3>1, <3>2
  <2>6. ASSUME NEW k \in Conns, NEW i \in FramesOf(k)'
        PROVE  /\ handed'[i].n \in 1..read'[k]
               /\ sent[k][handed'[i].n] \in Application
               /\ handed'[i] = Entry(sent[k][handed'[i].n], k, handed'[i].n)
    <3>1. CASE i \in FramesOf(k)
      BY <1>6, <2>4, <3>1 DEF Inv, HandedInOrder
    <3>2. CASE k = j /\ i = last
      <4>1. handed'[i] = e
        BY <2>1, <3>2
      <4>2. handed'[i].n = m
        BY <2>2, <4>1
      <4>3. m \in 1..read'[k]
        BY <1>1, <1>6, <3>2
      <4>4. QED
        BY <1>9, <3>2, <4>1, <4>2, <4>3
    <3>3. QED
      BY <2>3, <3>1, <3>2
  <2>7. ASSUME NEW k \in Conns, NEW i \in FramesOf(k)', NEW h \in FramesOf(k)', i < h
        PROVE  handed'[i].n < handed'[h].n
    <3>1. CASE h \in FramesOf(k) /\ i \in FramesOf(k)
      BY <2>4, <2>7, <3>1 DEF Inv, HandedInOrder
    <3>2. CASE k = j /\ h = last /\ i \in FramesOf(k)
      <4>1. handed[i].n \in 1..read[k]
        BY <3>2 DEF Inv, HandedInOrder
      <4>2. QED
        BY <1>1, <2>1, <2>2, <2>4, <3>2, <4>1
    <3>3. CASE i = last
      <4>1. h \in DOMAIN handed \cup {last}
        BY <2>1 DEF FramesOf
      <4>2. h < last \/ h = last
        BY <2>1, <4>1
      <4>3. QED
        BY <2>1, <2>7, <3>3, <4>1, <4>2
    <3>4. QED
      BY <2>3, <3>1, <3>2, <3>3
  <2>8. HandedInOrder'
    BY <1>1, <2>5, <2>6, <2>7 DEF HandedInOrder
  <2>9. QED
    BY <1>7, <2>8 DEF Inv
<1>10. QED
  BY <1>4, <1>8, <1>9

LEMMA EndKeepsInv ==
  ASSUME Constants, Inv, NEW j \in Conns, End(j)
  PROVE  Inv'
<1> DEFINE e == Entry("disconnect", j, 0)
<1>1. sent' = sent /\ read' = read /\ (handed' = handed \/ handed' = Append(handed, e))
  BY DEF End
<1>2. e \in Entries /\ e.type = "disconnect"
  BY DEF Entry, Entries
<1>3. handed \in Seq(Entries)
  BY DEF Inv, TypeOK
<1>4. TypeOK'
  <2>1. handed' \in Seq(Entries)
    BY <1>1, <1>2, <1>3, AppendKeeps
  <2>2. QED
    BY <1>1, <2>1 DEF Inv, TypeOK
<1>5. \A k \in Conns : /\ FramesOf(k)' = FramesOf(k)
                       /\ \A i \in FramesOf(k) : handed'[i] = handed[i]
  BY <1>1, <1>2, <1>3, AppendKeeps DEF FramesOf
<1>6. HandedInOrder'
  BY SMTT(30), <1>1, <1>5 DEF Inv, HandedInOrder, Entry
<1>7. QED
  BY <1>4, <1>6 DEF Inv

\* Frames are handed over once each and in order: what stream() promises.
THEOREM DeliveredInOrder ==
  ASSUME Constants
  PROVE  Spec => []HandedInOrder
<1>1. Init => Inv
  BY DEF Init, Inv, TypeOK, HandedInOrder, FramesOf, Entries
<1>2. Inv /\ [Next]_<<sent, read, handed, ended>> => Inv'
  <2> SUFFICES ASSUME Inv, [Next]_<<sent, read, handed, ended>> PROVE Inv'
    OBVIOUS
  <2>1. CASE Next
    BY <2>1, SendKeepsInv, ReadKeepsInv, EndKeepsInv DEF Next
  <2>2. CASE UNCHANGED <<sent, read, handed, ended>>
    BY <2>2 DEF Inv, TypeOK, HandedInOrder, FramesOf, Entry
  <2>3. QED
    BY <2>1, <2>2
<1>3. QED
  BY <1>1, <1>2, PTL DEF Spec, Inv
==============================================================================
