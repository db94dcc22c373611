--------------------------- MODULE DropOldest_proofs ---------------------------
(***************************************************************************)
(* Proofs about DropOldest, for every capacity, every finite set of        *)
(* producers and every set of consumers, whichever of them put messages    *)
(* back.                                                                   *)
(***************************************************************************)
EXTENDS DropOldest, FiniteSetTheorems, TLAPS

-------------------------------------------------------------------------------

(* Facts about the first element and the rest of a sequence. *)
LEMMA HeadTail ==
    ASSUME NEW S, NEW s \in Seq(S), s # << >>
    PROVE  /\ Head(s) \in S /\ Head(s) = s[1] /\ 1 \in DOMAIN s
           /\ Tail(s) \in Seq(S) /\ Len(Tail(s)) = Len(s) - 1
           /\ DOMAIN Tail(s) = 1..(Len(s) - 1)
           /\ \A i \in 1..(Len(s) - 1) : Tail(s)[i] = s[i + 1]
           /\ Len(s) \in Nat \ {0} /\ DOMAIN s = 1..Len(s)
  OBVIOUS

(* Facts about a sequence with one more element. *)
LEMMA AppendOne ==
    ASSUME NEW S, NEW s \in Seq(S), NEW e \in S
    PROVE  /\ Append(s, e) \in Seq(S) /\ Len(Append(s, e)) = Len(s) + 1
           /\ DOMAIN Append(s, e) = 1..(Len(s) + 1)
           /\ \A i \in 1..Len(s) : Append(s, e)[i] = s[i]
           /\ Append(s, e)[Len(s) + 1] = e
           /\ Len(s) \in Nat /\ DOMAIN s = 1..Len(s)
  OBVIOUS

(* Appending adds one element to those of a sequence. *)
LEMMA ElemsAppend ==
    ASSUME NEW S, NEW s \in Seq(S), NEW e \in S
    PROVE  Elems(Append(s, e)) = Elems(s) \union {e}
  BY AppendOne DEF Elems

(* The elements of a sequence are its first one and those of the rest. *)
LEMMA ElemsHeadTail ==
    ASSUME NEW S, NEW s \in Seq(S), s # << >>
    PROVE  Elems(s) = {Head(s)} \union Elems(Tail(s))
  <1>1. Elems(s) \subseteq {Head(s)} \union Elems(Tail(s))
    <2> SUFFICES ASSUME NEW i \in 1..Len(s), i # 1
                 PROVE  s[i] \in Elems(Tail(s))
      BY HeadTail DEF Elems
    <2>1. i - 1 \in 1..(Len(s) - 1) /\ s[i] = Tail(s)[i - 1]
      BY HeadTail
    <2> QED
      BY <2>1, HeadTail DEF Elems
  <1>2. {Head(s)} \union Elems(Tail(s)) \subseteq Elems(s)
    <2> SUFFICES ASSUME NEW i \in 1..(Len(s) - 1)
                 PROVE  Tail(s)[i] \in Elems(s)
      BY HeadTail DEF Elems
    <2>1. i + 1 \in 1..Len(s) /\ Tail(s)[i] = s[i + 1]
      BY HeadTail
    <2> QED
      BY <2>1, HeadTail DEF Elems
  <1> QED
    BY <1>1, <1>2

(* Facts about the last element of a sequence and those before it. *)
LEMMA FrontLast ==
    ASSUME NEW S, NEW s \in Seq(S), s # << >>
    PROVE  /\ SubSeq(s, 1, Len(s) - 1) \in Seq(S)
           /\ Len(SubSeq(s, 1, Len(s) - 1)) = Len(s) - 1
           /\ DOMAIN SubSeq(s, 1, Len(s) - 1) = 1..(Len(s) - 1)
           /\ \A i \in 1..(Len(s) - 1) : SubSeq(s, 1, Len(s) - 1)[i] = s[i]
           /\ s[Len(s)] \in S
           /\ Len(s) \in Nat \ {0} /\ DOMAIN s = 1..Len(s)
  <1>1. Len(s) \in Nat \ {0} /\ DOMAIN s = 1..Len(s) /\ s[Len(s)] \in S
    OBVIOUS
  <1>2. ASSUME NEW j \in 0..Len(s)
        PROVE  /\ SubSeq(s, 1, j) \in Seq(S) /\ Len(SubSeq(s, 1, j)) = j
               /\ \A i \in 1..j : SubSeq(s, 1, j)[i] = s[i]
    OBVIOUS
  <1>3. Len(s) - 1 \in 0..Len(s)
    BY <1>1
  <1> QED
    BY <1>1, <1>2, <1>3

(* The elements of a sequence are its last one and those before. *)
LEMMA ElemsFrontLast ==
    ASSUME NEW S, NEW s \in Seq(S), s # << >>
    PROVE  Elems(s) = Elems(SubSeq(s, 1, Len(s) - 1)) \union {s[Len(s)]}
  <1>1. Elems(s) \subseteq Elems(SubSeq(s, 1, Len(s) - 1)) \union {s[Len(s)]}
    <2> SUFFICES ASSUME NEW i \in 1..Len(s), i # Len(s)
                 PROVE  s[i] \in Elems(SubSeq(s, 1, Len(s) - 1))
      BY FrontLast DEF Elems
    <2>1. i \in 1..(Len(s) - 1)
      BY FrontLast
    <2> QED
      BY <2>1, FrontLast DEF Elems
  <1>2. Elems(SubSeq(s, 1, Len(s) - 1)) \union {s[Len(s)]} \subseteq Elems(s)
    BY FrontLast DEF Elems
  <1> QED
    BY <1>1, <1>2

(* A sequence that has no element twice stays so, as one joins that it     *)
(* does not have, and as its first or its last leaves.                     *)
LEMMA OnceAppend ==
    ASSUME NEW S, NEW s \in Seq(S), NEW e \in S, Once(s), e \notin Elems(s)
    PROVE  Once(Append(s, e))
  <1> SUFFICES ASSUME NEW i \in 1..(Len(s) + 1), NEW j \in 1..(Len(s) + 1),
                      Append(s, e)[i] = Append(s, e)[j]
               PROVE  i = j
    BY AppendOne DEF Once
  <1>1. \A k \in 1..Len(s) : Append(s, e)[k] # Append(s, e)[Len(s) + 1]
    BY AppendOne DEF Elems
  <1>2. \A k \in 1..(Len(s) + 1) : k = Len(s) + 1 \/ k \in 1..Len(s)
    BY AppendOne
  <1>3. CASE i \in 1..Len(s) /\ j \in 1..Len(s)
    BY <1>3, AppendOne DEF Once
  <1> QED
    BY <1>1, <1>2, <1>3

LEMMA OnceTail ==
    ASSUME NEW S, NEW s \in Seq(S), s # << >>, Once(s)
    PROVE  Once(Tail(s)) /\ Head(s) \notin Elems(Tail(s))
  <1>1. \A i \in 1..(Len(s) - 1) :
          i + 1 \in DOMAIN s /\ i + 1 # 1 /\ Tail(s)[i] = s[i + 1]
    BY HeadTail
  <1>2. Head(s) \notin Elems(Tail(s))
    BY <1>1, HeadTail DEF Once, Elems
  <1>3. Once(Tail(s))
    <2> SUFFICES ASSUME NEW i \in 1..(Len(s) - 1), NEW j \in 1..(Len(s) - 1),
                        Tail(s)[i] = Tail(s)[j]
                 PROVE  i = j
      BY HeadTail DEF Once
    <2>1. i + 1 = j + 1
      BY <1>1 DEF Once
    <2> QED
      BY <2>1
  <1> QED
    BY <1>2, <1>3

LEMMA OnceFront ==
    ASSUME NEW S, NEW s \in Seq(S), s # << >>, Once(s)
    PROVE  /\ Once(SubSeq(s, 1, Len(s) - 1))
           /\ s[Len(s)] \notin Elems(SubSeq(s, 1, Len(s) - 1))
  <1>1. \A i \in 1..(Len(s) - 1) : i \in DOMAIN s /\ i # Len(s)
    BY FrontLast
  <1>2. Len(s) \in DOMAIN s
    BY FrontLast
  <1> QED
    BY <1>1, <1>2, FrontLast DEF Once, Elems

-------------------------------------------------------------------------------

(* The invariant holds of the empty channel. *)
LEMMA InitInv == Init => IInv
  <1> SUFFICES ASSUME Init PROVE IInv
    OBVIOUS
  <1> USE CapacityAssumption, MaxOffersAssumption DEF Init
  <1>1. TypeOK
    BY DEF TypeOK, Message
  <1>2. Sending /\ Ordered(channel)
    BY DEF Sending, Ordered
  <1>3. Got = {} /\ Gone = {} /\ Elems(channel) = {} /\ Accepted = {}
    BY DEF Got, Gone, Elems, Accepted, Message
  <1>4. OldestLeaveFirst /\ ReceivedInOrder
    BY <1>3 DEF OldestLeaveFirst, ReceivedInOrder, Ordered
  <1>5. OnePlaceEach
    BY <1>3 DEF OnePlaceEach, Once, Elems
  <1> QED
    BY <1>1, <1>2, <1>3, <1>4, <1>5 DEF IInv, NothingElseLost

(* What an appended message must be to keep the order: new to the channel  *)
(* and not older than anything the channel has seen of its producer.       *)
LEMMA AppendKeepsOrder ==
    ASSUME TypeOK, Ordered(channel), OldestLeaveFirst, NothingElseLost,
           NEW e \in Message, channel' = Append(channel, e), Gone' = Gone,
           returned' = returned,
           \A m \in Accepted : m.from = e.from => m.n < e.n
    PROVE  Ordered(channel)' /\ OldestLeaveFirst'
  <1>1. /\ DOMAIN channel' = 1..(Len(channel) + 1)
        /\ \A i \in 1..Len(channel) : channel'[i] = channel[i]
        /\ channel'[Len(channel) + 1] = e
        /\ Len(channel) \in Nat /\ DOMAIN channel = 1..Len(channel)
    BY AppendOne DEF TypeOK
  <1>2. \A i \in 1..Len(channel) : channel[i].from = e.from => channel[i].n < e.n
    BY <1>1 DEF NothingElseLost, Elems
  <1>3. Ordered(channel')
    <2> SUFFICES ASSUME NEW i \in DOMAIN channel', NEW j \in DOMAIN channel', i < j,
                        channel'[i].from = channel'[j].from,
                        {channel'[i], channel'[j]} \cap returned = {}
                 PROVE  Older(channel'[i], channel'[j])
      BY DEF Ordered
    <2>1. CASE j = Len(channel) + 1
      BY <2>1, <1>1, <1>2 DEF Older
    <2>2. CASE j # Len(channel) + 1
      <3>1. i \in 1..Len(channel) /\ j \in 1..Len(channel)
        BY <2>2, <1>1
      <3> QED
        BY <3>1, <1>1 DEF Ordered
    <2> QED
      BY <2>1, <2>2
  <1>4. OldestLeaveFirst'
    <2> SUFFICES ASSUME NEW m \in Gone', NEW i \in DOMAIN channel',
                        m.from = channel'[i].from,
                        {m, channel'[i]} \cap returned = {}
                 PROVE  Older(m, channel'[i])
      BY DEF OldestLeaveFirst, Older
    <2>1. CASE i = Len(channel) + 1
      BY <2>1, <1>1 DEF Older, NothingElseLost
    <2>2. CASE i # Len(channel) + 1
      <3>1. i \in 1..Len(channel)
        BY <2>2, <1>1
      <3> QED
        BY <3>1, <1>1 DEF OldestLeaveFirst
    <2> QED
      BY <2>1, <2>2
  <1> QED
    BY <1>3, <1>4 DEF Ordered

(* Taking the head out keeps the order, and the head joins what has gone. *)
LEMMA TailKeepsOrder ==
    ASSUME TypeOK, Ordered(channel), OldestLeaveFirst, channel # << >>,
           channel' = Tail(channel), Gone' = Gone \union {Head(channel)},
           returned' = returned
    PROVE  Ordered(channel)' /\ OldestLeaveFirst'
  <1>1. /\ DOMAIN channel' = 1..(Len(channel) - 1)
        /\ \A i \in 1..(Len(channel) - 1) : channel'[i] = channel[i + 1]
        /\ Head(channel) = channel[1]
        /\ Len(channel) \in Nat \ {0} /\ DOMAIN channel = 1..Len(channel)
    BY HeadTail DEF TypeOK
  <1>2. Ordered(channel')
    <2> SUFFICES ASSUME NEW i \in DOMAIN channel', NEW j \in DOMAIN channel', i < j,
                        channel'[i].from = channel'[j].from,
                        {channel'[i], channel'[j]} \cap returned = {}
                 PROVE  Older(channel'[i], channel'[j])
      BY DEF Ordered
    <2>1. i + 1 \in DOMAIN channel /\ j + 1 \in DOMAIN channel /\ i + 1 < j + 1
      BY <1>1
    <2> QED
      BY <2>1, <1>1 DEF Ordered
  <1>3. OldestLeaveFirst'
    <2> SUFFICES ASSUME NEW m \in Gone', NEW i \in DOMAIN channel',
                        m.from = channel'[i].from,
                        {m, channel'[i]} \cap returned = {}
                 PROVE  Older(m, channel'[i])
      BY DEF OldestLeaveFirst, Older
    <2>1. i + 1 \in DOMAIN channel /\ 1 \in DOMAIN channel /\ 1 < i + 1
          /\ channel'[i] = channel[i + 1]
      BY <1>1
    <2>2. CASE m \in Gone
      BY <2>1, <2>2 DEF OldestLeaveFirst
    <2>3. CASE m = Head(channel)
      BY <2>1, <2>3, <1>1 DEF Ordered
    <2> QED
      BY <2>2, <2>3
  <1> QED
    BY <1>2, <1>3 DEF Ordered

(* No message gets into a second place while nothing moves. *)
LEMMA OnePlaceStays ==
    ASSUME OnePlaceEach, channel' = channel, received' = received, dropped' = dropped
    PROVE  OnePlaceEach' /\ Got' = Got /\ Gone' = Gone
  <1>1. Got' = Got /\ Gone' = Gone
    BY DEF Got, Gone, Elems
  <1>2. Elems(channel') \cap Gone' = {} /\ dropped' \cap Got' = {}
    BY <1>1 DEF OnePlaceEach
  <1>3. Once(channel') /\ \A c \in Consumers : Once(received'[c])
    BY DEF OnePlaceEach
  <1>4. \A c, d \in Consumers :
          c # d => Elems(received'[c]) \cap Elems(received'[d]) = {}
    BY DEF OnePlaceEach
  <1> QED
    BY <1>1, <1>2, <1>3, <1>4 DEF OnePlaceEach, Once, Elems

(* A message that the channel has not accepted yet is in no other place    *)
(* when it is appended.                                                    *)
LEMMA AppendKeepsOnePlace ==
    ASSUME TypeOK, NothingElseLost, NEW e \in Message, e \notin Accepted,
           channel' = Append(channel, e), received' = received, dropped' = dropped
    PROVE  OnePlaceEach'
  <1>1. e \notin Elems(channel) /\ e \notin Gone
    BY DEF NothingElseLost
  <1>2. Once(channel) /\ channel \in Seq(Message)
    BY DEF NothingElseLost, OnePlaceEach, TypeOK
  <1>3. Once(channel') /\ Elems(channel') = Elems(channel) \union {e}
    BY <1>1, <1>2, OnceAppend, ElemsAppend
  <1>4. Got' = Got /\ Gone' = Gone
    BY DEF Got, Gone, Elems
  <1>5. Elems(channel') \cap Gone' = {} /\ dropped' \cap Got' = {}
    BY <1>1, <1>3, <1>4 DEF NothingElseLost, OnePlaceEach
  <1>6. \A c \in Consumers : Once(received'[c])
    BY DEF NothingElseLost, OnePlaceEach
  <1>7. \A c, d \in Consumers :
          c # d => Elems(received'[c]) \cap Elems(received'[d]) = {}
    BY DEF NothingElseLost, OnePlaceEach
  <1> QED
    BY <1>3, <1>5, <1>6, <1>7 DEF OnePlaceEach, Elems, Once

(* Putting a message back: it moves from the consumer that took it last to *)
(* the end of the channel, and is excepted from the order from then on.    *)
LEMMA ReturnInv ==
    ASSUME IInv, NEW c \in Returners, Return(c)
    PROVE  IInv'
  <1> DEFINE m == received[c][Len(received[c])]
             f == SubSeq(received[c], 1, Len(received[c]) - 1)
  <1>t. TypeOK /\ Sending /\ Ordered(channel) /\ OldestLeaveFirst
        /\ ReceivedInOrder /\ NothingElseLost
    BY DEF IInv
  <1>0. c \in Consumers /\ received[c] \in Seq(Message) /\ received[c] # << >>
    BY <1>t, ReturnersAssumption DEF TypeOK, Return
  <1>1. /\ channel' = Append(channel, m) /\ returned' = returned \union {m}
        /\ ended' = ended \union {c} /\ dropped' = dropped
        /\ pc' = pc /\ offered' = offered
        /\ received'[c] = f /\ \A d \in Consumers \ {c} : received'[d] = received[d]
        /\ received' \in [Consumers -> Seq(Message)]
    BY <1>0, <1>t, FrontLast DEF Return, TypeOK
  <1>2. /\ m \in Message /\ f \in Seq(Message)
        /\ Elems(received[c]) = Elems(f) \union {m} /\ Once(f) /\ m \notin Elems(f)
    BY <1>0, <1>t, FrontLast, ElemsFrontLast, OnceFront DEF NothingElseLost, OnePlaceEach
  <1>3. TypeOK' /\ Sending'
    <2>1. channel' \in Seq(Message) /\ Len(channel') = Len(channel) + 1
      BY <1>1, <1>2, <1>t, AppendOne DEF TypeOK
    <2>2. Len(channel') \in 0..Capacity
      BY <2>1, <1>t, CapacityAssumption DEF TypeOK, Return
    <2> QED
      BY <2>1, <2>2, <1>1, <1>2, <1>t DEF TypeOK, Sending
  <1>4. Got = Got' \union {m} /\ m \notin Got'
    <2>1. \A d \in Consumers \ {c} : m \notin Elems(received[d])
      BY <1>0, <1>2, <1>t DEF NothingElseLost, OnePlaceEach
    <2>2. Got' = UNION {Elems(received'[d]) : d \in Consumers}
      BY DEF Got, Elems
    <2>3. Got' = Elems(f) \union (UNION {Elems(received[d]) : d \in Consumers \ {c}})
      BY <2>2, <1>0, <1>1
    <2>4. Got = Elems(received[c]) \union (UNION {Elems(received[d]) : d \in Consumers \ {c}})
      BY <1>0 DEF Got
    <2> QED
      BY <2>1, <2>3, <2>4, <1>2
  <1>5. Gone = Gone' \union {m} /\ m \notin Gone'
    BY <1>1, <1>4, <1>t DEF Gone, NothingElseLost, OnePlaceEach
  <1>6. Elems(channel') = Elems(channel) \union {m} /\ m \notin Elems(channel)
    BY <1>1, <1>2, <1>4, <1>t, ElemsAppend DEF TypeOK, NothingElseLost, OnePlaceEach, Gone
  <1>7. Ordered(channel)' /\ OldestLeaveFirst'
    <2>1. /\ DOMAIN channel' = 1..(Len(channel) + 1)
          /\ \A i \in 1..Len(channel) : channel'[i] = channel[i]
          /\ channel'[Len(channel) + 1] = m
          /\ Len(channel) \in Nat /\ DOMAIN channel = 1..Len(channel)
      BY <1>1, <1>2, <1>t, AppendOne DEF TypeOK
    <2>2. \A i \in DOMAIN channel' : channel'[i] \notin returned' =>
            i \in DOMAIN channel /\ channel'[i] = channel[i] /\ channel[i] \notin returned
      BY <2>1, <1>1
    <2>3. ASSUME NEW i \in DOMAIN channel', NEW j \in DOMAIN channel', i < j,
                 channel'[i].from = channel'[j].from,
                 {channel'[i], channel'[j]} \cap returned' = {}
          PROVE  Older(channel'[i], channel'[j])
      BY <2>2, <2>3, <1>t DEF Ordered
    <2>4. ASSUME NEW k \in Gone', NEW i \in DOMAIN channel',
                 k.from = channel'[i].from, {k, channel'[i]} \cap returned' = {}
          PROVE  Older(k, channel'[i])
      BY <2>2, <2>4, <1>1, <1>5, <1>t DEF OldestLeaveFirst
    <2>5. Ordered(channel)'
      BY <2>3 DEF Ordered, Older
    <2>6. OldestLeaveFirst'
      BY <2>4 DEF OldestLeaveFirst, Older
    <2> QED
      BY <2>5, <2>6
  <1>8. ReceivedInOrder'
    <2>1. \A i \in DOMAIN f : i \in DOMAIN received[c] /\ f[i] = received[c][i]
      BY <1>0, FrontLast
    <2>2. \A d \in Consumers : \A i \in DOMAIN received'[d] :
            i \in DOMAIN received[d] /\ received'[d][i] = received[d][i]
      BY <2>1, <1>1
    <2>3. ASSUME NEW d \in Consumers, NEW i \in DOMAIN received'[d],
                 NEW j \in DOMAIN received'[d], i < j,
                 received'[d][i].from = received'[d][j].from,
                 {received'[d][i], received'[d][j]} \cap returned' = {}
          PROVE  Older(received'[d][i], received'[d][j])
      BY <2>2, <2>3, <1>1, <1>t DEF ReceivedInOrder, Ordered
    <2> QED
      BY <2>3 DEF ReceivedInOrder, Ordered, Older
  <1>9. NothingElseLost'
    <2>1. Accepted' = Accepted
      BY <1>1 DEF Accepted
    <2>2. Once(channel') /\ Elems(channel') \cap Gone' = {}
      BY <1>1, <1>2, <1>5, <1>6, <1>t, OnceAppend DEF TypeOK, NothingElseLost, OnePlaceEach
    <2>3. \A d \in Consumers : Once(received'[d])
      BY <1>1, <1>2, <1>t DEF NothingElseLost, OnePlaceEach
    <2>4. \A d \in Consumers : Elems(received'[d]) \subseteq Elems(received[d])
      BY <1>1, <1>2
    <2>5. \A d, e \in Consumers :
            d # e => Elems(received'[d]) \cap Elems(received'[e]) = {}
      BY <2>4, <1>t DEF NothingElseLost, OnePlaceEach
    <2>6. dropped' \cap Got' = {}
      BY <1>1, <1>4, <1>t DEF NothingElseLost, OnePlaceEach
    <2>7. OnePlaceEach'
      BY <2>2, <2>3, <2>5, <2>6 DEF OnePlaceEach, Once, Elems
    <2>8. Elems(channel') \union Gone' = Accepted'
      BY <2>1, <1>5, <1>6, <1>t DEF NothingElseLost
    <2> QED
      BY <2>7, <2>8 DEF NothingElseLost, Elems
  <1> QED
    BY <1>3, <1>7, <1>8, <1>9 DEF IInv

(* Every step keeps the invariant. *)
LEMMA StepInv == IInv /\ [Next]_vars => IInv'
  <1> SUFFICES ASSUME IInv, [Next]_vars PROVE IInv'
    OBVIOUS
  <1> USE CapacityAssumption, MaxOffersAssumption
  <1>t. TypeOK /\ Sending /\ Ordered(channel) /\ OldestLeaveFirst
        /\ ReceivedInOrder /\ NothingElseLost
    BY DEF IInv
  <1>1. ASSUME NEW p \in Producers, SelectSend(p) PROVE IInv'
    <2> DEFINE e == [from |-> p, n |-> offered[p] + 1]
    <2>1. e \in Message /\ offered[p] + 1 \in 0..MaxOffers
      BY <1>1, <1>t DEF SelectSend, Message, TypeOK
    <2>2. channel' = Append(channel, e) /\ Gone' = Gone
      BY <1>1 DEF SelectSend, Got, Gone, Elems
    <2>3. TypeOK' /\ Sending'
      BY <1>1, <1>t, <2>1, <2>2, AppendOne DEF SelectSend, TypeOK, Sending, returnVars
    <2>4. \A m \in Accepted : m.from = e.from => m.n < e.n
      BY <1>1, <1>t DEF SelectSend, Accepted, Message, TypeOK
    <2>5. Ordered(channel)' /\ OldestLeaveFirst' /\ ReceivedInOrder'
      <3>1. returned' = returned /\ received' = received
        BY <1>1 DEF SelectSend, returnVars
      <3>2. Ordered(channel)' /\ OldestLeaveFirst'
        BY <1>t, <2>1, <2>2, <2>4, <3>1, AppendKeepsOrder
      <3>3. ReceivedInOrder'
        BY <1>t, <3>1 DEF ReceivedInOrder, Ordered
      <3> QED
        BY <3>2, <3>3
    <2>8. OnePlaceEach'
      <3>1. e \notin Accepted
        BY <2>1, <2>4 DEF Message
      <3> QED
        BY <1>1, <1>t, <2>1, <2>2, <3>1, AppendKeepsOnePlace DEF SelectSend
    <2>6. Elems(channel') = Elems(channel) \union {e}
      BY <1>t, <2>1, <2>2, ElemsAppend DEF TypeOK
    <2>7. Accepted' = Accepted \union {e}
      BY <1>1, <1>t, <2>1 DEF SelectSend, Accepted, Message, TypeOK
    <2> QED
      BY <1>t, <2>2, <2>3, <2>5, <2>6, <2>7, <2>8 DEF IInv, NothingElseLost
  <1>2. ASSUME NEW p \in Producers, SelectDefault(p) PROVE IInv'
    <2>1. TypeOK' /\ Sending'
      BY <1>2, <1>t DEF SelectDefault, TypeOK, Sending, returnVars
    <2>2. Accepted' = Accepted
      BY <1>2, <1>t DEF SelectDefault, Accepted, Message, TypeOK
    <2>3. /\ channel' = channel /\ received' = received /\ dropped' = dropped
          /\ returned' = returned
      BY <1>2 DEF SelectDefault, returnVars
    <2>4. Ordered(channel)' /\ OldestLeaveFirst' /\ ReceivedInOrder'
      BY <1>t, <2>3 DEF ReceivedInOrder, OldestLeaveFirst, Ordered, Got, Gone, Elems
    <2>5. NothingElseLost'
      BY <1>t, <2>2, <2>3, OnePlaceStays DEF NothingElseLost, Elems
    <2> QED
      BY <2>1, <2>4, <2>5 DEF IInv
  <1>3. ASSUME NEW p \in Producers, DropHead(p) PROVE IInv'
    <2>1. Head(channel) \in Message /\ channel' \in Seq(Message)
          /\ Len(channel') \in 0..Capacity
      BY <1>3, <1>t, HeadTail DEF DropHead, TypeOK
    <2>2. TypeOK' /\ Sending'
      BY <1>3, <1>t, <2>1 DEF DropHead, TypeOK, Sending, returnVars
    <2>3. Gone' = Gone \union {Head(channel)}
      BY <1>3 DEF DropHead, Got, Gone, Elems
    <2>4. Ordered(channel)' /\ OldestLeaveFirst'
      BY <1>3, <1>t, <2>3, TailKeepsOrder DEF DropHead, returnVars
    <2>5. Elems(channel) = {Head(channel)} \union Elems(channel')
      BY <1>3, <1>t, ElemsHeadTail DEF DropHead, TypeOK
    <2>6. Accepted' = Accepted
      BY <1>3, <1>t DEF DropHead, Accepted, Message, TypeOK
    <2>7. ReceivedInOrder'
      BY <1>3, <1>t DEF DropHead, ReceivedInOrder, Ordered, returnVars
    <2>8. OnePlaceEach'
      <3>1. Once(channel') /\ Head(channel) \notin Elems(channel')
        BY <1>3, <1>t, OnceTail DEF DropHead, TypeOK, NothingElseLost, OnePlaceEach
      <3>2. Head(channel) \notin Gone /\ Elems(channel') \cap Gone = {}
        BY <1>t, <2>5 DEF NothingElseLost, OnePlaceEach
      <3>3. dropped' = dropped \union {Head(channel)} /\ received' = received
            /\ Got' = Got
        BY <1>3 DEF DropHead, Got, Elems
      <3>4. Elems(channel') \cap Gone' = {} /\ dropped' \cap Got' = {}
        BY <1>t, <2>3, <3>1, <3>2, <3>3 DEF NothingElseLost, OnePlaceEach, Gone
      <3> QED
        BY <1>t, <3>1, <3>3, <3>4 DEF NothingElseLost, OnePlaceEach, Once, Elems
    <2> QED
      BY <1>t, <2>2, <2>3, <2>4, <2>5, <2>6, <2>7, <2>8 DEF IInv, NothingElseLost
  <1>4. ASSUME NEW p \in Producers, Put(p) PROVE IInv'
    <2> DEFINE e == [from |-> p, n |-> offered[p]]
    <2>1. e \in Message
      BY <1>4, <1>t DEF Put, Message, TypeOK, Sending
    <2>2. channel' = Append(channel, e) /\ Gone' = Gone
      BY <1>4 DEF Put, Offer, Got, Gone, Elems
    <2>3. TypeOK' /\ Sending'
      BY <1>4, <1>t, <2>1, <2>2, AppendOne DEF Put, TypeOK, Sending, returnVars
    <2>4. \A m \in Accepted : m.from = e.from => m.n < e.n
      BY <1>4, <1>t DEF Put, Accepted, Message, TypeOK
    <2>5. Ordered(channel)' /\ OldestLeaveFirst' /\ ReceivedInOrder'
      <3>1. returned' = returned /\ received' = received
        BY <1>4 DEF Put, returnVars
      <3>2. Ordered(channel)' /\ OldestLeaveFirst'
        BY <1>t, <2>1, <2>2, <2>4, <3>1, AppendKeepsOrder
      <3>3. ReceivedInOrder'
        BY <1>t, <3>1 DEF ReceivedInOrder, Ordered
      <3> QED
        BY <3>2, <3>3
    <2>8. OnePlaceEach'
      <3>1. e \notin Accepted
        BY <2>1, <2>4 DEF Message
      <3> QED
        BY <1>4, <1>t, <2>1, <2>2, <3>1, AppendKeepsOnePlace DEF Put
    <2>6. Elems(channel') = Elems(channel) \union {e}
      BY <1>t, <2>1, <2>2, ElemsAppend DEF TypeOK
    <2>7. Accepted' = Accepted \union {e}
      BY <1>4, <1>t, <2>1 DEF Put, Accepted, Message, TypeOK
    <2> QED
      BY <1>t, <2>2, <2>3, <2>5, <2>6, <2>7, <2>8 DEF IInv, NothingElseLost
  <1>5. ASSUME NEW c \in Consumers, Receive(c) PROVE IInv'
    <2> DEFINE h == Head(channel)
    <2>1. h \in Message /\ channel' \in Seq(Message) /\ Len(channel') \in 0..Capacity
          /\ 1 \in DOMAIN channel /\ h = channel[1]
      BY <1>5, <1>t, HeadTail DEF Receive, TypeOK
    <2>2. /\ received[c] \in Seq(Message) /\ received'[c] = Append(received[c], h)
          /\ received'[c] \in Seq(Message)
          /\ \A d \in Consumers \ {c} : received'[d] = received[d]
      BY <1>5, <1>t, <2>1, AppendOne DEF Receive, TypeOK
    <2>3. TypeOK' /\ Sending'
      BY <1>5, <1>t, <2>1, <2>2 DEF Receive, TypeOK, Sending, returnVars
    <2>4. Gone' = Gone \union {h}
      <3>1. Elems(received'[c]) = Elems(received[c]) \union {h}
        BY <2>1, <2>2, ElemsAppend
      <3>2. Got' = Got \union {h}
        <4>1. UNION {Elems(received'[d]) : d \in Consumers}
                = (UNION {Elems(received[d]) : d \in Consumers}) \union {h}
          BY <3>1, <2>2
        <4> QED
          BY <4>1 DEF Got, Elems
      <3> QED
        BY <3>2, <1>5 DEF Receive, Gone
    <2>5. Ordered(channel)' /\ OldestLeaveFirst'
      BY <1>5, <1>t, <2>4, TailKeepsOrder DEF Receive, returnVars
    <2>6. Elems(channel) = {h} \union Elems(channel')
      BY <1>5, <1>t, ElemsHeadTail DEF Receive, TypeOK
    <2>7. Accepted' = Accepted
      BY <1>5, <1>t DEF Receive, Accepted, Message, TypeOK
    <2>8. Ordered(received'[c])
      <3>1. /\ DOMAIN received'[c] = 1..(Len(received[c]) + 1)
            /\ \A i \in 1..Len(received[c]) : received'[c][i] = received[c][i]
            /\ received'[c][Len(received[c]) + 1] = h
            /\ Len(received[c]) \in Nat /\ DOMAIN received[c] = 1..Len(received[c])
        BY <2>1, <2>2, AppendOne
      <3>2. \A i \in DOMAIN received[c] :
              received[c][i].from = h.from /\ {received[c][i], h} \cap returned = {}
                => Older(received[c][i], h)
        BY <1>t, <2>1 DEF OldestLeaveFirst, Got, Gone, Elems
      <3>3. Ordered(received[c])
        BY <1>t DEF ReceivedInOrder
      <3> SUFFICES ASSUME NEW i \in DOMAIN received'[c], NEW j \in DOMAIN received'[c],
                          i < j, received'[c][i].from = received'[c][j].from,
                          {received'[c][i], received'[c][j]} \cap returned = {}
                   PROVE  Older(received'[c][i], received'[c][j])
        BY DEF Ordered
      <3>4. CASE j = Len(received[c]) + 1
        BY <3>4, <3>1, <3>2
      <3>5. CASE j # Len(received[c]) + 1
        <4>1. i \in 1..Len(received[c]) /\ j \in 1..Len(received[c])
          BY <3>5, <3>1
        <4> QED
          BY <4>1, <3>1, <3>3 DEF Ordered
      <3> QED
        BY <3>4, <3>5
    <2>9. ReceivedInOrder'
      <3>1. returned' = returned
        BY <1>5 DEF Receive, returnVars
      <3>2. \A d \in Consumers : Ordered(received'[d])
        BY <1>t, <2>2, <2>8 DEF ReceivedInOrder
      <3> QED
        BY <3>1, <3>2 DEF ReceivedInOrder, Ordered
    <2>10. OnePlaceEach'
      <3>1. Once(channel') /\ h \notin Elems(channel')
        BY <1>5, <1>t, OnceTail DEF Receive, TypeOK, NothingElseLost, OnePlaceEach
      <3>2. h \notin Gone /\ Elems(channel') \cap Gone = {} /\ h \notin dropped
        BY <1>t, <2>6 DEF NothingElseLost, OnePlaceEach, Gone
      <3>3. \A d \in Consumers : h \notin Elems(received[d])
        BY <3>2 DEF Gone, Got
      <3>4. Once(received'[c]) /\ Elems(received'[c]) = Elems(received[c]) \union {h}
        BY <1>t, <2>1, <2>2, <3>3, OnceAppend, ElemsAppend
           DEF NothingElseLost, OnePlaceEach
      <3>5. \A d \in Consumers \ {c} : Elems(received'[d]) = Elems(received[d])
        BY <2>2
      <3>6. \A d \in Consumers : Once(received'[d])
        BY <1>t, <2>2, <3>4 DEF NothingElseLost, OnePlaceEach
      <3>7. \A d, f \in Consumers :
              d # f => Elems(received'[d]) \cap Elems(received'[f]) = {}
        BY <1>t, <3>3, <3>4, <3>5 DEF NothingElseLost, OnePlaceEach
      <3>8. Elems(channel') \cap Gone' = {}
        BY <2>4, <3>1, <3>2
      <3>9. dropped' \cap Got' = {}
        <4>1. Got' \subseteq Got \union {h} /\ dropped' = dropped
          BY <1>5, <3>4, <3>5 DEF Got, Receive, Elems
        <4> QED
          BY <1>t, <3>2, <4>1 DEF NothingElseLost, OnePlaceEach
      <3> QED
        BY <3>1, <3>6, <3>7, <3>8, <3>9 DEF OnePlaceEach, Once, Elems
    <2> QED
      BY <1>t, <2>3, <2>4, <2>5, <2>6, <2>7, <2>9, <2>10 DEF IInv, NothingElseLost
  <1>7. ASSUME NEW c \in Returners, Return(c) PROVE IInv'
    BY <1>7, ReturnInv
  <1>6. CASE UNCHANGED vars
    <2>1. TypeOK' /\ Sending'
      BY <1>6, <1>t DEF vars, returnVars, TypeOK, Sending
    <2>2. Ordered(channel)' /\ OldestLeaveFirst' /\ ReceivedInOrder'
      BY <1>6, <1>t DEF vars, returnVars, Ordered, OldestLeaveFirst, ReceivedInOrder,
         Got, Gone, Elems
    <2>3. NothingElseLost'
      <3>1. channel' = channel /\ received' = received /\ dropped' = dropped
            /\ Accepted' = Accepted
        BY <1>6 DEF vars, Accepted
      <3> QED
        BY <1>t, <3>1, OnePlaceStays DEF NothingElseLost, Elems
    <2> QED
      BY <2>1, <2>2, <2>3 DEF IInv
  <1> QED
    BY <1>1, <1>2, <1>3, <1>4, <1>5, <1>6, <1>7 DEF Next, Send

(* The type invariant: the channel never holds more than its capacity.     *)
THEOREM TypeCorrect == Spec => []TypeOK
  <1>1. IInv => TypeOK
    BY DEF IInv
  <1> QED
    BY InitInv, StepInv, <1>1, PTL DEF Spec

(* Through the three-step send of any number of producers, every consumer  *)
(* gets each producer's messages in order, those put back excepted.        *)
THEOREM ReceivingInOrder == Spec => []ReceivedInOrder
  <1>1. IInv => ReceivedInOrder
    BY DEF IInv
  <1> QED
    BY InitInv, StepInv, <1>1, PTL DEF Spec

(* What leaves the channel is older than what stays: an overflow drops the *)
(* oldest message whatever ran between the full channel and the drop.      *)
THEOREM DroppingOldest == Spec => []OldestLeaveFirst
  <1>1. IInv => OldestLeaveFirst
    BY DEF IInv
  <1> QED
    BY InitInv, StepInv, <1>1, PTL DEF Spec

(* Every message the channel accepted is in it, received or dropped, and   *)
(* only one of these, whatever is put back.                                *)
THEOREM LosingNothingElse == Spec => []NothingElseLost
  <1>1. IInv => NothingElseLost
    BY DEF IInv
  <1> QED
    BY InitInv, StepInv, <1>1, PTL DEF Spec

-------------------------------------------------------------------------------

(* The cardinality of the waiting producers, as one joins or leaves them.  *)
LEMMA WaitingCardinality ==
    /\ IsFiniteSet(Waiting) /\ Cardinality(Waiting) \in Nat
    /\ Cardinality(Producers) \in Nat
    /\ Cardinality(Waiting) <= Cardinality(Producers)
    /\ \A p \in Producers \ Waiting :
         /\ Cardinality(Waiting \union {p}) = Cardinality(Waiting) + 1
         /\ Cardinality(Waiting) < Cardinality(Producers)
    /\ \A p \in Waiting : Cardinality(Waiting \ {p}) = Cardinality(Waiting) - 1
  <1>1. IsFiniteSet(Waiting) /\ Cardinality(Waiting) \in Nat
        /\ Cardinality(Producers) \in Nat
        /\ Cardinality(Waiting) <= Cardinality(Producers)
    BY ProducersAssumption, FS_Subset, FS_CardinalityType DEF Waiting
  <1>2. ASSUME NEW p \in Producers \ Waiting
        PROVE  /\ Cardinality(Waiting \union {p}) = Cardinality(Waiting) + 1
               /\ Cardinality(Waiting) < Cardinality(Producers)
    <2>1. Cardinality(Waiting \union {p}) = Cardinality(Waiting) + 1
      BY <1>1, FS_AddElement
    <2>2. Cardinality(Waiting \union {p}) <= Cardinality(Producers)
      <3>1. Waiting \union {p} \subseteq Producers
        BY DEF Waiting
      <3> QED
        BY <3>1, ProducersAssumption, FS_Subset
    <2> QED
      BY <2>1, <2>2, <1>1
  <1>3. ASSUME NEW p \in Waiting
        PROVE  Cardinality(Waiting \ {p}) = Cardinality(Waiting) - 1
    BY <1>1, FS_RemoveElement
  <1> QED
    BY <1>1, <1>2, <1>3

(* Every step keeps the budget of places. *)
LEMMA StepRoom == IInv /\ RoomBudget /\ [Next]_vars => RoomBudget'
  <1> SUFFICES ASSUME TypeOK, RoomBudget, [Next]_vars, Producers # {}, ended' = {}
               PROVE  Len(channel') + Cardinality(Waiting') < Capacity + Cardinality(Producers)
    BY DEF IInv, RoomBudget
  <1> USE CapacityAssumption
  <1>e. ended = {}
    BY DEF Next, Send, SelectSend, SelectDefault, DropHead, Put, Receive, Return,
       vars, returnVars
  <1>t. /\ Len(channel) \in 0..Capacity
        /\ Len(channel) + Cardinality(Waiting) < Capacity + Cardinality(Producers)
    BY <1>e DEF TypeOK, RoomBudget
  <1>1. ASSUME NEW p \in Producers, SelectSend(p)
        PROVE  Len(channel') + Cardinality(Waiting') < Capacity + Cardinality(Producers)
    <2>1. Waiting' = Waiting /\ p \in Producers \ Waiting
      BY <1>1 DEF SelectSend, Waiting
    <2>2. Len(channel') = Len(channel) + 1 /\ Len(channel) < Capacity
      BY <1>1 DEF SelectSend, TypeOK
    <2>3. /\ Cardinality(Waiting) < Cardinality(Producers)
          /\ Cardinality(Waiting) \in Nat /\ Cardinality(Producers) \in Nat
      BY <2>1, WaitingCardinality
    <2>4. Cardinality(Waiting') = Cardinality(Waiting)
      BY <2>1
    <2> QED
      BY <1>t, <2>2, <2>3, <2>4
  <1>2. ASSUME NEW p \in Producers, SelectDefault(p)
        PROVE  Len(channel') + Cardinality(Waiting') < Capacity + Cardinality(Producers)
    <2>1. Waiting' = Waiting /\ channel' = channel
      BY <1>2 DEF SelectDefault, Waiting, TypeOK
    <2> QED
      BY <1>t, <2>1
  <1>3. ASSUME NEW p \in Producers, DropHead(p)
        PROVE  Len(channel') + Cardinality(Waiting') < Capacity + Cardinality(Producers)
    <2>1. Waiting' = Waiting \union {p} /\ p \in Producers \ Waiting
      BY <1>3 DEF DropHead, Waiting, TypeOK
    <2>2. Len(channel') = Len(channel) - 1
      BY <1>3, HeadTail DEF DropHead, TypeOK
    <2> QED
      BY <1>t, <2>1, <2>2, WaitingCardinality
  <1>4. ASSUME NEW p \in Producers, Put(p)
        PROVE  Len(channel') + Cardinality(Waiting') < Capacity + Cardinality(Producers)
    <2>1. Waiting' = Waiting \ {p} /\ p \in Waiting
      BY <1>4 DEF Put, Waiting, TypeOK
    <2>2. Len(channel') = Len(channel) + 1
      BY <1>4 DEF Put, TypeOK
    <2> QED
      BY <1>t, <2>1, <2>2, WaitingCardinality
  <1>5. ASSUME NEW c \in Consumers, Receive(c)
        PROVE  Len(channel') + Cardinality(Waiting') < Capacity + Cardinality(Producers)
    <2>1. Waiting' = Waiting
      BY <1>5 DEF Receive, Waiting
    <2>2. Len(channel') = Len(channel) - 1
      BY <1>5, HeadTail DEF Receive, TypeOK
    <2> QED
      BY <1>t, <2>1, <2>2, WaitingCardinality
  <1>6. CASE UNCHANGED vars
    BY <1>6, <1>t DEF vars, Waiting
  <1>7. ASSUME NEW c \in Returners, Return(c) PROVE FALSE
    BY <1>7 DEF Return
  <1> QED
    BY <1>1, <1>2, <1>3, <1>4, <1>5, <1>6, <1>7 DEF Next, Send

(* The producers never all wait for room in a channel to which nothing has *)
(* been put back.                                                          *)
THEOREM SomeoneHavingRoom == Spec => []SomeoneHasRoom
  <1>1. Init => RoomBudget
    <2> SUFFICES ASSUME Init, Producers # {}
                 PROVE  Len(channel) + Cardinality(Waiting) < Capacity + Cardinality(Producers)
      BY DEF RoomBudget
    <2>1. Len(channel) = 0 /\ Waiting = {}
      BY DEF Init, Waiting
    <2>2. Cardinality(Waiting) = 0
      BY <2>1, FS_EmptySet
    <2>3. Cardinality(Producers) \in Nat \ {0}
      BY ProducersAssumption, FS_EmptySet, FS_CardinalityType
    <2> QED
      BY <2>1, <2>2, <2>3, CapacityAssumption
  <1>2. IInv /\ RoomBudget => SomeoneHasRoom
    <2> SUFFICES ASSUME TypeOK, RoomBudget, Producers # {}, ended = {},
                        \A p \in Producers : pc[p] = "put"
                 PROVE  Len(channel) < Capacity
      BY DEF IInv, SomeoneHasRoom
    <2>1. Waiting = Producers
      BY DEF Waiting
    <2> QED
      BY <2>1, CapacityAssumption, WaitingCardinality DEF RoomBudget, TypeOK
  <1> QED
    BY InitInv, StepInv, StepRoom, <1>1, <1>2, PTL DEF Spec
===============================================================================
