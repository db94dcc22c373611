------------------------------ MODULE DropOldest ------------------------------
(***************************************************************************)
(* One of the two channels that join the peer side and the Marlin side     *)
(* (marlinTo and marlinFrom, made by cmd/dataconnect.go and                *)
(* cmd/spamfilter.go), with the goroutines that use it.  A Go channel of   *)
(* capacity Capacity is a bounded FIFO queue.  A producer that finds the   *)
(* channel full throws the oldest message away to make room:               *)
(*                                                                         *)
(*     select {                                                            *)
(*     case h.marlinFrom <- message:                                       *)
(*     default:                                                            *)
(*         _ = <-h.marlinFrom                                              *)
(*         h.marlinFrom <- message                                         *)
(*     }                                                                   *)
(*                                                                         *)
(* These are three channel operations, and other goroutines run between    *)
(* them.  The select never waits; the receive waits while the channel is   *)
(* empty, the second send while it is full.  A consumer is a goroutine     *)
(* that ranges over the channel.                                           *)
(*                                                                         *)
(* marlinTo has consumers that also send: a sending routine of the Marlin  *)
(* side that finds its shutdown token with a message in its hand puts that *)
(* message back at the end of the channel and ends (marlin.go:180-184).    *)
(* These are the Returners; marlinFrom has none.                           *)
(*                                                                         *)
(* MaxOffers bounds the messages each producer has to send.                *)
(***************************************************************************)
EXTENDS Integers, Sequences, FiniteSets

CONSTANTS Producers, Consumers, Returners, Capacity, MaxOffers

ASSUME ProducersAssumption == IsFiniteSet(Producers)
ASSUME ReturnersAssumption == Returners \subseteq Consumers
ASSUME CapacityAssumption == Capacity \in Nat \ {0}
ASSUME MaxOffersAssumption == MaxOffers \in Nat

VARIABLES
    channel,   \* the messages in the channel, oldest first
    pc,        \* where each producer is: "select", "drop" or "put"
    offered,   \* how many messages each producer has started to send
    received,  \* what each consumer has received, in order
    dropped,   \* the messages thrown away to make room
    returned,  \* the messages that a consumer has put back
    ended      \* the consumers that have put one back, and ended

returnVars == <<returned, ended>>
vars == <<channel, pc, offered, received, dropped, returnVars>>

(* A message: the goroutine that made it and its number among that one's. *)
Message == [from : Producers, n : 1..MaxOffers]

(* The message that producer p is sending, or has sent last. *)
Offer(p) == [from |-> p, n |-> offered[p]]

Init ==
    /\ channel = << >>
    /\ pc = [p \in Producers |-> "select"]
    /\ offered = [p \in Producers |-> 0]
    /\ received = [c \in Consumers |-> << >>]
    /\ dropped = {}
    /\ returned = {} /\ ended = {}

-------------------------------------------------------------------------------

(* Mutant of SelectSend: off by one about the room in the channel. *)
SelectSendOver(p) ==
    /\ pc[p] = "select"
    /\ offered[p] < MaxOffers
    /\ Len(channel) <= Capacity
    /\ offered' = [offered EXCEPT ![p] = @ + 1]
    /\ channel' = Append(channel, [from |-> p, n |-> offered[p] + 1])
    /\ UNCHANGED <<pc, received, dropped, returnVars>>

(* The select finds room: the message is in the channel at once. *)
SelectSend(p) ==
    /\ pc[p] = "select"
    /\ offered[p] < MaxOffers
    /\ Len(channel) < Capacity
    /\ offered' = [offered EXCEPT ![p] = @ + 1]
    /\ channel' = Append(channel, [from |-> p, n |-> offered[p] + 1])
    /\ UNCHANGED <<pc, received, dropped, returnVars>>

(* Mutants of SelectDefault: the new message is given up, or sent without  *)
(* a receive first.                                                        *)
SelectGivesUp(p) ==
    /\ pc[p] = "select"
    /\ offered[p] < MaxOffers
    /\ Len(channel) = Capacity
    /\ offered' = [offered EXCEPT ![p] = @ + 1]
    /\ UNCHANGED <<channel, pc, received, dropped, returnVars>>

SelectJustWaits(p) ==
    /\ pc[p] = "select"
    /\ offered[p] < MaxOffers
    /\ Len(channel) = Capacity
    /\ offered' = [offered EXCEPT ![p] = @ + 1]
    /\ pc' = [pc EXCEPT ![p] = "put"]
    /\ UNCHANGED <<channel, received, dropped, returnVars>>

(* The select finds the channel full and takes its default branch. *)
SelectDefault(p) ==
    /\ pc[p] = "select"
    /\ offered[p] < MaxOffers
    /\ Len(channel) = Capacity
    /\ offered' = [offered EXCEPT ![p] = @ + 1]
    /\ pc' = [pc EXCEPT ![p] = "drop"]
    /\ UNCHANGED <<channel, received, dropped, returnVars>>

(* Mutants of DropHead: the oldest message goes to the end, or the newest  *)
(* is thrown away.                                                         *)
RotateHead(p) ==
    /\ pc[p] = "drop"
    /\ channel # << >>
    /\ channel' = Append(Tail(channel), Head(channel))
    /\ pc' = [pc EXCEPT ![p] = "put"]
    /\ UNCHANGED <<offered, received, dropped, returnVars>>

DropLast(p) ==
    /\ pc[p] = "drop"
    /\ channel # << >>
    /\ dropped' = dropped \union {channel[Len(channel)]}
    /\ channel' = SubSeq(channel, 1, Len(channel) - 1)
    /\ pc' = [pc EXCEPT ![p] = "put"]
    /\ UNCHANGED <<offered, received, returnVars>>

(* _ = <-channel: waits while the channel is empty, then loses its head,   *)
(* whether or not the channel is still full.                               *)
DropHead(p) ==
    /\ pc[p] = "drop"
    /\ channel # << >>
    /\ dropped' = dropped \union {Head(channel)}
    /\ channel' = Tail(channel)
    /\ pc' = [pc EXCEPT ![p] = "put"]
    /\ UNCHANGED <<offered, received, returnVars>>

(* channel <- message: waits while the channel is full. *)
Put(p) ==
    /\ pc[p] = "put"
    /\ Len(channel) < Capacity
    /\ channel' = Append(channel, Offer(p))
    /\ pc' = [pc EXCEPT ![p] = "select"]
    /\ UNCHANGED <<offered, received, dropped, returnVars>>

(* A consumer takes the oldest message. *)
Receive(c) ==
    /\ c \notin ended
    /\ channel # << >>
    /\ received' = [received EXCEPT ![c] = Append(@, Head(channel))]
    /\ channel' = Tail(channel)
    /\ UNCHANGED <<pc, offered, dropped, returnVars>>

(* channel <- msg; return: the consumer puts back the message it took last *)
(* and is done with.  Its send waits while the channel is full.            *)
Return(c) ==
    /\ c \notin ended
    /\ received[c] # << >>
    /\ Len(channel) < Capacity
    /\ LET m == received[c][Len(received[c])] IN
         /\ channel' = Append(channel, m)
         /\ returned' = returned \union {m}
    /\ received' = [received EXCEPT ![c] = SubSeq(@, 1, Len(@) - 1)]
    /\ ended' = ended \union {c}
    /\ UNCHANGED <<pc, offered, dropped>>

Send(p) == SelectSend(p) \/ SelectDefault(p) \/ DropHead(p) \/ Put(p)

Next ==
    \/ \E p \in Producers : Send(p)
    \/ \E c \in Consumers : Receive(c)
    \/ \E c \in Returners : Return(c)

Spec == Init /\ [][Next]_vars

(* The Go scheduler runs every goroutine that can take its next step. *)
Fairness ==
    /\ \A p \in Producers : WF_vars(DropHead(p)) /\ WF_vars(Put(p))
    /\ \A c \in Consumers : WF_vars(Receive(c))

FairSpec == Spec /\ Fairness

-------------------------------------------------------------------------------

(* The channel never holds more than its capacity, and every goroutine and *)
(* record has a value of its type.                                         *)
TypeOK ==
    /\ channel \in Seq(Message)
    /\ Len(channel) \in 0..Capacity
    /\ pc \in [Producers -> {"select", "drop", "put"}]
    /\ offered \in [Producers -> 0..MaxOffers]
    /\ received \in [Consumers -> Seq(Message)]
    /\ dropped \subseteq Message
    /\ returned \subseteq Message
    /\ ended \subseteq Returners

(* The messages that the channel has accepted: all that were offered but   *)
(* the one that a producer beyond its select is still sending.             *)
Accepted ==
    {m \in Message : IF pc[m.from] = "select" THEN m.n <= offered[m.from]
                                              ELSE m.n < offered[m.from]}

(* The elements of a sequence. *)
Elems(s) == {s[i] : i \in DOMAIN s}

(* What the consumers have, and what has left the channel, through a       *)
(* consumer or thrown away.                                                *)
Got == UNION {Elems(received[c]) : c \in Consumers}
Gone == dropped \union Got

(* Message a was sent before message b by the same producer. *)
Older(a, b) == a.from = b.from /\ a.n < b.n

(* A sequence has no two messages of one producer out of order, but for    *)
(* those that were put back.                                               *)
Ordered(s) ==
    \A i, j \in DOMAIN s :
        i < j /\ s[i].from = s[j].from /\ {s[i], s[j]} \cap returned = {}
            => Older(s[i], s[j])

(* Every consumer gets each producer's messages in the order they were     *)
(* sent, although a producer that meets a full channel sends in three      *)
(* steps that the others overtake.  Only a message that a consumer put     *)
(* back may come after younger ones.                                       *)
ReceivedInOrder == \A c \in Consumers : Ordered(received[c])

(* "oldest messages are dropped" (README): whatever has left the channel,  *)
(* by the consumers or thrown away, is older than whatever its producer    *)
(* still has in it, so no drop takes a message and spares an older one;    *)
(* but for the messages put back, which are old at the young end.          *)
OldestLeaveFirst ==
    \A m \in Gone, i \in DOMAIN channel :
        m.from = channel[i].from /\ {m, channel[i]} \cap returned = {}
            => Older(m, channel[i])

(* No message is twice in a sequence. *)
Once(s) == \A i, j \in DOMAIN s : s[i] = s[j] => i = j

(* No message is in two places. *)
OnePlaceEach ==
    /\ Once(channel) /\ Elems(channel) \cap Gone = {}
    /\ \A c \in Consumers : Once(received[c])
    /\ \A c, d \in Consumers : c # d => Elems(received[c]) \cap Elems(received[d]) = {}
    /\ dropped \cap Got = {}

(* A message that the channel accepted is in it, was received or was       *)
(* dropped, and only one of these: the three-step send loses nothing else, *)
(* a message put back is not received twice, and nothing is received that  *)
(* no producer sent.                                                       *)
NothingElseLost ==
    /\ Elems(channel) \union Gone = Accepted
    /\ OnePlaceEach

(* A producer beyond its select has a message to send. *)
Sending == \A p \in Producers : pc[p] # "select" => offered[p] > 0

(* The inductive invariant behind the properties about messages: the       *)
(* messages of one producer are in order in the channel too.               *)
IInv ==
    /\ TypeOK
    /\ Sending
    /\ Ordered(channel)
    /\ OldestLeaveFirst
    /\ ReceivedInOrder
    /\ NothingElseLost

(* The producers never all wait for room: each of them took a message out  *)
(* before its blocking send, and only a producer that is not waiting can   *)
(* have filled that place, so a consumer that has stopped cannot make them *)
(* all wait at the blocking send.  A consumer that puts a message back can *)
(* fill it too: the promise ends with the first that did.                  *)
SomeoneHasRoom ==
    Producers # {} /\ ended = {} /\ (\A p \in Producers : pc[p] = "put")
        => Len(channel) < Capacity

(* The producers that wait at, or are about to do, the blocking send. *)
Waiting == {p \in Producers : pc[p] = "put"}

(* Why SomeoneHasRoom holds: one message and one waiting producer more     *)
(* would need a place that no drop has made.                               *)
RoomBudget ==
    Producers # {} /\ ended = {} =>
        Len(channel) + Cardinality(Waiting) < Capacity + Cardinality(Producers)

(* README: when the channel overflows the oldest message is dropped; that  *)
(* is, a producer that found it full gets its own message in.  The code    *)
(* does not ensure it: a consumer that empties the channel between the     *)
(* select and the receive leaves the producer waiting to drop a message.   *)
OverflowingSendCompletes ==
    \A p \in Producers : pc[p] = "drop" ~> pc[p] = "select"
===============================================================================
