---------------------------- MODULE ChannelBuffer ----------------------------
(***************************************************************************)
(* How recvRoutine (chains/cosmos) puts the packets of the Tendermint node *)
(* together, and what becomes of the messages it sends on.                 *)
(*                                                                         *)
(* The node interleaves the packets of its channels.  channelBuffer holds, *)
(* per channel, a slice of the packets of an unfinished message; the last  *)
(* packet makes recvRoutine decode and service it, and the slice is cut    *)
(* back to length 0, keeping its array.  A message that is sent on carries *)
(* that slice, not a copy: the packets that come next on the channel are   *)
(* written into the same array while the message waits in a Go channel, or *)
(* while a routine copies it packet by packet.  A proposal is copied into  *)
(* an array of its own, and bundled with each block part (0x90).           *)
(*                                                                         *)
(* Votes and bundles go to marlinTo, which sendRoutineConnection empties;  *)
(* NewRoundStep messages go to marlinFrom, which sendRoutine empties.      *)
(*                                                                         *)
(* Bounds: MaxMsgs messages of the node, of at most MaxPackets packets;    *)
(* the height is told apart of proposals and parts only.                   *)
(***************************************************************************)
EXTENDS Integers, Sequences

CONSTANTS Channels, Heights, Capacity, MaxMsgs, MaxPackets

ASSUME CapacityAssumption == Capacity \in Nat \ {0}
ASSUME BoundsAssumption == MaxMsgs \in Nat /\ MaxPackets \in Nat \ {0}
ASSUME ChannelsAssumption == Channels \subseteq {"CsVo", "CsDc", "CsSt"}

VARIABLES
    sent,     \* the messages whose first packet has come, in that order
    arriving, \* per channel: the last of them, and how many packets came
    memory,   \* the arrays that the slices lie in
    buffer,   \* h.channelBuffer
    cached,   \* h.cahcedDcProposal and h.cachedDcProposalPacket
    recvPc,   \* where recvRoutine is
    inHand,   \* the message it is sending on
    queue,    \* the channels marlinTo and marlinFrom
    copier,   \* what the routine at the other end of each is doing
    written   \* what it has written to its connection

vars == <<sent, arriving, memory, buffer, cached, recvPc, inHand, queue, copier, written>>

Queues == {"marlinTo", "marlinFrom"}
Kinds(ch) == CASE ch = "CsVo" -> {"vote", "other"}
               [] ch = "CsDc" -> {"proposal", "part", "other"}
               [] ch = "CsSt" -> {"nrs", "other"}

(* Slices and the arrays beneath them: append writes into the array while  *)
(* it has room, and else copies to one of twice the size (packets of 32    *)
(* bytes fill the allocator's size classes exactly).                       *)
NoPacket == [msg |-> 0, i |-> 0]
NilSlice == [array |-> 0, len |-> 0]
Slice(a, n) == [array |-> a, len |-> n]
CapOf(mem, s) == IF s.array = 0 THEN 0 ELSE Len(mem[s.array])
Contents(s) == [i \in 1..s.len |-> memory[s.array][i]]
HasRoom(mem, s) == s.len < CapOf(mem, s)

AppendMemory(mem, s, p) ==
    IF HasRoom(mem, s)
    THEN [mem EXCEPT ![s.array][s.len + 1] = p]
    ELSE Append(mem, [i \in 1..(IF s.len = 0 THEN 1 ELSE 2 * s.len) |->
           CASE i <= s.len -> mem[s.array][i] [] i = s.len + 1 -> p [] OTHER -> NoPacket])
AppendSlice(mem, s) ==
    Slice(IF HasRoom(mem, s) THEN s.array ELSE Len(mem) + 1, s.len + 1)

Reset(s) == Slice(s.array, 0)

Packet(m, i) == [msg |-> m, i |-> i]
PacketsOf(m) == [i \in 1..sent[m].size |-> Packet(m, i)]

(* A MarlinMessage; "from" is the message of the node it was made of.      *)
NoMessage == [channel |-> "none", from |-> 0, packets |-> NilSlice, packets2 |-> NilSlice]
Idle == [message |-> NoMessage, checked |-> FALSE, copied |-> << >>]
NoProposal == [msg |-> 0, packets |-> NilSlice]

Init ==
    /\ sent = << >>
    /\ arriving = [ch \in Channels |-> [msg |-> 0, came |-> 0]]
    /\ memory = << >>
    /\ buffer = [ch \in Channels |-> NilSlice]
    /\ cached = NoProposal
    /\ recvPc = "read" /\ inHand = NoMessage
    /\ queue = [q \in Queues |-> << >>]
    /\ copier = [q \in Queues |-> Idle]
    /\ written = [q \in Queues |-> << >>]

-------------------------------------------------------------------------------
(* The node, and the reading of recvRoutine *)

(* A message of which packets are still to come. *)
Unfinished(ch) == arriving[ch].msg # 0 /\ arriving[ch].came < sent[arriving[ch].msg].size

(* The packet is appended to its channel's buffer; the last one of a       *)
(* message has recvRoutine service the channel.                            *)
AppendPacket(ch, m, i, size) ==
    /\ memory' = AppendMemory(memory, buffer[ch], Packet(m, i))
    /\ buffer' = [buffer EXCEPT ![ch] = AppendSlice(memory, @)]
    /\ arriving' = [arriving EXCEPT ![ch] = [msg |-> m, came |-> i]]
    /\ recvPc' = IF i = size THEN ch ELSE "read"
    /\ UNCHANGED <<cached, inHand, queue, copier, written>>

(* The first packet of a message, on a channel whose last one is complete. *)
RecvFirst(ch) ==
    /\ recvPc = "read" /\ ~Unfinished(ch) /\ Len(sent) < MaxMsgs
    /\ \E k \in Kinds(ch), h \in Heights, n \in 1..MaxPackets :
         /\ k \notin {"proposal", "part"} => \A g \in Heights : h <= g
         /\ sent' = Append(sent, [channel |-> ch, kind |-> k, height |-> h, size |-> n])
         /\ AppendPacket(ch, Len(sent) + 1, 1, n)

(* The next packet of the message. *)
RecvNext(ch) ==
    /\ recvPc = "read" /\ Unfinished(ch)
    /\ LET a == arriving[ch] IN AppendPacket(ch, a.msg, a.came + 1, sent[a.msg].size)
    /\ UNCHANGED sent

(* What decodeMsg makes of the buffer: the node's message if it holds just *)
(* that, and an error if it holds anything else.                           *)
Serviced(ch) == Contents(buffer[ch])
Decodes(ch) == Serviced(ch) # << >> /\ Serviced(ch) = PacketsOf(Serviced(ch)[1].msg)
Decoded(ch) == IF Decodes(ch) THEN sent[Serviced(ch)[1].msg]
               ELSE [channel |-> ch, kind |-> "undecodable", height |-> 0, size |-> 0]

MatchesProposal(part) == cached.msg # 0 /\ sent[cached.msg].height = part.height

(* Mutant of ServiceIgnored: the buffer is not cut back after a message    *)
(* that is not sent on.                                                    *)
ServiceIgnoredNoReset(ch) ==
    /\ recvPc = ch
    /\ \/ Decoded(ch).kind \in {"other", "undecodable"}
       \/ Decoded(ch).kind = "part" /\ ~MatchesProposal(Decoded(ch))
    /\ recvPc' = "read"
    /\ UNCHANGED <<sent, arriving, memory, buffer, cached, inHand, queue, copier, written>>

(* A message that is not serviced, or a part without its proposal.         *)
ServiceIgnored(ch) ==
    /\ recvPc = ch
    /\ \/ Decoded(ch).kind \in {"other", "undecodable"}
       \/ Decoded(ch).kind = "part" /\ ~MatchesProposal(Decoded(ch))
    /\ buffer' = [buffer EXCEPT ![ch] = Reset(@)]
    /\ recvPc' = "read"
    /\ UNCHANGED <<sent, arriving, memory, cached, inHand, queue, copier, written>>

(* Mutant of ServiceProposal: packets are appended to the cached ones.     *)
ServiceProposalAppended ==
    /\ recvPc = "CsDc" /\ Decoded("CsDc").kind = "proposal"
    /\ memory' = Append(memory, Contents(cached.packets) \o Serviced("CsDc"))
    /\ cached' = [msg |-> Serviced("CsDc")[1].msg,
                  packets |-> Slice(Len(memory) + 1, cached.packets.len + buffer["CsDc"].len)]
    /\ buffer' = [buffer EXCEPT !["CsDc"] = Reset(@)]
    /\ recvPc' = "read"
    /\ UNCHANGED <<sent, arriving, inHand, queue, copier, written>>

(* Mutant of ServiceProposal: the cache shares the buffer's array.         *)
ServiceProposalShared ==
    /\ recvPc = "CsDc" /\ Decoded("CsDc").kind = "proposal"
    /\ cached' = [msg |-> Serviced("CsDc")[1].msg, packets |-> buffer["CsDc"]]
    /\ buffer' = [buffer EXCEPT !["CsDc"] = Reset(@)]
    /\ recvPc' = "read"
    /\ UNCHANGED <<sent, arriving, memory, inHand, queue, copier, written>>

(* A proposal is copied, packet by packet, into a slice of its own.        *)
ServiceProposal ==
    /\ recvPc = "CsDc" /\ Decoded("CsDc").kind = "proposal"
    /\ memory' = Append(memory, Serviced("CsDc"))
    /\ cached' = [msg |-> Serviced("CsDc")[1].msg,
                  packets |-> Slice(Len(memory) + 1, buffer["CsDc"].len)]
    /\ buffer' = [buffer EXCEPT !["CsDc"] = Reset(@)]
    /\ recvPc' = "read"
    /\ UNCHANGED <<sent, arriving, inHand, queue, copier, written>>

(* The message that a decoded buffer is sent on as, and where to.          *)
IsSentOn(ch) ==
    \/ Decoded(ch).kind \in {"vote", "nrs"}
    \/ Decoded(ch).kind = "part" /\ MatchesProposal(Decoded(ch))

Outgoing(ch) ==
    IF ch = "CsDc"
    THEN [channel |-> "0x90", from |-> Serviced(ch)[1].msg,
          packets |-> cached.packets, packets2 |-> buffer[ch]]
    ELSE [channel |-> ch, from |-> Serviced(ch)[1].msg,
          packets |-> buffer[ch], packets2 |-> NilSlice]
Destination(ch) == IF ch = "CsSt" THEN "marlinFrom" ELSE "marlinTo"

(* The send finds room. *)
ServiceSelectSend(ch) ==
    /\ recvPc = ch /\ IsSentOn(ch)
    /\ Len(queue[Destination(ch)]) < Capacity
    /\ queue' = [queue EXCEPT ![Destination(ch)] = Append(@, Outgoing(ch))]
    /\ buffer' = [buffer EXCEPT ![ch] = Reset(@)]
    /\ recvPc' = "read"
    /\ UNCHANGED <<sent, arriving, memory, cached, inHand, copier, written>>

(* It finds none: the default branch. *)
ServiceSelectDefault(ch) ==
    /\ recvPc = ch /\ IsSentOn(ch)
    /\ Len(queue[Destination(ch)]) = Capacity
    /\ inHand' = Outgoing(ch)
    /\ recvPc' = "drop"
    /\ UNCHANGED <<sent, arriving, memory, buffer, cached, queue, copier, written>>

HandChannel == IF inHand.channel = "0x90" THEN "CsDc" ELSE inHand.channel

RecvDrop ==
    /\ recvPc = "drop" /\ queue[Destination(HandChannel)] # << >>
    /\ queue' = [queue EXCEPT ![Destination(HandChannel)] = Tail(@)]
    /\ recvPc' = "put"
    /\ UNCHANGED <<sent, arriving, memory, buffer, cached, inHand, copier, written>>

RecvPut ==
    /\ recvPc = "put" /\ Len(queue[Destination(HandChannel)]) < Capacity
    /\ queue' = [queue EXCEPT ![Destination(HandChannel)] = Append(@, inHand)]
    /\ buffer' = [buffer EXCEPT ![HandChannel] = Reset(@)]
    /\ inHand' = NoMessage
    /\ recvPc' = "read"
    /\ UNCHANGED <<sent, arriving, memory, cached, copier, written>>

-------------------------------------------------------------------------------
(* sendRoutineConnection at marlinTo and sendRoutine at marlinFrom *)

Holds(q) == copier[q].message # NoMessage

Take(q) ==
    /\ ~Holds(q) /\ queue[q] # << >>
    /\ copier' = [copier EXCEPT ![q] = [message |-> Head(queue[q]),
                                        checked |-> q = "marlinTo", copied |-> << >>]]
    /\ queue' = [queue EXCEPT ![q] = Tail(@)]
    /\ UNCHANGED <<sent, arriving, memory, buffer, cached, recvPc, inHand, written>>

(* One turn of the loops over Packets and Packets2. *)
CopyPacket(q) ==
    LET m == copier[q].message
        n == Len(copier[q].copied)
    IN
    /\ Holds(q) /\ n < m.packets.len + m.packets2.len
    /\ copier' = [copier EXCEPT ![q].copied = Append(@,
         IF n < m.packets.len THEN memory[m.packets.array][n + 1]
         ELSE memory[m.packets2.array][n + 1 - m.packets.len])]
    /\ UNCHANGED <<sent, arriving, memory, buffer, cached, recvPc, inHand, queue, written>>

(* What has been copied is written. *)
CopiedAll(q) ==
    Holds(q) /\ Len(copier[q].copied)
                  = copier[q].message.packets.len + copier[q].message.packets2.len

(* Mutant of Copied: the second list grows out of the first.               *)
CopiedAppending(q) ==
    LET m == copier[q].message IN
    [channel |-> m.channel, from |-> m.from,
     packets |-> SubSeq(copier[q].copied, 1, m.packets.len),
     packets2 |-> copier[q].copied]

Copied(q) ==
    LET m == copier[q].message IN
    [channel |-> m.channel, from |-> m.from,
     packets |-> SubSeq(copier[q].copied, 1, m.packets.len),
     packets2 |-> SubSeq(copier[q].copied, m.packets.len + 1, Len(copier[q].copied))]

Write(q) ==
    /\ CopiedAll(q) /\ copier[q].checked
    /\ written' = [written EXCEPT ![q] = Append(@, Copied(q))]
    /\ copier' = [copier EXCEPT ![q] = Idle]
    /\ UNCHANGED <<sent, arriving, memory, buffer, cached, recvPc, inHand, queue>>

(* sendRoutine has gone through the packets once to decode them, and goes  *)
(* through them again to write them if they are a NewRoundStep message.    *)
IsNewRoundStep(packets) ==
    packets # << >> /\ LET m == packets[1].msg
                       IN sent[m].kind = "nrs" /\ packets = PacketsOf(m)
Check ==
    /\ CopiedAll("marlinFrom") /\ ~copier["marlinFrom"].checked
    /\ copier' = [copier EXCEPT !["marlinFrom"] =
         IF IsNewRoundStep(Copied("marlinFrom").packets)
         THEN [@ EXCEPT !.checked = TRUE, !.copied = << >>] ELSE Idle]
    /\ UNCHANGED <<sent, arriving, memory, buffer, cached, recvPc, inHand, queue, written>>

-------------------------------------------------------------------------------

recvRoutine ==
    \/ \E ch \in Channels :
         RecvFirst(ch) \/ RecvNext(ch)
         \/ ServiceIgnored(ch) \/ ServiceSelectSend(ch) \/ ServiceSelectDefault(ch)
    \/ "CsDc" \in Channels /\ ServiceProposal
    \/ RecvDrop \/ RecvPut

(* The loops of the two routines that empty the channels. *)
sendRoutineConnection == Take("marlinTo") \/ CopyPacket("marlinTo") \/ Write("marlinTo")
sendRoutine ==
    Take("marlinFrom") \/ CopyPacket("marlinFrom") \/ Write("marlinFrom") \/ Check

Next == recvRoutine \/ sendRoutineConnection \/ sendRoutine

Spec == Init /\ [][Next]_vars

-------------------------------------------------------------------------------

Msgs == 1..MaxMsgs
Packets == [msg : Msgs, i : 1..MaxPackets]
Slices == [array : Nat, len : 0..MaxPackets]
InArray(s) == s.array \in 0..Len(memory) /\ s.len <= CapOf(memory, s)
Messages == [channel : Channels \union {"0x90"}, from : Msgs, packets : Slices, packets2 : Slices]
WellFormed(m) == m \in Messages /\ InArray(m.packets) /\ InArray(m.packets2)

(* Every variable has a value of its type; every slice lies in its array.  *)
TypeOK ==
    /\ sent \in Seq([channel : Channels, kind : {"vote", "proposal", "part", "nrs", "other"},
                     height : Heights, size : 1..MaxPackets]) /\ Len(sent) <= MaxMsgs
    /\ arriving \in [Channels -> [msg : 0..Len(sent), came : 0..MaxPackets]]
    /\ memory \in Seq(Seq(Packets \union {NoPacket}))
    /\ buffer \in [Channels -> Slices] /\ \A ch \in Channels : InArray(buffer[ch])
    /\ cached \in [msg : 0..Len(sent), packets : Slices] /\ InArray(cached.packets)
    /\ recvPc \in {"read", "drop", "put"} \union Channels
    /\ inHand = NoMessage \/ WellFormed(inHand)
    /\ \A q \in Queues :
         /\ Len(queue[q]) <= Capacity
         /\ \A k \in DOMAIN queue[q] : WellFormed(queue[q][k])
         /\ Holds(q) => WellFormed(copier[q].message)

(* channelBuffer holds what has come of one message and nothing else: no   *)
(* message that is waiting, and none of another channel, disturbs the next *)
(* one, and every way to service a message makes room for it.              *)
BufferHoldsOneMessage ==
    \A ch \in Channels :
        LET a == arriving[ch] IN
        Contents(buffer[ch]) \in
            { [i \in 1..a.came |-> Packet(a.msg, i)] }
            \union (IF a.msg # 0 /\ ~Unfinished(ch) THEN {<< >>} ELSE {})

(* The messages that are on their way.                                     *)
UnderWay ==
    (UNION {{queue[q][k] : k \in DOMAIN queue[q]} : q \in Queues})
    \union {copier[q].message : q \in {q \in Queues : Holds(q)}}
    \union {m \in {inHand} : m # NoMessage}

IsProposal(packets) ==
    /\ packets # << >>
    /\ sent[packets[1].msg].kind = "proposal" /\ packets = PacketsOf(packets[1].msg)

(* The proposal of a bundle stays as the node sent it, and is of the part's *)
(* height, however many proposals and parts arrive while the bundle waits. *)
ProposalStaysIntact ==
    /\ cached.msg # 0 => IsProposal(Contents(cached.packets))
    /\ \A m \in UnderWay : m.channel = "0x90" =>
         /\ IsProposal(Contents(m.packets))
         /\ sent[Contents(m.packets)[1].msg].height = sent[m.from].height

(* What is written has, place by place, packets of the right channel and   *)
(* number, of that message or of one that came later on the channel: only  *)
(* newer packets can spoil a message, no older ones and no other channel,  *)
(* none is cut short, and one that nothing has followed is intact.         *)
WrittenInPlace ==
    \A q \in Queues : \A k \in DOMAIN written[q] :
        LET m == written[q][k]
            own == IF m.channel = "0x90" THEN m.packets2 ELSE m.packets
        IN /\ m.channel = "0x90" => IsProposal(m.packets)
           /\ Len(own) = sent[m.from].size
           /\ \A i \in DOMAIN own :
                /\ own[i].i = i /\ own[i].msg >= m.from
                /\ sent[own[i].msg].channel = sent[m.from].channel

(* "deliver messages recieved from relay to TMCore", "asking Marlin Side   *)
(* Connector to put messages onto relay" (README.md, line 24): a message   *)
(* is passed on as it came.  The code lets the next packets overwrite it.  *)
PassedOnAsSent ==
    \A q \in Queues : \A k \in DOMAIN written[q] :
        LET m == written[q][k] IN
        (IF m.channel = "0x90" THEN m.packets2 ELSE m.packets) = PacketsOf(m.from)
===============================================================================
