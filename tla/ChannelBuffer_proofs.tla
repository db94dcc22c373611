-------------------------- MODULE ChannelBuffer_proofs --------------------------
(***************************************************************************)
(* Proofs about ChannelBuffer, for every set of channels and heights, every*)
(* capacity of the Go channels, any number of messages and any number of   *)
(* packets in each.                                                        *)
(*                                                                         *)
(* The argument is one of ownership.  The buffer of a channel shares its   *)
(* array with no other channel's buffer, and with no slice of a cached or  *)
(* bundled proposal, so nothing is ever written into those; and an array   *)
(* that it does share with a message under way is written by the messages  *)
(* that come after that one on the same channel, each packet at its place. *)
(***************************************************************************)
EXTENDS ChannelBuffer, TLAPS

-------------------------------------------------------------------------------
(* The inductive invariant *)

KindsOfMessages == {"vote", "proposal", "part", "nrs", "other"}
SentType == [channel : Channels, kind : KindsOfMessages, height : Heights, size : 1..MaxPackets]
Stored == Packets \union {NoPacket}
Copying == [message : Messages \union {NoMessage}, checked : BOOLEAN, copied : Seq(Stored)]
Writings == [channel : Channels \union {"0x90"}, from : Msgs,
             packets : Seq(Stored), packets2 : Seq(Stored)]

Typed ==
    /\ sent \in Seq(SentType) /\ Len(sent) <= MaxMsgs
    /\ arriving \in [Channels -> [msg : 0..Len(sent), came : 0..MaxPackets]]
    /\ memory \in Seq(Seq(Stored))
    /\ buffer \in [Channels -> Slices]
    /\ cached \in [msg : 0..Len(sent), packets : Slices]
    /\ recvPc \in {"read", "drop", "put"} \union Channels
    /\ inHand \in Messages \union {NoMessage}
    /\ queue \in [Queues -> Seq(Messages)] /\ \A q \in Queues : Len(queue[q]) <= Capacity
    /\ copier \in [Queues -> Copying]
    /\ written \in [Queues -> Seq(Writings)]

(* A message is of a kind of its channel. *)
SentInv == \A m \in 1..Len(sent) : sent[m].kind \in Kinds(sent[m].channel)

(* The channel that recvRoutine is servicing, if it is not reading.        *)
Servicing == IF recvPc \in {"drop", "put"} THEN HandChannel ELSE recvPc

(* The buffer of a channel has the packets that came of its last message   *)
(* in an array that it shares with no other channel's, or is empty once    *)
(* the message has been serviced.                                          *)
Holding(ch) ==
    /\ buffer[ch].len = arriving[ch].came
    /\ arriving[ch].came # 0 => buffer[ch].array # 0
    /\ \A i \in 1..arriving[ch].came : memory[buffer[ch].array][i] = Packet(arriving[ch].msg, i)

BufferInv(ch) ==
    /\ buffer[ch].array \in 0..Len(memory)
    /\ buffer[ch].len <= CapOf(memory, buffer[ch])
    /\ arriving[ch].msg = 0 => arriving[ch].came = 0
    /\ arriving[ch].msg # 0 => /\ arriving[ch].came \in 1..sent[arriving[ch].msg].size
                               /\ sent[arriving[ch].msg].channel = ch
    /\ IF ~Unfinished(ch) /\ Servicing # ch THEN buffer[ch].len = 0 ELSE Holding(ch)
    /\ Servicing = ch => arriving[ch].msg # 0 /\ ~Unfinished(ch)
    /\ \A c \in Channels : buffer[c].array = buffer[ch].array /\ buffer[c].array # 0 => c = ch

(* The proposals that are whole, in an array that no buffer has.           *)
WholeProposal(c) ==
    /\ c.msg \in 1..Len(sent) /\ sent[c.msg].kind = "proposal"
    /\ c.packets.array \in 1..Len(memory)
    /\ c.packets.len = sent[c.msg].size /\ c.packets.len <= Len(memory[c.packets.array])
    /\ \A i \in 1..c.packets.len : memory[c.packets.array][i] = Packet(c.msg, i)
    /\ \A ch \in Channels : buffer[ch].array # c.packets.array
Proposals == {c \in [msg : Msgs, packets : Slices] : WholeProposal(c)}

(* The i-th packet of message m, or of a later one of its channel.         *)
InPlace(p, i, m) ==
    /\ p.i = i /\ p.msg \in m..Len(sent)
    /\ sent[p.msg].channel = sent[m].channel

(* The slice of a message's own packets; the other one is a proposal's.    *)
Own(m) == IF m.channel = "0x90" THEN m.packets2 ELSE m.packets
Offset(m) == IF m.channel = "0x90" THEN m.packets.len ELSE 0

(* A message under way was made of a message of the node that has come     *)
(* before the last one of its channel or is that one, and its slice holds  *)
(* packets of such ones in their places.                                   *)
OwnInv(m) ==
    LET s == Own(m)
        ch == sent[m.from].channel
    IN
    /\ m.from \in 1..Len(sent) /\ ch \in Channels /\ m.from <= arriving[ch].msg
    /\ s.array \in 1..Len(memory) /\ s.len = sent[m.from].size
    /\ s.len <= Len(memory[s.array])
    /\ \A i \in 1..s.len : InPlace(memory[s.array][i], i, m.from)
    /\ \A c \in Channels : buffer[c].array = s.array => c = ch

Bundled(m) == [msg |-> memory[m.packets.array][1].msg, packets |-> m.packets]
BundleInv(m) ==
    IF m.channel = "0x90"
    THEN /\ Bundled(m) \in Proposals
         /\ sent[Bundled(m).msg].height = sent[m.from].height
         /\ sent[m.from].channel = "CsDc"
    ELSE m.packets2 = NilSlice /\ m.channel = sent[m.from].channel

Fine == {m \in Messages : OwnInv(m) /\ BundleInv(m)}

(* What has been copied of a message: its proposal as it is, and packets   *)
(* in their places.                                                        *)
CopiedRight(m, p, i) ==
    IF i <= Offset(m) THEN p = Packet(Bundled(m).msg, i)
    ELSE InPlace(p, i - Offset(m), m.from)
CopiedInv(c) ==
    c.message # NoMessage =>
        /\ c.message \in Fine
        /\ Len(c.copied) <= c.message.packets.len + c.message.packets2.len
        /\ \A i \in 1..Len(c.copied) : CopiedRight(c.message, c.copied[i], i)
Copyings == {c \in Copying : CopiedInv(c)}

(* What has been written of a message. *)
WrittenInv(m) ==
    /\ m.from \in 1..Len(sent)
    /\ m.channel = "0x90" =>
         \E p \in 1..Len(sent) :
            /\ sent[p].kind = "proposal"
            /\ m.packets = [i \in 1..sent[p].size |-> Packet(p, i)]
    /\ Len(Own(m)) = sent[m.from].size
    /\ \A i \in 1..sent[m.from].size : InPlace(Own(m)[i], i, m.from)
Delivered == {m \in Writings : WrittenInv(m)}

Buffered == \A ch \in Channels : BufferInv(ch)
Cached == cached \in Proposals \union {NoProposal}
InHand == IF recvPc \in {"drop", "put"} THEN inHand \in Fine ELSE inHand = NoMessage
OnTheWay ==
    \A q \in Queues :
        /\ \A k \in 1..Len(queue[q]) : queue[q][k] \in Fine
        /\ copier[q] \in Copyings
        /\ \A k \in 1..Len(written[q]) : written[q][k] \in Delivered

IInv == Typed /\ SentInv /\ Buffered /\ Cached /\ InHand /\ OnTheWay

-------------------------------------------------------------------------------
(* append, and what a step may do to the arrays *)

(* append puts the packet at the end of the slice, in its array or in a    *)
(* new one, and writes nowhere else.                                       *)
AppendedTo(mem, s, p, new, t) ==
    /\ new \in Seq(Seq(Stored)) /\ Len(mem) <= Len(new)
    /\ t.array \in 1..Len(new) /\ t.len = s.len + 1 /\ t.len <= Len(new[t.array])
    /\ new[t.array][t.len] = p
    /\ \A i \in 1..s.len : new[t.array][i] = mem[s.array][i]
    /\ t.array = s.array \/ t.array > Len(mem)
    /\ \A a \in 1..Len(mem) :
         /\ Len(new[a]) = Len(mem[a])
         /\ \A i \in 1..Len(mem[a]) : \/ new[a][i] = mem[a][i]
                                      \/ a = s.array /\ i = s.len + 1 /\ new[a][i] = p

LEMMA Appending ==
    ASSUME NoPacket \in Stored, NEW mem \in Seq(Seq(Stored)), NEW p \in Stored,
           NEW s, s.array \in 0..Len(mem), s.len \in Nat, s.len <= CapOf(mem, s),
           NEW new, new = AppendMemory(mem, s, p),
           NEW t, t = AppendSlice(mem, s)
    PROVE  AppendedTo(mem, s, p, new, t)
  <1> DEFINE n == IF s.len = 0 THEN 1 ELSE 2 * s.len
             f == [i \in 1..n |->
                     CASE i <= s.len -> mem[s.array][i] [] i = s.len + 1 -> p [] OTHER -> NoPacket]
  <1>1. CASE HasRoom(mem, s)
    <2>1. /\ s.array \in 1..Len(mem) /\ s.len + 1 \in 1..Len(mem[s.array])
          /\ mem[s.array] \in Seq(Stored)
      BY <1>1 DEF HasRoom, CapOf
    <2>2. new = [mem EXCEPT ![s.array] = [mem[s.array] EXCEPT ![s.len + 1] = p]]
      BY <1>1 DEF AppendMemory
    <2>3. t = [array |-> s.array, len |-> s.len + 1]
      BY <1>1 DEF AppendSlice, Slice
    <2>4. [mem[s.array] EXCEPT ![s.len + 1] = p] \in Seq(Stored)
      BY <2>1
    <2>5. new \in Seq(Seq(Stored)) /\ Len(new) = Len(mem)
      BY <2>1, <2>2, <2>4
    <2>6. new[s.array] = [mem[s.array] EXCEPT ![s.len + 1] = p] /\ Len(new[s.array]) = Len(mem[s.array])
      BY <2>1, <2>2, <2>4
    <2>7. \A a \in 1..Len(mem) : a # s.array => new[a] = mem[a]
      BY <2>2
    <2>8. /\ t.array = s.array /\ t.len = s.len + 1 /\ t.array \in 1..Len(new)
          /\ t.len <= Len(new[t.array])
      BY <2>1, <2>3, <2>5, <2>6
    <2>9. new[t.array][t.len] = p /\ \A i \in 1..s.len : new[t.array][i] = mem[s.array][i]
      <3> DEFINE old == mem[s.array]
      <3>1. DOMAIN old = 1..Len(old) /\ Len(old) \in Nat
        BY <2>1
      <3>2. new[s.array] = [old EXCEPT ![s.len + 1] = p]
        BY <2>6
      <3>3. s.len + 1 \in 1..Len(old)
        BY <2>1
      <3> HIDE DEF old
      <3>4. new[s.array][s.len + 1] = p /\ \A i \in 1..s.len : new[s.array][i] = old[i]
        BY <3>1, <3>2, <3>3
      <3> QED
        BY <2>8, <3>4 DEF old
    <2>10. ASSUME NEW a \in 1..Len(mem)
           PROVE  /\ Len(new[a]) = Len(mem[a])
                  /\ \A i \in 1..Len(mem[a]) : \/ new[a][i] = mem[a][i]
                                               \/ a = s.array /\ i = s.len + 1 /\ new[a][i] = p
      <3>1. CASE a = s.array
        BY <3>1, <2>1, <2>6
      <3>2. CASE a # s.array
        BY <3>2, <2>7
      <3> QED
        BY <3>1, <3>2
    <2> QED
      BY <2>5, <2>8, <2>9, <2>10 DEF AppendedTo
  <1>2. CASE ~HasRoom(mem, s)
    <2>1. /\ s.len # 0 => s.array \in 1..Len(mem) /\ mem[s.array] \in Seq(Stored) /\ s.len = Len(mem[s.array])
          /\ n \in Nat /\ s.len + 1 \in 1..n
      BY <1>2 DEF HasRoom, CapOf
    <2>2. f \in Seq(Stored) /\ Len(f) = n
      <3>1. ASSUME NEW i \in 1..n PROVE f[i] \in Stored
        BY <2>1
      <3>2. f \in [1..n -> Stored]
        BY <3>1
      <3> HIDE DEF f, n
      <3> QED
        BY <2>1, <3>2
    <2>3. new = Append(mem, f)
      BY <1>2 DEF AppendMemory
    <2>4. t = [array |-> Len(mem) + 1, len |-> s.len + 1]
      BY <1>2 DEF AppendSlice, Slice
    <2>5. f[s.len + 1] = p /\ \A i \in 1..s.len : f[i] = mem[s.array][i]
      BY <2>1
    <2> HIDE DEF f, n
    <2>6. /\ new \in Seq(Seq(Stored)) /\ Len(new) = Len(mem) + 1 /\ new[Len(mem) + 1] = f
          /\ \A a \in 1..Len(mem) : new[a] = mem[a]
      BY <2>2, <2>3
    <2> QED
      BY <2>1, <2>2, <2>4, <2>5, <2>6 DEF AppendedTo
  <1> QED
    BY <1>1, <1>2

(* What any step does to the messages and the arrays: messages are added,  *)
(* and only a buffer's array is written to, with packets of the last       *)
(* message of its channel in their places; a buffer keeps its array or has *)
(* a new one.                                                              *)
Writes(ch, a, i) ==
    /\ a = buffer[ch].array /\ memory'[a][i] = Packet(arriving'[ch].msg, i)
    /\ arriving'[ch].msg \in 1..Len(sent') /\ sent'[arriving'[ch].msg].channel = ch

Evolves ==
    /\ Len(sent) <= Len(sent') /\ \A m \in 1..Len(sent) : sent'[m] = sent[m]
    /\ \A ch \in Channels : arriving[ch].msg <= arriving'[ch].msg
    /\ Len(memory) <= Len(memory')
    /\ \A a \in 1..Len(memory) :
         /\ Len(memory'[a]) = Len(memory[a])
         /\ \A i \in 1..Len(memory[a]) :
              memory'[a][i] = memory[a][i] \/ \E ch \in Channels : Writes(ch, a, i)
    /\ \A ch \in Channels :
         buffer'[ch].array = buffer[ch].array \/ buffer'[ch].array > Len(memory)

(* What the types say of the lengths. *)
Sized ==
    /\ Len(sent) \in Nat
    /\ \A m \in 1..Len(sent) : sent[m] \in SentType
    /\ Len(memory) \in Nat
    /\ \A a \in 1..Len(memory) : memory[a] \in Seq(Stored) /\ Len(memory[a]) \in Nat
    /\ \A ch \in Channels : /\ arriving[ch].msg \in 0..Len(sent)
                            /\ arriving[ch].came \in 0..MaxPackets
                            /\ buffer[ch] \in Slices
                            /\ buffer[ch].array \in Nat

LEMMA Sizing == Typed => Sized
  <1> SUFFICES ASSUME Typed PROVE Sized
    OBVIOUS
  <1>1. Len(sent) \in Nat /\ \A m \in 1..Len(sent) : sent[m] \in SentType
    BY DEF Typed
  <1>2. Len(memory) \in Nat
    BY DEF Typed
  <1>3. ASSUME NEW a \in 1..Len(memory)
        PROVE  memory[a] \in Seq(Stored) /\ Len(memory[a]) \in Nat
    BY DEF Typed
  <1>4. ASSUME NEW ch \in Channels
        PROVE  /\ arriving[ch].msg \in 0..Len(sent)
               /\ arriving[ch].came \in 0..MaxPackets
               /\ buffer[ch] \in Slices
               /\ buffer[ch].array \in Nat
    BY DEF Typed, Slices
  <1> QED
    BY <1>1, <1>2, <1>3, <1>4 DEF Sized

LEMMA ProposalsStay ==
    ASSUME Sized, Sized', Evolves
    PROVE  Proposals \subseteq Proposals'
  <1> SUFFICES ASSUME NEW c \in Proposals PROVE WholeProposal(c)'
    BY DEF Proposals
  <1> DEFINE a == c.packets.array
  <1>1. WholeProposal(c)
    BY DEF Proposals
  <1>2. /\ c.msg \in 1..Len(sent) /\ Len(sent) \in Nat /\ Len(sent') \in Nat
        /\ sent'[c.msg] = sent[c.msg] /\ c.msg \in 1..Len(sent')
    BY <1>1 DEF WholeProposal, Typed, Evolves
  <1>3. a \in 1..Len(memory) /\ a \in 1..Len(memory') /\ Len(memory'[a]) = Len(memory[a])
    BY <1>1 DEF WholeProposal, Typed, Evolves
  <1>4. \A ch \in Channels : buffer[ch].array # a
    BY <1>1 DEF WholeProposal
  <1>5. \A i \in 1..Len(memory[a]) : memory'[a][i] = memory[a][i]
    BY <1>3, <1>4 DEF Evolves, Writes
  <1>6. \A ch \in Channels : buffer'[ch].array # a
    BY <1>3, <1>4 DEF Evolves, Sized, Slices
  <1>7. c.packets.len \in Nat /\ Len(memory[a]) \in Nat
    BY <1>3 DEF Proposals, Slices, Sized
  <1>8. \A i \in 1..c.packets.len : memory'[a][i] = Packet(c.msg, i)
    BY <1>1, <1>5, <1>7 DEF WholeProposal
  <1> QED
    BY <1>1, <1>2, <1>3, <1>6, <1>8 DEF WholeProposal

(* Packets that are in place stay in place. *)
LEMMA PlacesStay ==
    ASSUME Sized, Sized', Evolves, NEW p, NEW i, NEW m \in 1..Len(sent), InPlace(p, i, m)
    PROVE  InPlace(p, i, m)'
  BY DEF InPlace, Evolves, Sized

LEMMA OwnStays ==
    ASSUME Sized, Sized', Evolves, NEW m \in Messages, OwnInv(m)
    PROVE  OwnInv(m)'
  <1> DEFINE s == Own(m)
             ch == sent[m.from].channel
  <1>1. /\ m.from \in 1..Len(sent) /\ m.from \in 1..Len(sent') /\ sent'[m.from] = sent[m.from]
        /\ Len(sent) \in Nat /\ Len(sent') \in Nat
    BY DEF OwnInv, Evolves, Sized
  <1>2. /\ s \in Slices /\ s.array \in 1..Len(memory) /\ s.array \in 1..Len(memory')
        /\ Len(memory'[s.array]) = Len(memory[s.array]) /\ Len(memory[s.array]) \in Nat
    BY DEF OwnInv, Evolves, Sized, Own, Messages
  <1>3. ch \in Channels /\ m.from <= arriving'[ch].msg
    BY <1>1 DEF OwnInv, Evolves, Sized
  <1>4. ASSUME NEW c \in Channels, buffer'[c].array = s.array PROVE c = ch
    <2>1. buffer[c].array = s.array
      BY <1>2, <1>4 DEF Evolves
    <2> QED
      BY <2>1 DEF OwnInv
  <1>5. ASSUME NEW i \in 1..s.len PROVE InPlace(memory[s.array][i], i, m.from)'
    <2>1. i \in 1..Len(memory[s.array]) /\ InPlace(memory[s.array][i], i, m.from)
      BY <1>2 DEF OwnInv, Slices
    <2>2. CASE memory'[s.array][i] = memory[s.array][i]
      <3>1. PICK p : p = memory[s.array][i]
        OBVIOUS
      <3>2. InPlace(p, i, m.from)'
        BY <1>1, <2>1, <3>1, PlacesStay
      <3> QED
        BY <2>2, <3>1, <3>2 DEF InPlace
    <2>3. CASE \E c \in Channels : Writes(c, s.array, i)
      <3>1. Writes(ch, s.array, i)
        BY <2>3 DEF Writes, OwnInv
      <3> QED
        BY <1>1, <1>3, <3>1 DEF Writes, InPlace, Packet, Sized
    <2> QED
      BY <1>2, <2>1, <2>2, <2>3 DEF Evolves
  <1> QED
    BY <1>1, <1>2, <1>3, <1>4, <1>5 DEF OwnInv, Own

LEMMA BundleStays ==
    ASSUME Sized, Sized', Evolves, NEW m \in Messages, BundleInv(m), m.from \in 1..Len(sent)
    PROVE  BundleInv(m)' /\ (m.channel = "0x90" => Bundled(m)' = Bundled(m))
  <1>1. sent'[m.from] = sent[m.from]
    BY DEF Evolves
  <1>2. CASE m.channel # "0x90"
    BY <1>1, <1>2 DEF BundleInv
  <1>3. CASE m.channel = "0x90"
    <2>1. PICK b : b = Bundled(m)
      OBVIOUS
    <2>2. b \in Proposals /\ b \in Proposals'
      BY <1>3, <2>1, ProposalsStay DEF BundleInv
    <2>3. b.packets = m.packets /\ b.msg \in 1..Len(sent)
      BY <2>1, <2>2 DEF Bundled, Proposals, WholeProposal
    <2>4. sent'[b.msg] = sent[b.msg] /\ sent[b.msg] \in SentType
      BY <2>3 DEF Evolves, Sized
    <2>5. 1 \in 1..b.packets.len
      BY <2>2, <2>4 DEF Proposals, WholeProposal, SentType
    <2>6. memory'[m.packets.array][1] = Packet(b.msg, 1)
      BY <2>2, <2>3, <2>5 DEF Proposals, WholeProposal
    <2>7. Bundled(m)' = b
      BY <2>1, <2>3, <2>6 DEF Bundled, Packet
    <2> QED
      BY <1>1, <1>3, <2>1, <2>2, <2>4, <2>7 DEF BundleInv
  <1> QED
    BY <1>2, <1>3

LEMMA FineStays ==
    ASSUME Sized, Sized', Evolves
    PROVE  Fine \subseteq Fine'
  <1> SUFFICES ASSUME NEW m \in Fine PROVE OwnInv(m)' /\ BundleInv(m)'
    BY DEF Fine
  <1>1. m \in Messages /\ OwnInv(m) /\ BundleInv(m) /\ m.from \in 1..Len(sent)
    BY DEF Fine, OwnInv
  <1> QED
    BY <1>1, OwnStays, BundleStays

LEMMA CopyingsStay ==
    ASSUME Sized, Sized', Evolves
    PROVE  Copyings \subseteq Copyings'
  <1> SUFFICES ASSUME NEW c \in Copyings, c.message # NoMessage PROVE CopiedInv(c)'
    BY DEF Copyings, CopiedInv
  <1> DEFINE m == c.message
  <1>1. /\ m \in Fine /\ m \in Fine'
        /\ Len(c.copied) <= m.packets.len + m.packets2.len
    BY FineStays DEF Copyings, CopiedInv
  <1>2. m \in Messages /\ m.from \in 1..Len(sent) /\ BundleInv(m)
    BY <1>1 DEF Fine, OwnInv
  <1>3. m.channel = "0x90" => Bundled(m)' = Bundled(m)
    BY <1>2, BundleStays
  <1>4. ASSUME NEW i \in 1..Len(c.copied)
        PROVE  CopiedRight(m, c.copied[i], i)'
    <2>1. CASE i <= Offset(m)
      <3>1. m.channel = "0x90"
        BY <2>1 DEF Offset
      <3> QED
        BY <1>3, <2>1, <3>1 DEF Copyings, CopiedInv, CopiedRight, Offset
    <2>2. CASE ~(i <= Offset(m))
      <3>1. InPlace(c.copied[i], i - Offset(m), m.from)
        BY <2>2 DEF Copyings, CopiedInv, CopiedRight
      <3>2. PICK j : j = i - Offset(m)
        OBVIOUS
      <3>3. InPlace(c.copied[i], j, m.from)'
        BY <1>2, <3>1, <3>2, PlacesStay
      <3> QED
        BY <2>2, <3>2, <3>3 DEF CopiedRight, Offset
    <2> QED
      BY <2>1, <2>2
  <1> QED
    BY <1>1, <1>4 DEF CopiedInv

LEMMA DeliveredStay ==
    ASSUME Sized, Sized', Evolves
    PROVE  Delivered \subseteq Delivered'
  <1> SUFFICES ASSUME NEW m \in Delivered PROVE WrittenInv(m)'
    BY DEF Delivered
  <1>1. /\ m.from \in 1..Len(sent) /\ m.from \in 1..Len(sent')
        /\ sent'[m.from] = sent[m.from]
        /\ Len(Own(m)) = sent'[m.from].size
    BY DEF Delivered, WrittenInv, Evolves, Sized
  <1>2. ASSUME NEW i \in 1..sent[m.from].size PROVE InPlace(Own(m)[i], i, m.from)'
    <2>1. InPlace(Own(m)[i], i, m.from)
      BY DEF Delivered, WrittenInv
    <2> QED
      BY <1>1, <2>1, PlacesStay
  <1>3. ASSUME m.channel = "0x90"
        PROVE  \E p \in 1..Len(sent') :
                  /\ sent'[p].kind = "proposal"
                  /\ m.packets = [i \in 1..sent'[p].size |-> Packet(p, i)]
    <2>1. PICK p \in 1..Len(sent) :
                  /\ sent[p].kind = "proposal"
                  /\ m.packets = [i \in 1..sent[p].size |-> Packet(p, i)]
      BY <1>3 DEF Delivered, WrittenInv
    <2>2. sent'[p] = sent[p] /\ p \in 1..Len(sent')
      BY DEF Evolves, Sized
    <2> QED
      BY <2>1, <2>2
  <1> QED
    BY <1>1, <1>2, <1>3 DEF WrittenInv

-------------------------------------------------------------------------------
(* The steps of recvRoutine *)

(* A step that adds arrays at the most and keeps the buffers' arrays.      *)
LEMMA Resting ==
    ASSUME Sized, Len(memory) <= Len(memory'),
           \A a \in 1..Len(memory) : memory'[a] = memory[a],
           UNCHANGED <<sent, arriving>>,
           \A ch \in Channels : buffer'[ch].array = buffer[ch].array
    PROVE  Evolves
  BY DEF Evolves, Sized

(* What recvRoutine has in its buffer when it services a channel. *)
LEMMA Whole ==
    ASSUME IInv, NEW ch \in Channels, recvPc = ch,
           NEW m, m = arriving[ch].msg
    PROVE  /\ m \in 1..Len(sent) /\ sent[m] \in SentType
           /\ sent[m].channel = ch /\ sent[m].kind \in Kinds(ch)
           /\ Holding(ch) /\ arriving[ch].came = sent[m].size
           /\ buffer[ch].array # 0
           /\ Serviced(ch) = PacketsOf(m) /\ Serviced(ch)[1].msg = m
           /\ Decoded(ch) = sent[m]
  <1>1. Sized /\ BufferInv(ch) /\ SentInv
    BY Sizing DEF IInv, Buffered
  <1>2. ch \notin {"read", "drop", "put"} /\ Servicing = ch
    BY ChannelsAssumption DEF Servicing
  <1>3. m \in 1..Len(sent) /\ sent[m] \in SentType /\ sent[m].channel = ch
    BY <1>1, <1>2 DEF BufferInv, Sized
  <1>4. sent[m].kind \in Kinds(ch)
    BY <1>1, <1>3 DEF SentInv
  <1>5. arriving[ch].came = sent[m].size /\ sent[m].size \in Nat /\ 1 \in 1..sent[m].size
    BY <1>1, <1>2, <1>3 DEF BufferInv, Unfinished, Sized, SentType
  <1>6. Holding(ch) /\ buffer[ch].array # 0 /\ buffer[ch].len = sent[m].size
    BY <1>1, <1>2, <1>5 DEF BufferInv, Holding
  <1>7. \A i \in 1..sent[m].size : memory[buffer[ch].array][i] = Packet(m, i)
    BY <1>5, <1>6 DEF Holding
  <1>8. Serviced(ch) = PacketsOf(m)
    BY <1>6, <1>7 DEF Serviced, Contents, PacketsOf
  <1>9. Serviced(ch)[1] = Packet(m, 1) /\ Serviced(ch) # << >>
    <2>1. Serviced(ch) \in [1..sent[m].size -> {Packet(m, i) : i \in 1..sent[m].size}]
      BY <1>8 DEF PacketsOf
    <2>2. Serviced(ch)[1] = Packet(m, 1)
      BY <1>5, <1>8 DEF PacketsOf
    <2>3. 1 \in DOMAIN Serviced(ch)
      BY <1>5, <2>1
    <2> QED
      BY <2>2, <2>3
  <1>10. Serviced(ch)[1].msg = m
    BY <1>9 DEF Packet
  <1>11. Decodes(ch) /\ Decoded(ch) = sent[m]
    BY <1>8, <1>9, <1>10 DEF Decodes, Decoded
  <1> QED
    BY <1>3, <1>4, <1>5, <1>6, <1>8, <1>10, <1>11

(* A message that is sent on is as a message under way must be. *)
LEMMA OutgoingIsFine ==
    ASSUME IInv, NEW ch \in Channels, recvPc = ch, IsSentOn(ch)
    PROVE  /\ Outgoing(ch) \in Fine
           /\ Outgoing(ch).channel = IF ch = "CsDc" THEN "0x90" ELSE ch
  <1> DEFINE o == Outgoing(ch)
  <1>1. PICK m : m = arriving[ch].msg
    OBVIOUS
  <1>2. /\ m \in 1..Len(sent) /\ sent[m] \in SentType
        /\ sent[m].channel = ch /\ sent[m].kind \in Kinds(ch)
        /\ Holding(ch) /\ arriving[ch].came = sent[m].size
        /\ buffer[ch].array # 0
        /\ Serviced(ch)[1].msg = m /\ Decoded(ch) = sent[m]
    BY <1>1, Whole
  <1>3. Sized /\ BufferInv(ch) /\ Cached
    BY Sizing DEF IInv, Buffered
  <1>4. m \in Msgs /\ cached.packets \in Slices /\ buffer[ch] \in Slices /\ NilSlice \in Slices
    BY <1>2, <1>3, BoundsAssumption DEF IInv, Typed, Msgs, Slices, NilSlice, Sized
  <1>5. ch # "0x90" /\ o.from = m /\ o.channel = (IF ch = "CsDc" THEN "0x90" ELSE ch)
        /\ Own(o) = buffer[ch]
    BY <1>2, ChannelsAssumption DEF Outgoing, Own
  <1>6. o \in Messages
    BY <1>2, <1>4 DEF Outgoing, Messages
  <1>7. OwnInv(o)
    <2>1. /\ buffer[ch].array \in 1..Len(memory) /\ buffer[ch].len = sent[m].size
          /\ buffer[ch].len <= Len(memory[buffer[ch].array])
      BY <1>2, <1>3 DEF BufferInv, Holding, CapOf, Sized
    <2>2. ASSUME NEW i \in 1..buffer[ch].len PROVE InPlace(memory[buffer[ch].array][i], i, m)
      <3>1. memory[buffer[ch].array][i] = Packet(m, i)
        BY <1>1, <1>2 DEF Holding
      <3> QED
        BY <1>2, <1>3, <3>1 DEF InPlace, Packet, Sized
    <2>3. \A c \in Channels : buffer[c].array = buffer[ch].array => c = ch
      BY <1>2, <1>3 DEF BufferInv
    <2>4. m <= arriving[ch].msg
      BY <1>1, <1>2, <1>3 DEF Sized
    <2> QED
      BY <1>2, <1>5, <2>1, <2>2, <2>3, <2>4 DEF OwnInv
  <1>8. CASE ch = "CsDc"
    <2>1. cached.msg # 0 /\ sent[cached.msg].height = sent[m].height
      BY <1>2, <1>8 DEF IsSentOn, MatchesProposal, Kinds
    <2>2. cached \in Proposals
      BY <1>3, <2>1 DEF Cached, NoProposal
    <2>3. 1 \in 1..cached.packets.len
      BY <1>3, <2>2 DEF Proposals, WholeProposal, Sized, SentType
    <2>4. memory[cached.packets.array][1].msg = cached.msg
      <3>1. PICK c : c = cached
        OBVIOUS
      <3>2. memory[c.packets.array][1] = Packet(c.msg, 1)
        BY <2>2, <2>3, <3>1 DEF Proposals, WholeProposal
      <3> QED
        BY <3>1, <3>2 DEF Packet
    <2>5. o.packets = cached.packets
      BY <1>8 DEF Outgoing
    <2>6. Bundled(o) = cached
      BY <2>2, <2>4, <2>5 DEF Bundled, Proposals
    <2>7. BundleInv(o)
      BY <1>2, <1>5, <1>8, <2>1, <2>2, <2>6 DEF BundleInv
    <2> QED
      BY <1>5, <1>6, <1>7, <2>7 DEF Fine
  <1>9. CASE ch # "CsDc"
    <2>1. BundleInv(o)
      BY <1>2, <1>5, <1>9 DEF BundleInv, Outgoing
    <2> QED
      BY <1>5, <1>6, <1>7, <2>1 DEF Fine
  <1> QED
    BY <1>8, <1>9

(* After a message has been serviced its channel's buffer is empty. *)
LEMMA Resetting ==
    ASSUME Sized, Buffered, NEW ch \in Channels, Servicing = ch, recvPc' = "read",
           buffer' = [buffer EXCEPT ![ch] = Reset(@)], buffer \in [Channels -> Slices],
           UNCHANGED <<sent, arriving>>,
           Len(memory) <= Len(memory'), Len(memory') \in Nat,
           \A a \in 1..Len(memory) : memory'[a] = memory[a]
    PROVE  Buffered' /\ Evolves /\ buffer' \in [Channels -> Slices]
  <1>1. \A c \in Channels : buffer'[c].array = buffer[c].array
    BY DEF Reset, Slice
  <1>2. Servicing' = "read" /\ "read" \notin Channels
    BY ChannelsAssumption DEF Servicing
  <1>3. ASSUME NEW c \in Channels PROVE BufferInv(c)'
    <2>1. BufferInv(c) /\ Unfinished(c)' = Unfinished(c)
      BY DEF Buffered, Unfinished
    <2>2. /\ arriving[c].msg \in 0..Len(sent) /\ arriving[c].came \in 0..MaxPackets
          /\ buffer[c].array \in 0..Len(memory') /\ Len(memory) \in Nat
          /\ buffer[c].array # 0 => memory'[buffer[c].array] = memory[buffer[c].array]
                                    /\ Len(memory[buffer[c].array]) \in Nat
      <3>1. /\ arriving[c].msg \in 0..Len(sent) /\ arriving[c].came \in 0..MaxPackets
            /\ buffer[c].array \in Nat /\ Len(memory) \in Nat
        BY DEF Sized
      <3>2. buffer[c].array \in 0..Len(memory)
        BY <2>1 DEF BufferInv
      <3>3. buffer[c].array # 0 => memory'[buffer[c].array] = memory[buffer[c].array]
                                   /\ Len(memory[buffer[c].array]) \in Nat
        BY <3>1, <3>2 DEF Sized
      <3> QED
        BY <3>1, <3>2, <3>3
    <2>3. CASE c = ch
      <3>1. buffer'[c].len = 0 /\ ~Unfinished(c)
        BY <2>1, <2>3 DEF Reset, Slice, BufferInv
      <3> QED
        BY <1>1, <1>2, <2>1, <2>2, <3>1 DEF BufferInv, CapOf
    <2>4. CASE c # ch
      <3>1. buffer'[c] = buffer[c]
        BY <2>4
      <3>2. CapOf(memory, buffer[c])' = CapOf(memory, buffer[c])
        BY <2>2, <3>1 DEF CapOf
      <3>3. Holding(c) => Holding(c)'
        BY <2>2, <3>1 DEF Holding
      <3> QED
        BY <1>1, <1>2, <2>1, <2>2, <2>4, <3>1, <3>2, <3>3 DEF BufferInv
    <2> QED
      BY <2>3, <2>4
  <1>4. Evolves
    BY <1>1, Resting
  <1>5. buffer' \in [Channels -> Slices]
    BY BoundsAssumption DEF Reset, Slice, Slices
  <1> QED
    BY <1>3, <1>4, <1>5 DEF Buffered

(* The messages under way are not disturbed by a step that leaves them.    *)
LEMMA WayStays ==
    ASSUME Sized, Sized', Evolves, OnTheWay, UNCHANGED <<queue, copier, written>>
    PROVE  OnTheWay'
  BY FineStays, CopyingsStay, DeliveredStay DEF OnTheWay

LEMMA CachedStays ==
    ASSUME Sized, Sized', Evolves, Cached, UNCHANGED cached
    PROVE  Cached'
  BY ProposalsStay DEF Cached

(* A packet has been appended to the buffer of its channel.                *)
LEMMA Appended ==
    ASSUME IInv, NEW ch \in Channels, NEW m, NEW i, NEW size,
           AppendPacket(ch, m, i, size), recvPc = "read",
           sent' \in Seq(SentType), Len(sent') <= MaxMsgs, SentInv',
           Len(sent) <= Len(sent'), \A k \in 1..Len(sent) : sent'[k] = sent[k],
           m \in 1..Len(sent'), sent'[m].channel = ch, sent'[m].size = size,
           i \in 1..size, arriving[ch].msg <= m, buffer[ch].len = i - 1,
           \A j \in 1..i - 1 : memory[buffer[ch].array][j] = Packet(m, j)
    PROVE  IInv'
  <1> DEFINE p == Packet(m, i)
             s == buffer[ch]
             t == buffer'[ch]
  <1>1. /\ Sized /\ SentInv /\ Buffered /\ Cached /\ InHand /\ OnTheWay
        /\ inHand = NoMessage
    BY Sizing DEF IInv, InHand
  <1>2. /\ memory' = AppendMemory(memory, s, p)
        /\ buffer' = [buffer EXCEPT ![ch] = AppendSlice(memory, s)]
        /\ arriving' = [arriving EXCEPT ![ch] = [msg |-> m, came |-> i]]
        /\ recvPc' = IF i = size THEN ch ELSE "read"
        /\ UNCHANGED <<cached, inHand, queue, copier, written>>
    BY DEF AppendPacket
  <1>3. /\ Len(sent) \in Nat /\ Len(sent') \in Nat /\ Len(memory) \in Nat
        /\ size \in 1..MaxPackets /\ size \in Nat /\ i \in Nat /\ m \in Nat /\ MaxPackets \in Nat
        /\ arriving[ch].msg \in Nat
    <2>1. Len(sent) \in Nat /\ Len(memory) \in Nat /\ arriving[ch].msg \in 0..Len(sent)
      BY <1>1 DEF Sized
    <2>2. Len(sent') \in Nat /\ sent'[m] \in SentType
      OBVIOUS
    <2>3. size \in 1..MaxPackets /\ MaxPackets \in Nat
      BY <2>2, BoundsAssumption DEF SentType
    <2> QED
      BY <2>1, <2>2, <2>3
  <1>4. p \in Stored /\ NoPacket \in Stored
    BY <1>3, BoundsAssumption DEF Stored, Packets, Packet, Msgs
  <1>5. /\ buffer \in [Channels -> Slices] /\ t = AppendSlice(memory, s)
        /\ memory \in Seq(Seq(Stored))
    BY <1>2 DEF IInv, Typed
  <1>6. s.array \in 0..Len(memory) /\ s.len \in Nat /\ s.len <= CapOf(memory, s)
    BY <1>1, <1>3 DEF Buffered, BufferInv
  <1>7. /\ memory' \in Seq(Seq(Stored)) /\ Len(memory) <= Len(memory')
        /\ t.array \in 1..Len(memory') /\ t.len = i /\ t.len <= Len(memory'[t.array])
        /\ memory'[t.array][i] = p
        /\ \A j \in 1..i - 1 : memory'[t.array][j] = memory[s.array][j]
        /\ t.array = s.array \/ t.array > Len(memory)
        /\ \A a \in 1..Len(memory) :
             /\ Len(memory'[a]) = Len(memory[a])
             /\ \A j \in 1..Len(memory[a]) : \/ memory'[a][j] = memory[a][j]
                                             \/ a = s.array /\ j = i /\ memory'[a][j] = p
    <2> HIDE DEF p, s, t
    <2>1. PICK ss : ss = s
      OBVIOUS
    <2>2. PICK tt : tt = t
      OBVIOUS
    <2>3. PICK mem : mem = memory
      OBVIOUS
    <2>4. PICK new : new = memory'
      OBVIOUS
    <2>5. AppendedTo(mem, ss, p, new, tt)
      <3>1. PICK q : q = p
        OBVIOUS
      <3>2. mem \in Seq(Seq(Stored)) /\ q \in Stored /\ NoPacket \in Stored
        BY <1>4, <1>5, <2>3, <3>1
      <3>3. ss.array \in 0..Len(mem) /\ ss.len \in Nat /\ ss.len <= CapOf(mem, ss)
        BY <1>6, <2>1, <2>3
      <3>4. new = AppendMemory(mem, ss, q) /\ tt = AppendSlice(mem, ss)
        BY <1>2, <1>5, <2>1, <2>2, <2>3, <2>4, <3>1
      <3> HIDE <1>2, <1>4, <1>5, <1>6, <2>1, <2>2, <2>3, <2>4
      <3> QED
        BY <3>1, <3>2, <3>3, <3>4, Appending
    <2>6. ss.len = i - 1 /\ ss.len + 1 = i
      BY <1>3, <2>1 DEF s
    <2> QED
      BY <2>1, <2>2, <2>3, <2>4, <2>5, <2>6 DEF AppendedTo
  <1>8. t \in Slices /\ buffer' = [buffer EXCEPT ![ch] = t]
    <2>1. t \in Slices
      <3>1. t = [array |-> t.array, len |-> t.len]
        BY <1>5 DEF AppendSlice, Slice
      <3>2. PICK x : x = t.array
        OBVIOUS
      <3>3. x \in Nat
        <4> HIDE DEF t
        <4> QED
          BY <1>5, <1>7, <3>2
      <3>4. t.len \in 0..MaxPackets
        BY <1>3, <1>7, BoundsAssumption
      <3> HIDE DEF t
      <3> QED
        BY <3>1, <3>2, <3>3, <3>4 DEF Slices
    <2>2. buffer' = [buffer EXCEPT ![ch] = AppendSlice(memory, buffer[ch])]
      BY <1>2
    <2>3. t = AppendSlice(memory, buffer[ch])
      BY <1>5
    <2> QED
      BY <2>1, <2>2, <2>3, Zenon
  <1>9. recvPc' \in {"read", "drop", "put"} \union Channels /\ recvPc' \notin {"drop", "put"}
    BY <1>2, ChannelsAssumption
  <1>10. Typed'
    <2>1. buffer' \in [Channels -> Slices]
      BY <1>5, <1>8
    <2>2. arriving' \in [Channels -> [msg : 0..Len(sent'), came : 0..MaxPackets]]
      BY <1>2, <1>3 DEF IInv, Typed
    <2>3. cached' \in [msg : 0..Len(sent'), packets : Slices]
      BY <1>2, <1>3 DEF IInv, Typed
    <2> QED
      BY <1>2, <1>7, <1>9, <2>1, <2>2, <2>3 DEF IInv, Typed
  <1>11. Sized'
    BY <1>10, Sizing, PTL
  <1> HIDE DEF t
  <1>12. /\ buffer'[ch] = t /\ arriving'[ch] = [msg |-> m, came |-> i]
         /\ \A c \in Channels : c # ch => buffer'[c] = buffer[c] /\ arriving'[c] = arriving[c]
    BY <1>2, <1>5, <1>8 DEF IInv, Typed
  <1>13. Evolves
    <2>1. \A c \in Channels : arriving[c].msg <= arriving'[c].msg
      BY <1>1, <1>3, <1>12 DEF Sized
    <2>2. \A c \in Channels : buffer'[c].array = buffer[c].array \/ buffer'[c].array > Len(memory)
      BY <1>7, <1>12
    <2>3. ASSUME NEW a \in 1..Len(memory), NEW j \in 1..Len(memory[a])
          PROVE  memory'[a][j] = memory[a][j] \/ \E c \in Channels : Writes(c, a, j)
      <3>1. CASE memory'[a][j] = memory[a][j]
        BY <3>1
      <3>2. CASE a = s.array /\ j = i /\ memory'[a][j] = p
        <4>1. Writes(ch, a, j)
          BY <1>12, <3>2 DEF Writes
        <4> QED
          BY <4>1
      <3> QED
        BY <1>7, <3>1, <3>2
    <2> QED
      BY <1>7, <2>1, <2>2, <2>3 DEF Evolves
  <1>14. ASSUME NEW c \in Channels PROVE BufferInv(c)'
    <2>1. BufferInv(c)
      BY <1>1 DEF Buffered
    <2>2. CASE c = ch
      <3>1. Holding(ch)'
        <4>1. ASSUME NEW j \in 1..i PROVE memory'[t.array][j] = Packet(m, j)
          <5>1. CASE j = i
            BY <1>7, <5>1
          <5>2. CASE j # i
            <6>1. j \in 1..i - 1
              BY <1>3, <5>2
            <6> QED
              BY <1>7, <6>1
          <5> QED
            BY <5>1, <5>2
        <4> QED
          BY <1>3, <1>7, <1>12, <4>1 DEF Holding
      <3>2. Unfinished(ch)' <=> i # size
        BY <1>3, <1>12 DEF Unfinished
      <3>3. Servicing' = ch <=> i = size
        BY <1>2, <1>9, ChannelsAssumption DEF Servicing
      <3>4. t.array \in 0..Len(memory') /\ t.len <= CapOf(memory', t)
        BY <1>3, <1>7 DEF CapOf
      <3>5. \A d \in Channels : buffer'[d].array = t.array => d = ch
        <4>1. \A d \in Channels : buffer[d].array <= Len(memory) /\ buffer[d].array \in Nat
          BY <1>1, <1>3 DEF Buffered, BufferInv, Sized
        <4>2. t.array # 0
          BY <1>7
        <4>3. \A d \in Channels : buffer[d].array = s.array /\ buffer[d].array # 0 => d = ch
          BY <2>1, <2>2 DEF BufferInv
        <4>4. ASSUME NEW d \in Channels, d # ch PROVE buffer'[d].array # t.array
          <5>1. buffer'[d].array = buffer[d].array /\ buffer[d].array <= Len(memory)
            BY <1>12, <4>1, <4>4
          <5>2. CASE t.array = s.array
            BY <4>2, <4>3, <4>4, <5>1, <5>2
          <5>3. CASE t.array > Len(memory)
            <6>1. t.array \in Nat /\ buffer[d].array \in Nat
              BY <1>7, <4>1
            <6> QED
              BY <1>3, <5>1, <5>3, <6>1
          <5> QED
            BY <1>7, <5>2, <5>3
        <4> QED
          BY <4>4
      <3> QED
        BY <1>3, <1>12, <2>2, <3>1, <3>2, <3>3, <3>4, <3>5 DEF BufferInv
    <2>3. CASE c # ch
      <3>1. buffer'[c] = buffer[c] /\ arriving'[c] = arriving[c]
        BY <1>12, <2>3
      <3>2. /\ arriving[c].msg \in 0..Len(sent)
            /\ arriving[c].msg # 0 => sent'[arriving[c].msg] = sent[arriving[c].msg]
        BY <1>1, <1>3 DEF Sized
      <3>3. Unfinished(c)' <=> Unfinished(c)
        BY <3>1, <3>2 DEF Unfinished
      <3>4. Servicing # c /\ Servicing' # c
        BY <1>2, <1>9, <2>3, ChannelsAssumption DEF Servicing
      <3>5. buffer[c].array \in 0..Len(memory) /\ buffer[c].array \in 0..Len(memory')
        BY <1>3, <1>7, <2>1 DEF BufferInv
      <3>6. buffer[c].array # 0 => /\ buffer[c].array \in 1..Len(memory)
                                   /\ buffer[c].array # s.array
                                   /\ buffer[c].array # t.array
        <4>1. buffer[c].array # 0 => buffer[c].array # s.array
          BY <1>1, <2>1, <2>3 DEF BufferInv, Buffered
        <4>2. buffer[c].array # 0 => buffer[c].array \in 1..Len(memory)
          BY <1>3, <3>5
        <4>3. t.array > Len(memory) => buffer[c].array # t.array
          <5>1. t.array \in Nat
            BY <1>7
          <5> QED
            BY <1>3, <3>5, <5>1
        <4> QED
          BY <1>7, <4>1, <4>2, <4>3
      <3>7. buffer[c].array # 0 =>
               /\ Len(memory'[buffer[c].array]) = Len(memory[buffer[c].array])
               /\ \A j \in 1..Len(memory[buffer[c].array]) :
                    memory'[buffer[c].array][j] = memory[buffer[c].array][j]
        BY <1>7, <3>6
      <3>8. CapOf(memory', buffer'[c]) = CapOf(memory, buffer[c])
        BY <3>1, <3>7 DEF CapOf
      <3>9. Holding(c) => Holding(c)'
        <4>1. SUFFICES ASSUME Holding(c) PROVE Holding(c)'
          OBVIOUS
        <4>2. CASE arriving[c].came = 0
          BY <3>1, <4>1, <4>2 DEF Holding
        <4>3. CASE arriving[c].came # 0
          <5>1. buffer[c].array # 0 /\ arriving[c].came <= Len(memory[buffer[c].array])
            BY <2>1, <4>1, <4>3 DEF Holding, BufferInv, CapOf
          <5>2. Len(memory[buffer[c].array]) \in Nat /\ arriving[c].came \in Nat
            BY <1>1, <3>6, <5>1 DEF Sized
          <5> QED
            BY <3>1, <3>7, <4>1, <5>1, <5>2 DEF Holding
        <4> QED
          BY <4>2, <4>3
      <3>10. \A d \in Channels : buffer'[d].array = buffer[c].array /\ buffer[c].array # 0 => d = c
        BY <1>12, <2>1, <2>3, <3>6 DEF BufferInv
      <3> QED
        BY <2>1, <3>1, <3>2, <3>3, <3>4, <3>5, <3>8, <3>9, <3>10 DEF BufferInv
    <2> QED
      BY <2>2, <2>3
  <1> QED
    BY <1>1, <1>2, <1>9, <1>10, <1>11, <1>13, <1>14, WayStays, CachedStays
       DEF IInv, InHand, Buffered

LEMMA StepRecvFirst ==
    ASSUME IInv, NEW ch \in Channels, RecvFirst(ch)
    PROVE  IInv'
  <1>1. Sized /\ SentInv /\ BufferInv(ch) /\ recvPc = "read"
    BY Sizing DEF IInv, Buffered, RecvFirst
  <1>2. PICK k \in Kinds(ch), h \in Heights, n \in 1..MaxPackets :
          /\ sent' = Append(sent, [channel |-> ch, kind |-> k, height |-> h, size |-> n])
          /\ AppendPacket(ch, Len(sent) + 1, 1, n)
    BY DEF RecvFirst
  <1>3. sent \in Seq(SentType) /\ Len(sent) \in Nat /\ Len(sent) < MaxMsgs /\ MaxMsgs \in Nat
    BY BoundsAssumption DEF IInv, Typed, RecvFirst
  <1>4. [channel |-> ch, kind |-> k, height |-> h, size |-> n] \in SentType
    <2>1. k \in KindsOfMessages
      BY ChannelsAssumption DEF Kinds, KindsOfMessages
    <2> QED
      BY <2>1 DEF SentType
  <1>5. /\ sent' \in Seq(SentType) /\ Len(sent') = Len(sent) + 1
        /\ \A j \in 1..Len(sent) : sent'[j] = sent[j]
        /\ sent'[Len(sent) + 1] = [channel |-> ch, kind |-> k, height |-> h, size |-> n]
    BY <1>2, <1>3, <1>4
  <1>6. SentInv'
    <2>1. ASSUME NEW j \in 1..Len(sent') PROVE sent'[j].kind \in Kinds(sent'[j].channel)
      <3>1. CASE j \in 1..Len(sent)
        BY <1>1, <1>5, <3>1 DEF SentInv
      <3>2. CASE j = Len(sent) + 1
        BY <1>5, <3>2
      <3> QED
        BY <1>3, <1>5, <3>1, <3>2
    <2> QED
      BY <2>1 DEF SentInv
  <1>7. Servicing # ch /\ ~Unfinished(ch)
    BY <1>1, ChannelsAssumption DEF Servicing, RecvFirst
  <1>8. buffer[ch].len = 0
    BY <1>1, <1>7 DEF BufferInv
  <1>9. arriving[ch].msg <= Len(sent) + 1 /\ n \in Nat /\ 1 \in 1..n
    BY <1>1, <1>3, BoundsAssumption DEF Sized
  <1>10. PICK m : m = Len(sent) + 1
    OBVIOUS
  <1>11. /\ m \in 1..Len(sent') /\ sent'[m].channel = ch /\ sent'[m].size = n
         /\ Len(sent') <= MaxMsgs /\ Len(sent) <= Len(sent')
    BY <1>3, <1>5, <1>10
  <1>12. PICK i : i = 1
    OBVIOUS
  <1>13. AppendPacket(ch, m, i, n) /\ i \in 1..n /\ buffer[ch].len = i - 1
    BY <1>2, <1>8, <1>9, <1>10, <1>12
  <1>14. /\ \A j \in 1..i - 1 : memory[buffer[ch].array][j] = Packet(m, j)
         /\ arriving[ch].msg <= m
    BY <1>9, <1>10, <1>12
  <1> QED
    BY <1>1, <1>5, <1>6, <1>11, <1>13, <1>14, Appended

LEMMA StepRecvNext ==
    ASSUME IInv, NEW ch \in Channels, RecvNext(ch)
    PROVE  IInv'
  <1>1. Sized /\ SentInv /\ BufferInv(ch) /\ recvPc = "read" /\ Unfinished(ch) /\ UNCHANGED sent
    BY Sizing DEF IInv, Buffered, RecvNext
  <1>2. PICK m : m = arriving[ch].msg
    OBVIOUS
  <1>3. PICK i : i = arriving[ch].came + 1
    OBVIOUS
  <1>4. PICK size : size = sent[m].size
    OBVIOUS
  <1>5. AppendPacket(ch, m, i, size)
    BY <1>2, <1>3, <1>4 DEF RecvNext
  <1>6. m \in 1..Len(sent) /\ sent[m] \in SentType /\ sent[m].channel = ch
    BY <1>1, <1>2 DEF Sized, Unfinished, BufferInv
  <1>7. size \in Nat /\ i \in 1..size /\ arriving[ch].came = i - 1 /\ i \in Nat
    BY <1>1, <1>2, <1>3, <1>4, <1>6, BoundsAssumption DEF Sized, Unfinished, SentType
  <1>8. Holding(ch)
    BY <1>1 DEF BufferInv
  <1>9. /\ buffer[ch].len = i - 1
        /\ \A j \in 1..i - 1 : memory[buffer[ch].array][j] = Packet(m, j)
    BY <1>2, <1>7, <1>8 DEF Holding
  <1>10. /\ sent' \in Seq(SentType) /\ Len(sent') <= MaxMsgs /\ SentInv'
         /\ Len(sent) <= Len(sent') /\ \A k \in 1..Len(sent) : sent'[k] = sent[k]
    BY <1>1 DEF IInv, Typed, SentInv, Sized
  <1>11. m \in 1..Len(sent') /\ sent'[m].channel = ch /\ sent'[m].size = size
    BY <1>1, <1>4, <1>6
  <1>12. arriving[ch].msg <= m
    BY <1>1, <1>2, <1>6 DEF Sized
  <1> QED
    BY <1>1, <1>5, <1>7, <1>9, <1>10, <1>11, <1>12, Appended

(* Servicing a channel shows in recvPc. *)
LEMMA ServicingOne ==
    ASSUME NEW ch \in Channels, recvPc = ch
    PROVE  Servicing = ch /\ recvPc \notin {"read", "drop", "put"}
  BY ChannelsAssumption DEF Servicing

LEMMA StepServiceIgnored ==
    ASSUME IInv, NEW ch \in Channels, ServiceIgnored(ch)
    PROVE  IInv'
  <1>1. /\ Typed /\ Sized /\ SentInv /\ Buffered /\ Cached /\ InHand /\ OnTheWay
        /\ recvPc = ch /\ Servicing = ch /\ recvPc \notin {"read", "drop", "put"}
    BY Sizing, ServicingOne DEF IInv, ServiceIgnored
  <1>2. /\ buffer' = [buffer EXCEPT ![ch] = Reset(@)] /\ recvPc' = "read"
        /\ UNCHANGED <<sent, arriving, memory, cached, inHand, queue, copier, written>>
    BY DEF ServiceIgnored
  <1>3. Buffered' /\ Evolves /\ buffer' \in [Channels -> Slices]
    <2>1. buffer \in [Channels -> Slices] /\ Len(memory) \in Nat
      BY <1>1 DEF Typed, Sized
    <2>2. /\ Len(memory) <= Len(memory') /\ Len(memory') \in Nat
          /\ \A a \in 1..Len(memory) : memory'[a] = memory[a]
      BY <1>2, <2>1
    <2> QED
      BY <1>1, <1>2, <2>1, <2>2, Resetting
  <1>4. Typed'
    BY <1>1, <1>2, <1>3 DEF Typed, Copying
  <1>5. Sized'
    BY <1>4, Sizing, PTL
  <1>6. SentInv' /\ InHand'
    BY <1>1, <1>2 DEF SentInv, InHand
  <1> QED
    BY <1>1, <1>2, <1>3, <1>4, <1>5, <1>6, WayStays, CachedStays DEF IInv

LEMMA StepServiceProposal ==
    ASSUME IInv, "CsDc" \in Channels, ServiceProposal
    PROVE  IInv'
  <1> DEFINE ch == "CsDc"
  <1>1. PICK m : m = arriving[ch].msg
    OBVIOUS
  <1>2. /\ Typed /\ Sized /\ SentInv /\ Buffered /\ Cached /\ InHand /\ OnTheWay
        /\ recvPc = ch /\ Servicing = ch /\ recvPc \notin {"read", "drop", "put"}
    BY Sizing, ServicingOne DEF IInv, ServiceProposal
  <1>3. /\ m \in 1..Len(sent) /\ sent[m] \in SentType
        /\ Holding(ch) /\ arriving[ch].came = sent[m].size
        /\ Serviced(ch) = PacketsOf(m) /\ Serviced(ch)[1].msg = m
        /\ Decoded(ch) = sent[m]
    BY <1>1, <1>2, Whole
  <1>4. sent[m].kind = "proposal" /\ sent[m].size \in 1..MaxPackets /\ MaxPackets \in Nat
        /\ buffer[ch].len = sent[m].size
    BY <1>3, BoundsAssumption DEF ServiceProposal, SentType, Holding
  <1>5. /\ buffer' = [buffer EXCEPT ![ch] = Reset(@)] /\ recvPc' = "read"
        /\ memory' = Append(memory, PacketsOf(m))
        /\ cached' = [msg |-> m, packets |-> [array |-> Len(memory) + 1, len |-> sent[m].size]]
        /\ UNCHANGED <<sent, arriving, inHand, queue, copier, written>>
    BY <1>3, <1>4 DEF ServiceProposal, Slice
  <1>6. PacketsOf(m) \in Seq(Stored) /\ Len(PacketsOf(m)) = sent[m].size
    <2>1. ASSUME NEW i \in 1..sent[m].size PROVE Packet(m, i) \in Stored
      <3>1. i \in 1..MaxPackets /\ m \in Msgs
        BY <1>2, <1>3, <1>4, BoundsAssumption DEF Typed, Msgs, Sized
      <3> QED
        BY <3>1 DEF Stored, Packets, Packet
    <2> QED
      BY <1>4, <2>1 DEF PacketsOf
  <1>7. /\ memory \in Seq(Seq(Stored)) /\ memory' \in Seq(Seq(Stored))
        /\ Len(memory) \in Nat /\ Len(memory') = Len(memory) + 1
        /\ memory'[Len(memory) + 1] = PacketsOf(m)
        /\ \A a \in 1..Len(memory) : memory'[a] = memory[a]
    <2>1. memory \in Seq(Seq(Stored)) /\ Len(memory) \in Nat
      BY <1>2 DEF Typed
    <2> HIDE DEF ch
    <2> QED
      BY <1>5, <1>6, <2>1
  <1>8. Buffered' /\ Evolves /\ buffer' \in [Channels -> Slices]
    <2>1. buffer \in [Channels -> Slices] /\ Len(memory) <= Len(memory') /\ Len(memory') \in Nat
      BY <1>2, <1>7 DEF Typed
    <2> QED
      BY <1>2, <1>5, <1>7, <2>1, Resetting
  <1>9. cached' \in [msg : 0..Len(sent'), packets : Slices]
    <2>1. [array |-> Len(memory) + 1, len |-> sent[m].size] \in Slices
      BY <1>4, <1>7 DEF Slices
    <2>2. m \in 0..Len(sent')
      BY <1>3, <1>5
    <2> QED
      BY <1>5, <2>1, <2>2
  <1>10. Typed'
    BY <1>2, <1>5, <1>7, <1>8, <1>9 DEF Typed
  <1>11. Sized'
    BY <1>10, Sizing, PTL
  <1>12. SentInv' /\ InHand'
    BY <1>2, <1>5 DEF SentInv, InHand
  <1>13. Cached'
    <2>1. PICK c : c = cached'
      OBVIOUS
    <2>2. c.msg = m /\ c.packets.array = Len(memory) + 1 /\ c.packets.len = sent[m].size
      BY <1>5, <2>1
    <2>3. \A i \in 1..sent[m].size : memory'[Len(memory) + 1][i] = Packet(m, i)
      BY <1>7 DEF PacketsOf
    <2>4. \A d \in Channels : buffer'[d].array # Len(memory) + 1
      <3>1. ASSUME NEW d \in Channels PROVE buffer'[d].array # Len(memory) + 1
        <4>1. buffer'[d].array = buffer[d].array
          BY <1>2, <1>5 DEF Typed, Reset, Slice
        <4>2. buffer[d].array \in 0..Len(memory)
          BY <1>2 DEF Buffered, BufferInv
        <4> QED
          BY <1>7, <4>1, <4>2
      <3> QED
        BY <3>1
    <2>5. WholeProposal(c)'
      <3>1. c.msg \in 1..Len(sent') /\ sent'[c.msg].kind = "proposal" /\ sent'[c.msg].size = sent[m].size
        BY <1>3, <1>4, <1>5, <2>2
      <3>2. /\ c.packets.array \in 1..Len(memory')
            /\ c.packets.len = sent[m].size /\ c.packets.len <= Len(memory'[c.packets.array])
        BY <1>4, <1>6, <1>7, <2>2
      <3>3. \A i \in 1..c.packets.len : memory'[c.packets.array][i] = Packet(c.msg, i)
        BY <2>2, <2>3
      <3> QED
        BY <2>2, <2>4, <3>1, <3>2, <3>3 DEF WholeProposal
    <2>6. c \in [msg : Msgs, packets : Slices]
      <3>1. m \in Msgs
        BY <1>2, <1>3, BoundsAssumption DEF Typed, Msgs, Sized
      <3>2. c \in [msg : 0..Len(sent'), packets : Slices]
        BY <1>9, <2>1
      <3> QED
        BY <2>2, <3>1, <3>2
    <2> QED
      BY <2>1, <2>5, <2>6 DEF Cached, Proposals
  <1> QED
    BY <1>2, <1>5, <1>8, <1>10, <1>11, <1>12, <1>13, WayStays DEF IInv

(* What a send and a receive do to the queues. *)
QueuesOfFine(qs) ==
    /\ qs \in [Queues -> Seq(Messages)] /\ \A q \in Queues : Len(qs[q]) <= Capacity
    /\ \A q \in Queues : \A k \in 1..Len(qs[q]) : qs[q][k] \in Fine

LEMMA Queued ==
    ASSUME Typed, OnTheWay, NEW d \in Queues, NEW o \in Fine, Len(queue[d]) < Capacity,
           NEW qs, qs = [queue EXCEPT ![d] = Append(@, o)]
    PROVE  QueuesOfFine(qs)
  <1>1. queue \in [Queues -> Seq(Messages)] /\ \A q \in Queues : Len(queue[q]) <= Capacity
    BY DEF Typed
  <1>2. /\ queue[d] \in Seq(Messages) /\ Append(queue[d], o) \in Seq(Messages)
        /\ Len(Append(queue[d], o)) = Len(queue[d]) + 1 /\ Len(queue[d]) \in Nat
    BY <1>1 DEF Fine
  <1>3. Len(queue[d]) + 1 <= Capacity
    BY <1>2, CapacityAssumption
  <1>4. qs \in [Queues -> Seq(Messages)] /\ \A q \in Queues : Len(qs[q]) <= Capacity
    BY <1>1, <1>2, <1>3
  <1>5. ASSUME NEW q \in Queues, NEW k \in 1..Len(qs[q]) PROVE qs[q][k] \in Fine
    <2>1. CASE q # d
      BY <1>1, <1>5, <2>1 DEF OnTheWay
    <2>2. CASE q = d
      <3>1. qs[q] = Append(queue[q], o)
        BY <1>1, <2>2
      <3>2. CASE k \in 1..Len(queue[q])
        BY <1>2, <2>2, <3>1, <3>2 DEF OnTheWay
      <3>3. CASE k = Len(queue[q]) + 1
        BY <1>2, <2>2, <3>1, <3>3
      <3> QED
        BY <1>2, <1>5, <2>2, <3>1, <3>2, <3>3
    <2> QED
      BY <2>1, <2>2
  <1> QED
    BY <1>4, <1>5 DEF QueuesOfFine

LEMMA Unqueued ==
    ASSUME Typed, OnTheWay, NEW d \in Queues, queue[d] # << >>,
           NEW qs, qs = [queue EXCEPT ![d] = Tail(@)]
    PROVE  QueuesOfFine(qs)
  <1>1. queue \in [Queues -> Seq(Messages)] /\ \A q \in Queues : Len(queue[q]) <= Capacity
    BY DEF Typed
  <1>2. /\ queue[d] \in Seq(Messages) /\ Tail(queue[d]) \in Seq(Messages)
        /\ Len(Tail(queue[d])) = Len(queue[d]) - 1 /\ Len(queue[d]) \in Nat
        /\ \A k \in 1..Len(Tail(queue[d])) : Tail(queue[d])[k] = queue[d][k + 1]
    BY <1>1
  <1>3. Len(queue[d]) - 1 <= Capacity
    BY <1>1, <1>2, CapacityAssumption
  <1>4. qs \in [Queues -> Seq(Messages)] /\ \A q \in Queues : Len(qs[q]) <= Capacity
    BY <1>1, <1>2, <1>3
  <1>5. ASSUME NEW q \in Queues, NEW k \in 1..Len(qs[q]) PROVE qs[q][k] \in Fine
    <2>1. CASE q # d
      BY <1>1, <1>5, <2>1 DEF OnTheWay
    <2>2. CASE q = d
      <3>1. qs[q] = Tail(queue[d])
        BY <1>1, <2>2
      <3>2. k \in 1..Len(Tail(queue[d]))
        BY <1>5, <3>1
      <3>3. k + 1 \in 1..Len(queue[d])
        BY <1>2, <3>2
      <3>4. qs[q][k] = queue[d][k + 1]
        BY <1>2, <3>1, <3>2
      <3> QED
        BY <3>3, <3>4 DEF OnTheWay
    <2> QED
      BY <2>1, <2>2
  <1> QED
    BY <1>4, <1>5 DEF QueuesOfFine

(* A step that may change the queues, and leaves the rest of the way.      *)
LEMMA QueuesChange ==
    ASSUME Sized, Sized', Evolves, OnTheWay, UNCHANGED <<copier, written>>, QueuesOfFine(queue')
    PROVE  OnTheWay'
  <1>1. \A q \in Queues : \A k \in 1..Len(queue'[q]) : queue'[q][k] \in Fine'
    BY FineStays DEF QueuesOfFine
  <1> QED
    BY <1>1, CopyingsStay, DeliveredStay DEF OnTheWay

LEMMA StepServiceSelectSend ==
    ASSUME IInv, NEW ch \in Channels, ServiceSelectSend(ch)
    PROVE  IInv'
  <1> DEFINE d == Destination(ch)
  <1>1. /\ Typed /\ Sized /\ SentInv /\ Buffered /\ Cached /\ InHand /\ OnTheWay
        /\ recvPc = ch /\ Servicing = ch /\ recvPc \notin {"read", "drop", "put"}
        /\ IsSentOn(ch) /\ d \in Queues
    BY Sizing, ServicingOne DEF IInv, ServiceSelectSend, Destination, Queues
  <1>2. PICK o : o = Outgoing(ch)
    OBVIOUS
  <1>3. o \in Fine
    BY <1>1, <1>2, OutgoingIsFine
  <1>4. /\ buffer' = [buffer EXCEPT ![ch] = Reset(@)] /\ recvPc' = "read"
        /\ Len(queue[d]) < Capacity /\ queue' = [queue EXCEPT ![d] = Append(@, o)]
        /\ UNCHANGED <<sent, arriving, memory, cached, inHand, copier, written>>
    BY <1>2 DEF ServiceSelectSend
  <1>5. Buffered' /\ Evolves /\ buffer' \in [Channels -> Slices]
    <2>1. buffer \in [Channels -> Slices] /\ Len(memory) \in Nat
      BY <1>1 DEF Typed, Sized
    <2>2. /\ Len(memory) <= Len(memory') /\ Len(memory') \in Nat
          /\ \A a \in 1..Len(memory) : memory'[a] = memory[a]
      BY <1>4, <2>1
    <2> QED
      BY <1>1, <1>4, <2>1, <2>2, Resetting
  <1> HIDE DEF d
  <1>6. QueuesOfFine(queue')
    BY <1>1, <1>3, <1>4, Queued
  <1>7. Typed'
    BY <1>1, <1>4, <1>5, <1>6 DEF Typed, QueuesOfFine
  <1>8. Sized'
    BY <1>7, Sizing, PTL
  <1>9. SentInv' /\ InHand'
    BY <1>1, <1>4 DEF SentInv, InHand
  <1>10. OnTheWay'
    BY <1>1, <1>4, <1>5, <1>6, <1>8, QueuesChange
  <1> QED
    BY <1>1, <1>4, <1>5, <1>7, <1>8, <1>9, <1>10, CachedStays DEF IInv

LEMMA StepServiceSelectDefault ==
    ASSUME IInv, NEW ch \in Channels, ServiceSelectDefault(ch)
    PROVE  IInv'
  <1>1. /\ Typed /\ Sized /\ SentInv /\ Buffered /\ Cached /\ InHand /\ OnTheWay
        /\ recvPc = ch /\ Servicing = ch /\ recvPc \notin {"read", "drop", "put"}
        /\ IsSentOn(ch)
    BY Sizing, ServicingOne DEF IInv, ServiceSelectDefault
  <1>2. PICK o : o = Outgoing(ch)
    OBVIOUS
  <1>3. /\ o \in Fine /\ o \in Messages
        /\ o.channel = IF ch = "CsDc" THEN "0x90" ELSE ch
    BY <1>1, <1>2, OutgoingIsFine DEF Fine
  <1>4. /\ inHand' = o /\ recvPc' = "drop"
        /\ UNCHANGED <<sent, arriving, memory, buffer, cached, queue, copier, written>>
    BY <1>2 DEF ServiceSelectDefault
  <1>5. Servicing' = ch
    BY <1>3, <1>4, ChannelsAssumption DEF Servicing, HandChannel
  <1>6. Buffered'
    BY <1>1, <1>4, <1>5 DEF Buffered, BufferInv, Holding, Unfinished, CapOf
  <1>7. Evolves
    BY <1>1, <1>4, Resting DEF Sized
  <1>8. Typed'
    BY <1>1, <1>3, <1>4 DEF Typed
  <1>9. Sized'
    BY <1>8, Sizing, PTL
  <1>10. InHand' /\ SentInv'
    BY <1>1, <1>3, <1>4, <1>7, <1>9, FineStays DEF InHand, SentInv
  <1> QED
    BY <1>1, <1>4, <1>6, <1>7, <1>8, <1>9, <1>10, WayStays, CachedStays DEF IInv

(* The channel of the message that recvRoutine makes room for. *)
LEMMA HandChannelIs ==
    ASSUME IInv, recvPc \in {"drop", "put"}
    PROVE  /\ HandChannel \in Channels /\ Servicing = HandChannel
           /\ Destination(HandChannel) \in Queues
  <1>1. inHand \in Fine
    BY DEF IInv, InHand
  <1>2. sent[inHand.from].channel \in Channels
    BY <1>1 DEF Fine, OwnInv
  <1>3. HandChannel = sent[inHand.from].channel
    BY <1>1 DEF Fine, BundleInv, HandChannel
  <1> QED
    BY <1>2, <1>3 DEF Servicing, Destination, Queues

LEMMA StepRecvDrop ==
    ASSUME IInv, RecvDrop
    PROVE  IInv'
  <1> DEFINE d == Destination(HandChannel)
  <1>1. /\ Typed /\ Sized /\ SentInv /\ Buffered /\ Cached /\ InHand /\ OnTheWay
        /\ recvPc = "drop" /\ Servicing = HandChannel /\ d \in Queues
    BY Sizing, HandChannelIs DEF IInv, RecvDrop
  <1>2. /\ queue[d] # << >> /\ queue' = [queue EXCEPT ![d] = Tail(@)] /\ recvPc' = "put"
        /\ UNCHANGED <<sent, arriving, memory, buffer, cached, inHand, copier, written>>
    BY DEF RecvDrop
  <1> HIDE DEF d
  <1>3. Servicing' = Servicing
    BY <1>1, <1>2 DEF Servicing, HandChannel
  <1>4. Buffered'
    BY <1>1, <1>2, <1>3 DEF Buffered, BufferInv, Holding, Unfinished, CapOf
  <1>5. Evolves
    BY <1>1, <1>2, Resting DEF Sized
  <1>6. QueuesOfFine(queue')
    BY <1>1, <1>2, Unqueued
  <1>7. Typed'
    BY <1>1, <1>2, <1>6 DEF Typed, QueuesOfFine
  <1>8. Sized'
    BY <1>7, Sizing, PTL
  <1>9. InHand' /\ SentInv'
    BY <1>1, <1>2, <1>5, <1>8, FineStays DEF InHand, SentInv
  <1>10. OnTheWay'
    BY <1>1, <1>2, <1>5, <1>6, <1>8, QueuesChange
  <1> QED
    BY <1>1, <1>2, <1>4, <1>5, <1>7, <1>8, <1>9, <1>10, CachedStays DEF IInv

LEMMA StepRecvPut ==
    ASSUME IInv, RecvPut
    PROVE  IInv'
  <1> DEFINE d == Destination(HandChannel)
  <1>1. /\ Typed /\ Sized /\ SentInv /\ Buffered /\ Cached /\ InHand /\ OnTheWay
        /\ recvPc = "put" /\ Servicing = HandChannel /\ d \in Queues
        /\ HandChannel \in Channels /\ inHand \in Fine
    BY Sizing, HandChannelIs DEF IInv, RecvPut, InHand
  <1>2. PICK o : o = inHand
    OBVIOUS
  <1>3. PICK ch \in Channels : ch = HandChannel
    BY <1>1
  <1>4. /\ buffer' = [buffer EXCEPT ![ch] = Reset(@)] /\ recvPc' = "read"
        /\ inHand' = NoMessage
        /\ Len(queue[d]) < Capacity /\ queue' = [queue EXCEPT ![d] = Append(@, o)]
        /\ UNCHANGED <<sent, arriving, memory, cached, copier, written>>
    BY <1>2, <1>3 DEF RecvPut
  <1>5. Buffered' /\ Evolves /\ buffer' \in [Channels -> Slices]
    <2>1. buffer \in [Channels -> Slices] /\ Len(memory) \in Nat
      BY <1>1 DEF Typed, Sized
    <2>2. /\ Len(memory) <= Len(memory') /\ Len(memory') \in Nat
          /\ \A a \in 1..Len(memory) : memory'[a] = memory[a]
      BY <1>4, <2>1
    <2>3. Servicing = ch
      BY <1>1, <1>3
    <2> QED
      BY <1>1, <1>4, <2>1, <2>2, <2>3, Resetting
  <1> HIDE DEF d
  <1>6. QueuesOfFine(queue')
    BY <1>1, <1>2, <1>4, Queued
  <1>7. Typed'
    BY <1>1, <1>4, <1>5, <1>6 DEF Typed, QueuesOfFine
  <1>8. Sized'
    BY <1>7, Sizing, PTL
  <1>9. SentInv' /\ InHand'
    BY <1>1, <1>4 DEF SentInv, InHand
  <1>10. OnTheWay'
    BY <1>1, <1>4, <1>5, <1>6, <1>8, QueuesChange
  <1> QED
    BY <1>1, <1>4, <1>5, <1>7, <1>8, <1>9, <1>10, CachedStays DEF IInv

-------------------------------------------------------------------------------
(* The steps of the routines at the other end *)

(* What they all leave alone. *)
LEMMA Copies ==
    ASSUME IInv, UNCHANGED <<sent, arriving, memory, buffer, cached, recvPc, inHand>>
    PROVE  Evolves /\ SentInv' /\ Buffered' /\ (Sized' => Cached' /\ InHand')
  <1>1. Sized /\ SentInv /\ Buffered /\ Cached /\ InHand
    BY Sizing DEF IInv
  <1>2. Evolves
    BY <1>1, Resting DEF Sized
  <1>3. Buffered'
    BY <1>1 DEF Buffered, BufferInv, Holding, Unfinished, CapOf, Servicing, HandChannel
  <1>4. SentInv'
    BY <1>1 DEF SentInv
  <1>5. Sized' => Cached' /\ InHand'
    BY <1>1, <1>2, CachedStays, FineStays DEF InHand
  <1> QED
    BY <1>2, <1>3, <1>4, <1>5

(* A step of one of them that leaves the queues, but for one.              *)
LEMMA Copier ==
    ASSUME IInv, NEW q \in Queues, NEW c \in Copyings,
           copier' = [copier EXCEPT ![q] = c], QueuesOfFine(queue'),
           UNCHANGED <<sent, arriving, memory, buffer, cached, recvPc, inHand, written>>
    PROVE  IInv'
  <1>1. Typed /\ Sized /\ OnTheWay
    BY Sizing DEF IInv
  <1>2. Evolves /\ SentInv' /\ Buffered' /\ (Sized' => Cached' /\ InHand')
    BY Copies
  <1>3. Typed'
    BY <1>1 DEF Typed, QueuesOfFine, Copyings
  <1>4. Sized'
    BY <1>3, Sizing, PTL
  <1>5. \A r \in Queues : copier'[r] \in Copyings
    BY <1>1 DEF OnTheWay, Typed
  <1>6. OnTheWay'
    BY <1>1, <1>2, <1>4, <1>5, FineStays, CopyingsStay, DeliveredStay DEF OnTheWay, QueuesOfFine
  <1> QED
    BY <1>2, <1>3, <1>4, <1>6 DEF IInv

(* The queues that a step leaves alone. *)
LEMMA SameQueues ==
    ASSUME IInv, UNCHANGED queue
    PROVE  QueuesOfFine(queue')
  BY DEF IInv, Typed, OnTheWay, QueuesOfFine

LEMMA StepTake ==
    ASSUME IInv, NEW q \in Queues, Take(q)
    PROVE  IInv'
  <1>1. Typed /\ OnTheWay /\ queue[q] # << >>
    BY DEF IInv, Take
  <1>2. PICK m : m = Head(queue[q])
    OBVIOUS
  <1>3. m \in Fine /\ m \in Messages /\ m.packets \in Slices /\ m.packets2 \in Slices
    <2>1. queue[q] \in Seq(Messages)
      BY <1>1 DEF Typed
    <2>2. 1 \in 1..Len(queue[q]) /\ m = queue[q][1]
      BY <1>1, <1>2, <2>1
    <2> QED
      BY <1>1, <2>2 DEF OnTheWay, Fine, Messages
  <1>4. PICK c : c = [message |-> m, checked |-> q = "marlinTo", copied |-> << >>]
    OBVIOUS
  <1>5. c \in Copyings
    <2>1. c \in Copying
      <3>1. (q = "marlinTo") \in BOOLEAN /\ << >> \in Seq(Stored)
        OBVIOUS
      <3> QED
        BY <1>3, <1>4, <3>1 DEF Copying
    <2>2. c.message = m /\ c.copied = << >> /\ Len(c.copied) = 0
      BY <1>4
    <2>3. 0 <= m.packets.len + m.packets2.len
      BY <1>3, BoundsAssumption DEF Slices
    <2>4. CopiedInv(c)
      BY <1>3, <2>2, <2>3 DEF CopiedInv
    <2> QED
      BY <2>1, <2>4 DEF Copyings
  <1>6. copier' = [copier EXCEPT ![q] = c]
    BY <1>2, <1>4 DEF Take
  <1>7. QueuesOfFine(queue')
    BY <1>1, Unqueued DEF Take
  <1> QED
    BY <1>5, <1>6, <1>7, Copier DEF Take

LEMMA OwnPacketRight ==
    ASSUME NEW m, NEW p, NEW i, NEW o, o = Offset(m), ~(i <= o), InPlace(p, i - o, m.from)
    PROVE  CopiedRight(m, p, i)
  BY DEF CopiedRight

(* The next packet of a message under way, as it lies in its array.        *)
LEMMA NextPacket ==
    ASSUME Sized, NEW m \in Fine, NEW n \in Nat, n < m.packets.len + m.packets2.len,
           NEW p, p = IF n < m.packets.len THEN memory[m.packets.array][n + 1]
                      ELSE memory[m.packets2.array][n + 1 - m.packets.len]
    PROVE  p \in Stored /\ CopiedRight(m, p, n + 1)
  <1>1. /\ m.packets \in Slices /\ m.packets2 \in Slices
        /\ m.packets.len \in Nat /\ m.packets2.len \in Nat
        /\ OwnInv(m) /\ BundleInv(m)
    BY BoundsAssumption DEF Fine, Messages, Slices
  <1>2. \A a \in 1..Len(memory) : \A i \in 1..Len(memory[a]) :
           memory[a][i] \in Stored /\ Len(memory[a]) \in Nat
    BY DEF Sized
  <1>3. CASE m.channel # "0x90"
    <2>1. m.packets2.len = 0 /\ Own(m) = m.packets /\ Offset(m) = 0
      BY <1>1, <1>3 DEF BundleInv, NilSlice, Own, Offset
    <2>2. n < m.packets.len /\ n + 1 \in 1..m.packets.len /\ n + 1 - Offset(m) = n + 1
      BY <1>1, <2>1
    <2>3. InPlace(memory[m.packets.array][n + 1], n + 1, m.from)
      BY <1>1, <2>1, <2>2 DEF OwnInv
    <2>4. m.packets.array \in 1..Len(memory) /\ m.packets.len <= Len(memory[m.packets.array])
      BY <1>1, <2>1 DEF OwnInv
    <2>5. n + 1 \in 1..Len(memory[m.packets.array])
      BY <1>1, <2>2, <2>4 DEF Sized
    <2> QED
      BY <1>2, <2>1, <2>2, <2>3, <2>4, <2>5 DEF CopiedRight
  <1>4. CASE m.channel = "0x90"
    <2>1. Own(m) = m.packets2 /\ Offset(m) = m.packets.len
      BY <1>4 DEF Own, Offset
    <2>2. CASE n < m.packets.len
      <3>1. PICK b : b = Bundled(m)
        OBVIOUS
      <3>2. b \in Proposals /\ b.packets = m.packets
        BY <1>1, <1>4, <3>1 DEF BundleInv, Bundled
      <3>3. n + 1 \in 1..m.packets.len /\ n + 1 <= Offset(m)
        BY <1>1, <2>1, <2>2
      <3>4. /\ memory[m.packets.array][n + 1] = Packet(b.msg, n + 1)
            /\ m.packets.array \in 1..Len(memory) /\ m.packets.len <= Len(memory[m.packets.array])
        BY <3>2, <3>3 DEF Proposals, WholeProposal
      <3>5. n + 1 \in 1..Len(memory[m.packets.array])
        BY <1>1, <3>3, <3>4 DEF Sized
      <3> QED
        BY <1>2, <2>2, <3>1, <3>3, <3>4, <3>5 DEF CopiedRight
    <2>3. CASE ~(n < m.packets.len)
      <3>1. PICK j : j = n + 1 - m.packets.len
        OBVIOUS
      <3>2. j \in 1..m.packets2.len
        BY <1>1, <2>1, <2>3, <3>1
      <3>3. InPlace(memory[m.packets2.array][j], j, m.from)
        BY <1>1, <2>1, <3>2 DEF OwnInv
      <3>4. m.packets2.array \in 1..Len(memory) /\ m.packets2.len <= Len(memory[m.packets2.array])
        BY <1>1, <2>1 DEF OwnInv
      <3>5. j \in 1..Len(memory[m.packets2.array])
        BY <1>1, <3>2, <3>4 DEF Sized
      <3> QED
        <4>1. p = memory[m.packets2.array][j]
          BY <2>3, <3>1
        <4>2. p \in Stored
          BY <1>2, <3>4, <3>5, <4>1
        <4>3. PICK l : l = n + 1
          OBVIOUS
        <4>4. PICK o : o = Offset(m)
          OBVIOUS
        <4>5. o \in Nat /\ l \in Nat /\ l - o = j /\ o < l
          BY <1>1, <2>1, <2>3, <3>1, <4>3, <4>4
        <4>6. ~(l <= o)
          BY <4>5
        <4>7. InPlace(p, l - o, m.from)
          BY <3>3, <4>1, <4>5
        <4>8. CopiedRight(m, p, l)
          BY <4>4, <4>6, <4>7, OwnPacketRight
        <4> QED
          BY <4>2, <4>3, <4>8
    <2> QED
      BY <2>2, <2>3
  <1> QED
    BY <1>3, <1>4

LEMMA StepCopyPacket ==
    ASSUME IInv, NEW q \in Queues, CopyPacket(q)
    PROVE  IInv'
  <1>1. PICK c : c = copier[q]
    OBVIOUS
  <1>2. PICK m : m = c.message
    OBVIOUS
  <1>3. PICK n : n = Len(c.copied)
    OBVIOUS
  <1>4. /\ Sized /\ c \in Copyings /\ c \in Copying /\ m # NoMessage /\ CopiedInv(c) /\ m \in Fine
        /\ c.copied \in Seq(Stored) /\ n \in Nat
        /\ n < m.packets.len + m.packets2.len
    <2>1. Sized /\ OnTheWay
      BY Sizing DEF IInv
    <2>2. c \in Copyings /\ c \in Copying /\ CopiedInv(c)
      BY <1>1, <2>1 DEF OnTheWay, Copyings
    <2>3. m # NoMessage /\ n < m.packets.len + m.packets2.len
      BY <1>1, <1>2, <1>3 DEF CopyPacket, Holds
    <2>4. c.copied \in Seq(Stored) /\ n \in Nat
      BY <1>3, <2>2 DEF Copying
    <2> QED
      BY <1>2, <2>1, <2>2, <2>3, <2>4 DEF CopiedInv
  <1>5. m.packets.len \in Nat /\ m.packets2.len \in Nat
    BY <1>4, BoundsAssumption DEF Fine, Messages, Slices
  <1>6. PICK p : p = IF n < m.packets.len THEN memory[m.packets.array][n + 1]
                     ELSE memory[m.packets2.array][n + 1 - m.packets.len]
    OBVIOUS
  <1>7. p \in Stored /\ CopiedRight(m, p, n + 1)
    BY <1>4, <1>6, NextPacket
  <1>8. PICK d : d = [c EXCEPT !.copied = Append(@, p)]
    OBVIOUS
  <1>9. /\ d \in Copying /\ d.message = m /\ d.copied = Append(c.copied, p)
        /\ d.copied \in Seq(Stored)
    <2>1. Append(c.copied, p) \in Seq(Stored)
      BY <1>4, <1>7
    <2> QED
      BY <1>2, <1>4, <1>8, <2>1 DEF Copying
  <1>10. /\ Len(d.copied) = n + 1 /\ d.copied[n + 1] = p
         /\ \A i \in 1..n : d.copied[i] = c.copied[i]
    BY <1>3, <1>4, <1>7, <1>9
  <1>11. ASSUME NEW i \in 1..Len(d.copied)
         PROVE  CopiedRight(m, d.copied[i], i)
    <2>1. CASE i \in 1..n
      <3>1. CopiedRight(m, c.copied[i], i)
        BY <1>2, <1>3, <1>4, <2>1 DEF CopiedInv
      <3> QED
        BY <1>10, <2>1, <3>1
    <2>2. CASE i = n + 1
      BY <1>7, <1>10, <2>2
    <2> QED
      BY <1>4, <1>10, <2>1, <2>2
  <1>12. d \in Copyings
    <2>1. Len(d.copied) <= m.packets.len + m.packets2.len
      BY <1>4, <1>5, <1>10
    <2> QED
      BY <1>4, <1>9, <1>11, <2>1 DEF Copyings, CopiedInv
  <1>13. copier' = [copier EXCEPT ![q] = d]
    <2>1. copier' = [copier EXCEPT ![q].copied = Append(@, p)]
      BY <1>1, <1>2, <1>3, <1>6 DEF CopyPacket
    <2> QED
      BY <1>1, <1>8, <2>1 DEF IInv, Typed
  <1> QED
    BY <1>12, <1>13, SameQueues, Copier DEF CopyPacket

LEMMA SubSeqOf ==
    ASSUME NEW S, NEW s \in Seq(S), NEW i \in 1..Len(s) + 1, NEW j \in 0..Len(s), i <= j + 1
    PROVE  /\ SubSeq(s, i, j) \in Seq(S) /\ Len(SubSeq(s, i, j)) = j - i + 1
           /\ \A k \in 1..j - i + 1 : SubSeq(s, i, j)[k] = s[i + k - 1]
  OBVIOUS

(* A sequence that is taken apart. *)
Parts(S, s, a, b, first, second) ==
    /\ first \in Seq(S) /\ Len(first) = a /\ \A k \in 1..a : first[k] = s[k]
    /\ second \in Seq(S) /\ Len(second) = b /\ \A k \in 1..b : second[k] = s[a + k]

LEMMA TwoParts ==
    ASSUME NEW S, NEW s \in Seq(S), NEW a \in Nat, NEW b \in Nat, Len(s) = a + b,
           NEW first, first = SubSeq(s, 1, a), NEW second, second = SubSeq(s, a + 1, Len(s))
    PROVE  Parts(S, s, a, b, first, second)
  <1>1. /\ 1 \in 1..Len(s) + 1 /\ a \in 0..Len(s) /\ 1 <= a + 1 /\ a - 1 + 1 = a
        /\ a + 1 \in 1..Len(s) + 1 /\ Len(s) \in 0..Len(s) /\ a + 1 <= Len(s) + 1
        /\ Len(s) - (a + 1) + 1 = b
    OBVIOUS
  <1>2. /\ first \in Seq(S) /\ Len(first) = a
        /\ \A k \in 1..a : first[k] = s[1 + k - 1]
    <2>1. /\ SubSeq(s, 1, a) \in Seq(S) /\ Len(SubSeq(s, 1, a)) = a - 1 + 1
          /\ \A k \in 1..a - 1 + 1 : SubSeq(s, 1, a)[k] = s[1 + k - 1]
      BY <1>1, SubSeqOf
    <2> QED
      BY <1>1, <2>1
  <1>3. /\ second \in Seq(S) /\ Len(second) = b
        /\ \A k \in 1..b : second[k] = s[a + 1 + k - 1]
    <2>1. /\ SubSeq(s, a + 1, Len(s)) \in Seq(S)
          /\ Len(SubSeq(s, a + 1, Len(s))) = Len(s) - (a + 1) + 1
          /\ \A k \in 1..Len(s) - (a + 1) + 1 : SubSeq(s, a + 1, Len(s))[k] = s[a + 1 + k - 1]
      BY <1>1, SubSeqOf
    <2> QED
      BY <1>1, <2>1
  <1>4. \A k \in 1..a : 1 + k - 1 = k
    OBVIOUS
  <1>5. \A k \in 1..b : a + 1 + k - 1 = a + k
    OBVIOUS
  <1> QED
    BY <1>2, <1>3, <1>4, <1>5 DEF Parts

(* What is written of a message that has been copied. *)
LEMMA CopiedIsDelivered ==
    ASSUME Sized, NEW c \in Copyings, NEW m, m = c.message, m # NoMessage,
           Len(c.copied) = m.packets.len + m.packets2.len,
           NEW first, first = SubSeq(c.copied, 1, m.packets.len),
           NEW second, second = SubSeq(c.copied, m.packets.len + 1, Len(c.copied)),
           NEW w, w = [channel |-> m.channel, from |-> m.from,
                       packets |-> first, packets2 |-> second]
    PROVE  w \in Delivered
  <1> DEFINE a == m.packets.len
             b == m.packets2.len
             s == c.copied
  <1>1. /\ m \in Fine /\ m \in Messages /\ OwnInv(m) /\ BundleInv(m)
        /\ s \in Seq(Stored) /\ a \in Nat /\ b \in Nat /\ Len(s) = a + b
        /\ m.from \in 1..Len(sent)
        /\ \A i \in 1..Len(s) : CopiedRight(m, s[i], i)
    <2>1. c \in Copying /\ CopiedInv(c)
      BY DEF Copyings
    <2>2. m \in Fine /\ \A i \in 1..Len(s) : CopiedRight(m, s[i], i)
      BY <2>1 DEF CopiedInv
    <2>3. m \in Messages /\ OwnInv(m) /\ BundleInv(m)
      BY <2>2 DEF Fine
    <2>4. s \in Seq(Stored)
      BY <2>1 DEF Copying
    <2>5. m.packets \in Slices /\ m.packets2 \in Slices
      BY <2>3 DEF Messages
    <2>6. a \in Nat /\ b \in Nat
      BY <2>5, BoundsAssumption DEF Slices
    <2>7. m.from \in 1..Len(sent)
      BY <2>3 DEF OwnInv
    <2> QED
      BY <2>2, <2>3, <2>4, <2>6, <2>7
  <1>2. /\ first \in Seq(Stored) /\ Len(first) = a
        /\ \A k \in 1..a : first[k] = s[k]
        /\ second \in Seq(Stored) /\ Len(second) = b
        /\ \A k \in 1..b : second[k] = s[a + k]
    <2>1. Parts(Stored, s, a, b, first, second)
      BY <1>1, TwoParts
    <2> QED
      BY <2>1 DEF Parts
  <1>3. /\ w.channel = m.channel /\ w.from = m.from
        /\ w.packets = first /\ w.packets2 = second
    OBVIOUS
  <1>4. w \in Writings
    BY <1>1, <1>2 DEF Writings, Messages
  <1> HIDE DEF a, b, s
  <1>5. sent[m.from] \in SentType /\ sent[m.from].size \in Nat
    BY <1>1, BoundsAssumption DEF Sized, SentType
  <1>6. CASE m.channel = "0x90"
    <2>1. Own(w) = second /\ Own(m) = m.packets2 /\ Offset(m) = a
      BY <1>3, <1>6 DEF Own, Offset, a
    <2>2. b = sent[m.from].size
      BY <1>1, <2>1 DEF OwnInv, b
    <2>3. ASSUME NEW i \in 1..sent[m.from].size PROVE InPlace(Own(w)[i], i, m.from)
      <3>1. PICK j : j = a + i
        OBVIOUS
      <3>2. j \in 1..Len(s) /\ ~(j <= Offset(m)) /\ j - Offset(m) = i
        BY <1>1, <1>5, <2>1, <2>2, <3>1
      <3>3. InPlace(s[j], i, m.from)
        BY <1>1, <3>2 DEF CopiedRight
      <3> QED
        BY <1>2, <2>1, <2>2, <3>1, <3>3
    <2>4. PICK p : p = Bundled(m).msg
      OBVIOUS
    <2>5. p \in 1..Len(sent) /\ sent[p].kind = "proposal" /\ a = sent[p].size
      <3>1. PICK x : x = Bundled(m)
        OBVIOUS
      <3>2. x \in Proposals /\ x.packets = m.packets /\ x.msg = p
        BY <1>1, <1>6, <2>4, <3>1 DEF BundleInv, Bundled
      <3> QED
        BY <3>2 DEF Proposals, WholeProposal, a
    <2>6. first = [i \in 1..sent[p].size |-> Packet(p, i)]
      <3>1. ASSUME NEW i \in 1..a PROVE first[i] = Packet(p, i)
        <4>1. i \in 1..Len(s) /\ i <= Offset(m)
          BY <1>1, <2>1
        <4> QED
          BY <1>1, <1>2, <2>4, <4>1 DEF CopiedRight
      <3>2. first = [i \in 1..a |-> first[i]]
        BY <1>2
      <3> QED
        BY <2>5, <3>1, <3>2
    <2>7. WrittenInv(w)
      BY <1>1, <1>2, <1>3, <1>6, <2>1, <2>2, <2>3, <2>5, <2>6 DEF WrittenInv
    <2> QED
      BY <1>4, <2>7 DEF Delivered
  <1>7. CASE m.channel # "0x90"
    <2>1. Own(w) = first /\ Own(m) = m.packets /\ Offset(m) = 0 /\ b = 0
      <3>1. Own(w) = first /\ Own(m) = m.packets /\ Offset(m) = 0
        BY <1>3, <1>7 DEF Own, Offset
      <3>2. m.packets2 = NilSlice
        BY <1>1, <1>7 DEF BundleInv
      <3> QED
        <4>1. m.packets2.len = 0
          BY <3>2, NilSlice.len = 0 DEF NilSlice
        <4> QED
          BY <3>1, <4>1, Zenon DEF b
    <2>2. a = sent[m.from].size
      BY <1>1, <2>1 DEF OwnInv, a
    <2>3. ASSUME NEW i \in 1..sent[m.from].size PROVE InPlace(Own(w)[i], i, m.from)
      <3>1. i \in 1..Len(s) /\ ~(i <= Offset(m)) /\ i - Offset(m) = i
        BY <1>1, <1>5, <2>1, <2>2
      <3>2. InPlace(s[i], i, m.from)
        BY <1>1, <3>1 DEF CopiedRight
      <3> QED
        BY <1>2, <2>1, <2>2, <3>2
    <2>4. Len(Own(w)) = sent[m.from].size
      BY <1>2, <2>1, <2>2
    <2>5. WrittenInv(w)
      BY <1>1, <1>3, <1>7, <2>3, <2>4 DEF WrittenInv
    <2> QED
      BY <1>4, <2>5 DEF Delivered
  <1> QED
    BY <1>6, <1>7

LEMMA IdleIsFine == Idle \in Copyings
  <1>1. Idle \in Copying
    <2>1. << >> \in Seq(Stored) /\ FALSE \in BOOLEAN
      OBVIOUS
    <2> QED
      BY <2>1 DEF Idle, Copying
  <1>2. CopiedInv(Idle)
    BY DEF Idle, CopiedInv
  <1> QED
    BY <1>1, <1>2 DEF Copyings

LEMMA StepWrite ==
    ASSUME IInv, NEW q \in Queues, Write(q)
    PROVE  IInv'
  <1>1. Typed /\ Sized /\ OnTheWay
    BY Sizing DEF IInv
  <1>2. PICK c : c = copier[q]
    OBVIOUS
  <1>3. PICK w : w = Copied(q)
    OBVIOUS
  <1>4. w \in Delivered /\ w \in Writings
    <2>1. c \in Copyings
      BY <1>1, <1>2 DEF OnTheWay
    <2>2. PICK m : m = c.message
      OBVIOUS
    <2>3. m # NoMessage /\ Len(c.copied) = m.packets.len + m.packets2.len
      BY <1>2, <2>2 DEF Write, CopiedAll, Holds
    <2>4. PICK first : first = SubSeq(c.copied, 1, m.packets.len)
      OBVIOUS
    <2>5. PICK second : second = SubSeq(c.copied, m.packets.len + 1, Len(c.copied))
      OBVIOUS
    <2>6. w = [channel |-> m.channel, from |-> m.from, packets |-> first, packets2 |-> second]
      BY <1>2, <1>3, <2>2, <2>4, <2>5 DEF Copied
    <2> QED
      BY <1>1, <2>1, <2>2, <2>3, <2>4, <2>5, <2>6, CopiedIsDelivered DEF Delivered
  <1>5. /\ written' = [written EXCEPT ![q] = Append(@, w)]
        /\ copier' = [copier EXCEPT ![q] = Idle]
        /\ UNCHANGED <<sent, arriving, memory, buffer, cached, recvPc, inHand, queue>>
    BY <1>3 DEF Write
  <1>6. Evolves /\ SentInv' /\ Buffered' /\ (Sized' => Cached' /\ InHand')
    BY <1>5, Copies
  <1>7. /\ written' \in [Queues -> Seq(Writings)]
        /\ \A r \in Queues : \A k \in 1..Len(written'[r]) : written'[r][k] \in Delivered
    <2>1. written \in [Queues -> Seq(Writings)]
      BY <1>1 DEF Typed
    <2>2. /\ written[q] \in Seq(Writings) /\ Append(written[q], w) \in Seq(Writings)
          /\ Len(Append(written[q], w)) = Len(written[q]) + 1 /\ Len(written[q]) \in Nat
      BY <1>4, <2>1
    <2>3. written' \in [Queues -> Seq(Writings)]
      BY <1>5, <2>1, <2>2
    <2>4. ASSUME NEW r \in Queues, NEW k \in 1..Len(written'[r]) PROVE written'[r][k] \in Delivered
      <3>1. CASE r # q
        BY <1>1, <1>5, <2>1, <2>4, <3>1 DEF OnTheWay
      <3>2. CASE r = q
        <4>1. written'[r] = Append(written[q], w)
          BY <1>5, <2>1, <3>2
        <4>2. CASE k \in 1..Len(written[q])
          BY <1>1, <2>2, <3>2, <4>1, <4>2 DEF OnTheWay
        <4>3. CASE k = Len(written[q]) + 1
          BY <1>4, <2>2, <4>1, <4>3
        <4> QED
          BY <2>2, <2>4, <4>1, <4>2, <4>3
      <3> QED
        BY <3>1, <3>2
    <2> QED
      BY <2>3, <2>4
  <1>8. copier' \in [Queues -> Copying] /\ \A r \in Queues : copier'[r] \in Copyings
    BY <1>1, <1>5, IdleIsFine DEF Typed, OnTheWay, Copyings
  <1>9. Typed'
    BY <1>1, <1>5, <1>7, <1>8 DEF Typed
  <1>10. Sized'
    BY <1>9, Sizing, PTL
  <1>11. OnTheWay'
    BY <1>1, <1>5, <1>6, <1>7, <1>8, <1>10, FineStays, CopyingsStay, DeliveredStay DEF OnTheWay
  <1> QED
    BY <1>6, <1>9, <1>10, <1>11 DEF IInv

LEMMA StepCheck ==
    ASSUME IInv, Check
    PROVE  IInv'
  <1> DEFINE q == "marlinFrom"
  <1>1. PICK c : c = copier[q]
    OBVIOUS
  <1>2. /\ q \in Queues /\ copier \in [Queues -> Copying]
        /\ c \in Copying /\ c \in Copyings /\ CopiedInv(c) /\ c.message # NoMessage
    <2>1. q \in Queues /\ copier \in [Queues -> Copying] /\ OnTheWay
      BY DEF IInv, Typed, Queues
    <2>2. c.message # NoMessage
      BY <1>1 DEF Check, CopiedAll, Holds
    <2> QED
      BY <1>1, <2>1, <2>2 DEF OnTheWay, Copyings
  <1>3. PICK d : d = [c EXCEPT !.checked = TRUE, !.copied = << >>]
    OBVIOUS
  <1>4. d \in Copyings
    <2>1. << >> \in Seq(Stored) /\ TRUE \in BOOLEAN
      OBVIOUS
    <2>2. d \in Copying /\ d.message = c.message /\ d.copied = << >> /\ Len(d.copied) = 0
      BY <1>2, <1>3, <2>1 DEF Copying
    <2>3. c.message \in Fine
      BY <1>2 DEF CopiedInv
    <2>4. 0 <= c.message.packets.len + c.message.packets2.len
      BY <2>3, BoundsAssumption DEF Fine, Messages, Slices
    <2> QED
      BY <2>2, <2>3, <2>4 DEF Copyings, CopiedInv
  <1>5. PICK e \in Copyings : copier' = [copier EXCEPT ![q] = e]
    <2>1. \/ copier' = [copier EXCEPT ![q] = [@ EXCEPT !.checked = TRUE, !.copied = << >>]]
          \/ copier' = [copier EXCEPT ![q] = Idle]
      BY DEF Check
    <2>2. CASE copier' = [copier EXCEPT ![q] = [@ EXCEPT !.checked = TRUE, !.copied = << >>]]
      BY <1>1, <1>3, <1>4, <2>2
    <2>3. CASE copier' = [copier EXCEPT ![q] = Idle]
      BY <2>3, IdleIsFine
    <2> QED
      BY <2>1, <2>2, <2>3
  <1> HIDE DEF q
  <1> QED
    BY <1>2, <1>5, SameQueues, Copier DEF Check

-------------------------------------------------------------------------------
(* The theorems *)

LEMMA Initially == Init => IInv
  <1> SUFFICES ASSUME Init PROVE IInv
    OBVIOUS
  <1>1. 0 \in 0..MaxPackets /\ 0 <= MaxMsgs /\ 0 <= Capacity
    BY BoundsAssumption, CapacityAssumption
  <1>2. NilSlice \in Slices
    BY <1>1 DEF NilSlice, Slices
  <1>3. /\ Len(sent) = 0 /\ Len(memory) = 0
        /\ \A q \in Queues : Len(queue[q]) = 0 /\ Len(written[q]) = 0
    BY DEF Init
  <1>4. Typed
    <2>1. sent \in Seq(SentType) /\ memory \in Seq(Seq(Stored))
      BY DEF Init
    <2>2. arriving \in [Channels -> [msg : 0..Len(sent), came : 0..MaxPackets]]
      BY <1>1, <1>3 DEF Init
    <2>3. buffer \in [Channels -> Slices] /\ cached \in [msg : 0..Len(sent), packets : Slices]
      BY <1>2, <1>3 DEF Init, NoProposal
    <2>4. queue \in [Queues -> Seq(Messages)] /\ written \in [Queues -> Seq(Writings)]
      BY DEF Init
    <2>5. copier \in [Queues -> Copying]
      BY IdleIsFine DEF Init, Copyings
    <2>6. recvPc \in {"read", "drop", "put"} \union Channels /\ inHand \in Messages \union {NoMessage}
      BY DEF Init
    <2> QED
      BY <1>1, <1>3, <2>1, <2>2, <2>3, <2>4, <2>5, <2>6 DEF Typed
  <1>5. SentInv
    BY <1>3 DEF SentInv
  <1>6. Buffered
    <2>1. ASSUME NEW ch \in Channels PROVE BufferInv(ch)
      <3>1. /\ arriving[ch].msg = 0 /\ arriving[ch].came = 0
            /\ buffer[ch].array = 0 /\ buffer[ch].len = 0
            /\ \A c \in Channels : buffer[c].array = 0
        BY DEF Init, NilSlice
      <3>2. ~Unfinished(ch)
        BY <3>1 DEF Unfinished
      <3>3. Servicing = "read" /\ ch # "read"
        BY ChannelsAssumption DEF Servicing, Init
      <3> QED
        BY <1>3, <3>1, <3>2, <3>3 DEF BufferInv, CapOf
    <2> QED
      BY <2>1 DEF Buffered
  <1>7. Cached /\ InHand
    BY DEF Cached, InHand, Init
  <1>8. OnTheWay
    BY <1>3, IdleIsFine DEF OnTheWay, Init
  <1> QED
    BY <1>4, <1>5, <1>6, <1>7, <1>8 DEF IInv

LEMMA Step ==
    ASSUME IInv, [Next]_vars
    PROVE  IInv'
  <1>1. ASSUME NEW ch \in Channels,
               RecvFirst(ch) \/ RecvNext(ch) \/ ServiceIgnored(ch)
                 \/ ServiceSelectSend(ch) \/ ServiceSelectDefault(ch)
        PROVE  IInv'
    BY <1>1, StepRecvFirst, StepRecvNext, StepServiceIgnored, StepServiceSelectSend,
       StepServiceSelectDefault
  <1>2. CASE ("CsDc" \in Channels /\ ServiceProposal) \/ RecvDrop \/ RecvPut
    BY <1>2, StepServiceProposal, StepRecvDrop, StepRecvPut
  <1>3. ASSUME NEW q \in Queues, Take(q) \/ CopyPacket(q) \/ Write(q) PROVE IInv'
    BY <1>3, StepTake, StepCopyPacket, StepWrite
  <1>4. CASE Check
    BY <1>4, StepCheck
  <1>5. CASE UNCHANGED vars
    <2>1. UNCHANGED <<sent, arriving, memory, buffer, cached, recvPc, inHand>>
          /\ UNCHANGED <<queue, copier, written>>
      BY <1>5 DEF vars
    <2>2. Evolves /\ SentInv' /\ Buffered' /\ (Sized' => Cached' /\ InHand')
      BY <2>1, Copies
    <2>3. Typed'
      BY <2>1 DEF IInv, Typed
    <2>4. Sized'
      BY <2>3, Sizing, PTL
    <2> QED
      BY <2>1, <2>2, <2>3, <2>4, Sizing, WayStays DEF IInv
  <1>6. CASE recvRoutine
    BY <1>1, <1>2, <1>6 DEF recvRoutine
  <1>7. "marlinTo" \in Queues /\ "marlinFrom" \in Queues
    BY DEF Queues
  <1>8. CASE sendRoutineConnection \/ sendRoutine
    BY <1>3, <1>4, <1>7, <1>8 DEF sendRoutineConnection, sendRoutine
  <1> QED
    BY <1>5, <1>6, <1>8 DEF Next

(* The buffers, the arrays beneath them and the messages under way are as  *)
(* the three routines need them, in every state.                           *)
THEOREM Invariance == Spec => []IInv
  <1>1. Init => IInv
    BY Initially
  <1>2. IInv /\ [Next]_vars => IInv'
    BY Step
  <1> QED
    BY <1>1, <1>2, PTL DEF Spec

(* Every variable has a value of its type, and every slice that            *)
(* channelBuffer, the cached proposal or a message has lies in its array.  *)
THEOREM TypeCorrect == Spec => []TypeOK
  <1>1. IInv => TypeOK
    <2> SUFFICES ASSUME IInv PROVE TypeOK
      OBVIOUS
    <2>1. Typed /\ Sized
      BY Sizing DEF IInv
    <2>2. ASSUME NEW m \in Fine PROVE WellFormed(m)
      <3>1. m \in Messages /\ OwnInv(m) /\ BundleInv(m)
        BY DEF Fine
      <3>2. \A s \in Slices : s.array \in 1..Len(memory) /\ s.len <= Len(memory[s.array]) => InArray(s)
        BY <2>1 DEF InArray, CapOf, Sized
      <3>3. m.packets \in Slices /\ m.packets2 \in Slices
        BY <3>1 DEF Messages
      <3>4. InArray(NilSlice)
        BY <2>1 DEF InArray, CapOf, NilSlice, Sized
      <3>5. CASE m.channel = "0x90"
        <4>1. InArray(m.packets2)
          BY <3>1, <3>2, <3>3, <3>5 DEF OwnInv, Own
        <4>2. PICK b \in Proposals : b.packets = m.packets
          BY <3>1, <3>5 DEF BundleInv, Bundled
        <4>3. InArray(m.packets)
          BY <3>2, <3>3, <4>2 DEF Proposals, WholeProposal
        <4> QED
          BY <3>1, <4>1, <4>3 DEF WellFormed
      <3>6. CASE m.channel # "0x90"
        BY <3>1, <3>2, <3>3, <3>4, <3>6 DEF OwnInv, Own, BundleInv, WellFormed
      <3> QED
        BY <3>5, <3>6
    <2>3. \A ch \in Channels : InArray(buffer[ch])
      BY DEF IInv, Buffered, BufferInv, InArray
    <2>4. InArray(cached.packets)
      <3>1. CASE cached \in Proposals
        <4>1. PICK c \in Proposals : c = cached
          BY <3>1
        <4> QED
          BY <2>1, <4>1 DEF Proposals, WholeProposal, InArray, CapOf, Sized
      <3>2. CASE cached = NoProposal
        BY <2>1, <3>2 DEF NoProposal, NilSlice, InArray, CapOf, Sized
      <3> QED
        BY <3>1, <3>2 DEF IInv, Cached
    <2>5. inHand = NoMessage \/ WellFormed(inHand)
      BY <2>2 DEF IInv, InHand
    <2>6. ASSUME NEW q \in Queues
          PROVE  /\ Len(queue[q]) <= Capacity
                 /\ \A k \in DOMAIN queue[q] : WellFormed(queue[q][k])
                 /\ Holds(q) => WellFormed(copier[q].message)
      <3>1. DOMAIN queue[q] = 1..Len(queue[q]) /\ Len(queue[q]) <= Capacity
        BY <2>1 DEF Typed
      <3>2. \A k \in 1..Len(queue[q]) : queue[q][k] \in Fine
        BY DEF IInv, OnTheWay
      <3>3. Holds(q) => copier[q].message \in Fine
        BY DEF IInv, OnTheWay, Copyings, CopiedInv, Holds
      <3> QED
        BY <2>2, <3>1, <3>2, <3>3
    <2>7. /\ sent \in Seq([channel : Channels, kind : {"vote", "proposal", "part", "nrs", "other"},
                           height : Heights, size : 1..MaxPackets])
          /\ memory \in Seq(Seq(Packets \union {NoPacket}))
      BY <2>1 DEF Typed, SentType, KindsOfMessages, Stored
    <2> QED
      BY <2>1, <2>3, <2>4, <2>5, <2>6, <2>7 DEF Typed, TypeOK
  <1> QED
    BY <1>1, Invariance, PTL

(* channelBuffer holds what has come of one message of its channel and     *)
(* nothing else, however the packets of the channels are interleaved and   *)
(* whatever waits in the Go channels.                                      *)
THEOREM HoldingOneMessage == Spec => []BufferHoldsOneMessage
  <1>1. IInv => BufferHoldsOneMessage
    <2> SUFFICES ASSUME IInv, NEW ch \in Channels
                 PROVE  Contents(buffer[ch]) \in
                          { [i \in 1..arriving[ch].came |-> Packet(arriving[ch].msg, i)] }
                          \union (IF arriving[ch].msg # 0 /\ ~Unfinished(ch) THEN {<< >>} ELSE {})
      BY DEF BufferHoldsOneMessage
    <2>1. BufferInv(ch) /\ Sized
      BY Sizing DEF IInv, Buffered
    <2>2. CASE Holding(ch)
      BY <2>2 DEF Holding, Contents
    <2>3. CASE ~Holding(ch)
      <3>1. ~Unfinished(ch) /\ Servicing # ch /\ buffer[ch].len = 0
        BY <2>1, <2>3 DEF BufferInv
      <3>2. CASE arriving[ch].msg # 0
        <4>1. Contents(buffer[ch]) = << >>
          BY <3>1 DEF Contents
        <4> QED
          BY <3>1, <3>2, <4>1
      <3>3. CASE arriving[ch].msg = 0
        <4>1. arriving[ch].came = 0
          BY <2>1, <3>3 DEF BufferInv
        <4> QED
          BY <2>3, <3>1, <4>1 DEF Holding
      <3> QED
        BY <3>2, <3>3
    <2> QED
      BY <2>2, <2>3
  <1> QED
    BY <1>1, Invariance, PTL

(* What the slice of a whole proposal reads as.                            *)
LEMMA ProposalContents ==
    ASSUME Sized, NEW c \in Proposals
    PROVE  /\ Contents(c.packets) = PacketsOf(c.msg)
           /\ IsProposal(Contents(c.packets)) /\ Contents(c.packets)[1].msg = c.msg
  <1>1. /\ c.msg \in 1..Len(sent) /\ sent[c.msg] \in SentType /\ sent[c.msg].kind = "proposal"
        /\ c.packets.len = sent[c.msg].size
        /\ \A i \in 1..c.packets.len : memory[c.packets.array][i] = Packet(c.msg, i)
    BY DEF Proposals, WholeProposal, Sized
  <1>2. Contents(c.packets) = PacketsOf(c.msg)
    BY <1>1 DEF Contents, PacketsOf
  <1>3. 1 \in 1..sent[c.msg].size
    BY <1>1, BoundsAssumption DEF SentType
  <1>4. PacketsOf(c.msg)[1] = Packet(c.msg, 1) /\ 1 \in DOMAIN PacketsOf(c.msg)
    BY <1>3 DEF PacketsOf
  <1>5. PacketsOf(c.msg)[1].msg = c.msg /\ PacketsOf(c.msg) # << >>
    BY <1>4 DEF Packet
  <1> QED
    BY <1>1, <1>2, <1>5 DEF IsProposal

(* The messages of UnderWay are those of the invariant.                    *)
LEMMA UnderWayIsFine ==
    ASSUME IInv
    PROVE  UnderWay \subseteq Fine
  <1> DEFINE A == {{queue[q][k] : k \in DOMAIN queue[q]} : q \in Queues}
             B == {copier[q].message : q \in {q \in Queues : Holds(q)}}
             C == {m \in {inHand} : m # NoMessage}
  <1>1. ASSUME NEW m, NEW q \in Queues, m \in {queue[q][k] : k \in DOMAIN queue[q]}
        PROVE  m \in Fine
    <2>1. queue[q] \in Seq(Messages)
      BY DEF IInv, Typed
    <2>2. PICK k \in DOMAIN queue[q] : m = queue[q][k]
      BY <1>1
    <2>3. k \in 1..Len(queue[q])
      BY <2>1
    <2> QED
      BY <2>2, <2>3 DEF IInv, OnTheWay
  <1>2. ASSUME NEW m \in B PROVE m \in Fine
    BY DEF IInv, OnTheWay, Copyings, CopiedInv, Holds
  <1>3. ASSUME NEW m \in C PROVE m \in Fine
    BY DEF IInv, InHand
  <1>4. ASSUME NEW m \in UnderWay PROVE m \in Fine
    <2>1. m \in (UNION A) \union B \union C
      BY Zenon DEF UnderWay
    <2>2. CASE m \in UNION A
      <3>1. PICK X \in A : m \in X
        <4> HIDE DEF A
        <4> QED
          BY <2>2
      <3>2. PICK q \in Queues : X = {queue[q][k] : k \in DOMAIN queue[q]}
        BY Zenon
      <3> QED
        BY <1>1, <3>1, <3>2, Zenon
    <2> HIDE DEF A, B, C
    <2> QED
      BY <1>2, <1>3, <2>1, <2>2
  <1> QED
    BY <1>4

(* The cached proposal, and the proposal of every bundle that waits or is  *)
(* being copied, is a whole proposal as the node sent it, of the height of *)
(* the bundle's part, however many proposals and parts arrive.             *)
THEOREM KeepingProposalsIntact == Spec => []ProposalStaysIntact
  <1>1. IInv => ProposalStaysIntact
    <2> SUFFICES ASSUME IInv PROVE ProposalStaysIntact
      OBVIOUS
    <2>1. Sized
      BY Sizing DEF IInv
    <2>2. cached.msg # 0 => IsProposal(Contents(cached.packets))
      <3>1. SUFFICES ASSUME cached.msg # 0 PROVE IsProposal(Contents(cached.packets))
        OBVIOUS
      <3>2. PICK c \in Proposals : c = cached
        BY <3>1 DEF IInv, Cached, NoProposal
      <3>3. IsProposal(Contents(c.packets))
        BY <2>1, ProposalContents
      <3> QED
        BY <3>2, <3>3
    <2>3. ASSUME NEW m \in UnderWay, m.channel = "0x90"
          PROVE  /\ IsProposal(Contents(m.packets))
                 /\ sent[Contents(m.packets)[1].msg].height = sent[m.from].height
      <3>1. m \in Fine
        BY UnderWayIsFine
      <3>2. PICK b : b = Bundled(m)
        OBVIOUS
      <3>3. /\ b \in Proposals /\ b.packets = m.packets
            /\ sent[b.msg].height = sent[m.from].height
        BY <2>3, <3>1, <3>2 DEF Fine, BundleInv, Bundled
      <3>4. IsProposal(Contents(b.packets)) /\ Contents(b.packets)[1].msg = b.msg
        BY <2>1, <3>3, ProposalContents
      <3> QED
        BY <3>3, <3>4
    <2> QED
      BY <2>2, <2>3 DEF ProposalStaysIntact
  <1> QED
    BY <1>1, Invariance, PTL

(* What WrittenInPlace says of one message. *)
WrittenSo(m) ==
    /\ m.channel = "0x90" => IsProposal(m.packets)
    /\ Len(Own(m)) = sent[m.from].size
    /\ \A i \in DOMAIN Own(m) :
         /\ Own(m)[i].i = i /\ Own(m)[i].msg >= m.from
         /\ sent[Own(m)[i].msg].channel = sent[m.from].channel

(* What is written of a message has as many packets as the node sent, each *)
(* at its place and of the same channel, of that message or of a later     *)
(* one; and a bundle's proposal is whole.                                  *)
THEOREM WritingInPlace == Spec => []WrittenInPlace
  <1>1. IInv => WrittenInPlace
    <2> SUFFICES ASSUME IInv, NEW q \in Queues, NEW k \in DOMAIN written[q]
                 PROVE  WrittenSo(written[q][k])
      BY DEF WrittenInPlace, WrittenSo, Own
    <2>a. PICK m : m = written[q][k]
      OBVIOUS
    <2>o. PICK own : own = Own(m)
      OBVIOUS
    <2>1. Sized
      BY Sizing DEF IInv
    <2>2. m \in Writings /\ WrittenInv(m)
      <3>1. written[q] \in Seq(Writings)
        BY DEF IInv, Typed
      <3>2. k \in 1..Len(written[q])
        BY <3>1
      <3> QED
        BY <2>a, <3>2 DEF IInv, OnTheWay, Delivered
    <2>3. own \in Seq(Stored) /\ DOMAIN own = 1..Len(own)
      BY <2>2, <2>o DEF Writings, Own
    <2>4. Len(own) = sent[m.from].size /\ m.from \in 1..Len(sent)
      BY <2>2, <2>o DEF WrittenInv
    <2>5. ASSUME NEW i \in DOMAIN own
          PROVE  /\ own[i].i = i /\ own[i].msg >= m.from
                 /\ sent[own[i].msg].channel = sent[m.from].channel
      <3>1. InPlace(own[i], i, m.from)
        BY <2>2, <2>3, <2>4, <2>o DEF WrittenInv
      <3> QED
        BY <2>1, <2>4, <3>1 DEF InPlace, Sized
    <2>6. ASSUME m.channel = "0x90" PROVE IsProposal(m.packets)
      <3>1. PICK p \in 1..Len(sent) : /\ sent[p].kind = "proposal"
                                      /\ m.packets = [i \in 1..sent[p].size |-> Packet(p, i)]
        BY <2>2, <2>6 DEF WrittenInv
      <3>2. 1 \in 1..sent[p].size
        BY <2>1, BoundsAssumption DEF Sized, SentType
      <3>3. m.packets[1] = Packet(p, 1) /\ 1 \in DOMAIN m.packets
        BY <3>1, <3>2
      <3>4. m.packets[1].msg = p /\ m.packets # << >>
        BY <3>3 DEF Packet
      <3> QED
        BY <3>1, <3>4 DEF IsProposal, PacketsOf
    <2> QED
      BY <2>a, <2>o, <2>4, <2>5, <2>6 DEF WrittenSo
  <1> QED
    BY <1>1, Invariance, PTL

(* PassedOnAsSent of ChannelBuffer.tla, which the code breaks, does hold of *)
(* a message that nothing has followed on its channel: it is written with  *)
(* the packets that the node sent, whatever came on the other channels.    *)
Unfollowed(m) == \A n \in 1..Len(sent) : sent[n].channel = sent[m.from].channel => n <= m.from
PassedOnIfUnfollowed ==
    \A q \in Queues : \A k \in DOMAIN written[q] :
        Unfollowed(written[q][k]) => Own(written[q][k]) = PacketsOf(written[q][k].from)

THEOREM PassingOnTheUnfollowed == Spec => []PassedOnIfUnfollowed
  <1>1. IInv => PassedOnIfUnfollowed
    <2> SUFFICES ASSUME IInv, NEW q \in Queues, NEW k \in DOMAIN written[q],
                        Unfollowed(written[q][k])
                 PROVE  Own(written[q][k]) = PacketsOf(written[q][k].from)
      BY DEF PassedOnIfUnfollowed
    <2>1. PICK m : m = written[q][k]
      OBVIOUS
    <2>2. m \in Delivered /\ m \in Writings
      <3>1. written[q] \in Seq(Writings)
        BY DEF IInv, Typed
      <3>2. k \in 1..Len(written[q])
        BY <3>1
      <3> QED
        BY <2>1, <3>2 DEF IInv, OnTheWay, Delivered
    <2>3. PICK own : own = Own(m)
      OBVIOUS
    <2>4. /\ m.from \in 1..Len(sent) /\ own \in Seq(Stored) /\ Len(own) = sent[m.from].size
          /\ \A i \in 1..sent[m.from].size : InPlace(own[i], i, m.from)
      BY <2>2, <2>3 DEF Delivered, WrittenInv, Own, Writings
    <2>5. Unfollowed(m)
      BY <2>1
    <2>6. ASSUME NEW i \in 1..Len(own) PROVE own[i] = Packet(m.from, i)
      <3>1. InPlace(own[i], i, m.from)
        BY <2>4
      <3>2. PICK p : p = own[i]
        OBVIOUS
      <3>3. p \in Stored /\ p.i = i /\ p.msg \in m.from..Len(sent) /\ sent[p.msg].channel = sent[m.from].channel
        BY <2>4, <3>1, <3>2 DEF InPlace
      <3>4. m.from \in Nat /\ Len(sent) \in Nat
        BY <2>4 DEF IInv, Typed
      <3>5. p.msg <= m.from
        BY <2>4, <2>5, <3>3, <3>4 DEF Unfollowed
      <3>6. p.msg = m.from
        BY <3>3, <3>4, <3>5
      <3>7. p = [msg |-> p.msg, i |-> p.i]
        BY <3>3 DEF Stored, Packets, NoPacket
      <3> QED
        BY <3>2, <3>3, <3>6, <3>7 DEF Packet
    <2>7. own = [i \in 1..Len(own) |-> own[i]]
      BY <2>4
    <2>8. own = [i \in 1..sent[m.from].size |-> Packet(m.from, i)]
      BY <2>4, <2>6, <2>7
    <2> QED
      BY <2>1, <2>3, <2>8 DEF PacketsOf
  <1> QED
    BY <1>1, Invariance, PTL
===============================================================================
