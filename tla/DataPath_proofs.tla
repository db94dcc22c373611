----------------------------- MODULE DataPath_proofs -----------------------------
(***************************************************************************)
(* Proofs about DataPath, for every set of channels and heights, every     *)
(* capacity, any number of messages and of packets in each, and any place  *)
(* at which the connection is cut.                                         *)
(*                                                                         *)
(* The steps of the wire leave the connector alone, so the theorems of     *)
(* ChannelBuffer hold of the composition.  The reader is in step because   *)
(* the frames lie in the stream one behind the other, each at a place that *)
(* its length gives, and the reader is always at the place of one of them. *)
(***************************************************************************)
EXTENDS DataPath, ChannelBuffer_proofs, FunctionTheorems, FiniteSetTheorems

-------------------------------------------------------------------------------
(* What is encoded *)

(* h is f and then g, sequences over U. *)
Concatenated(U, f, g, h) ==
    /\ h \in Seq(U) /\ Len(h) = Len(f) + Len(g)
    /\ \A i \in 1..Len(f) : h[i] = f[i]
    /\ \A i \in 1..Len(g) : h[Len(f) + i] = g[i]

LEMMA Concatenating ==
    ASSUME NEW U, NEW f \in Seq(U), NEW g \in Seq(U)
    PROVE  Concatenated(U, f, g, f \o g)
  BY DEF Concatenated

(* x is the packets of two lists, one list after the other. *)
Marshalled(x, p, q) ==
    /\ DOMAIN x = 1..(Len(p) + Len(q)) /\ Len(x) = Len(p) + Len(q)
    /\ \A i \in 1..Len(p) : x[i] = <<"packets", p[i]>>
    /\ \A i \in 1..Len(q) : x[Len(p) + i] = <<"packets2", q[i]>>

LEMMA Marshalling ==
    ASSUME NEW S, NEW p \in Seq(S), NEW q \in Seq(S)
    PROVE  /\ Marshalled(Marshal(p, q), p, q)
           /\ Marshal(p, q) \in Seq({"packets", "packets2"} \X S)
  <1> DEFINE U == {"packets", "packets2"} \X S
             f == [i \in DOMAIN p |-> <<"packets", p[i]>>]
             g == [i \in DOMAIN q |-> <<"packets2", q[i]>>]
  <1>1. f \in Seq(U) /\ Len(f) = Len(p) /\ \A i \in 1..Len(p) : f[i] = <<"packets", p[i]>>
    <2>1. f \in [1..Len(p) -> U] /\ Len(p) \in Nat
      OBVIOUS
    <2>2. f \in Seq(U) /\ Len(f) = Len(p)
      <3> HIDE DEF f, U
      <3> QED
        BY <2>1
    <2> QED
      BY <2>2
  <1>2. g \in Seq(U) /\ Len(g) = Len(q) /\ \A i \in 1..Len(q) : g[i] = <<"packets2", q[i]>>
    <2>1. g \in [1..Len(q) -> U] /\ Len(q) \in Nat
      OBVIOUS
    <2>2. g \in Seq(U) /\ Len(g) = Len(q)
      <3> HIDE DEF g, U
      <3> QED
        BY <2>1
    <2> QED
      BY <2>2
  <1>3. Marshal(p, q) = f \o g
    BY DEF Marshal
  <1> HIDE DEF f, g, U
  <1>4. /\ f \o g \in Seq(U) /\ Len(f \o g) = Len(p) + Len(q)
        /\ \A i \in 1..Len(p) : (f \o g)[i] = f[i]
        /\ \A i \in 1..Len(q) : (f \o g)[Len(p) + i] = g[i]
    <2>1. Concatenated(U, f, g, f \o g)
      BY <1>1, <1>2, Concatenating
    <2> QED
      BY <1>1, <1>2, <2>1 DEF Concatenated
  <1>5. DOMAIN (f \o g) = 1..(Len(p) + Len(q))
    BY <1>4
  <1>6. \A i \in 1..Len(p) : (f \o g)[i] = <<"packets", p[i]>>
    BY <1>1, <1>4
  <1>7. \A i \in 1..Len(q) : (f \o g)[Len(p) + i] = <<"packets2", q[i]>>
    BY <1>2, <1>4
  <1> QED
    BY <1>3, <1>4, <1>5, <1>6, <1>7 DEF Marshalled, U

(* The n-th place, counted as Fields does. *)
IsNth(at, n, k) == k \in at /\ \A i \in at : Cardinality(at \intersect (1..i)) = n <=> i = k

LEMMA NthOfInterval ==
    ASSUME NEW lo \in Nat, NEW hi \in Nat, NEW n \in 1..(hi - lo),
           NEW at, at = (lo + 1)..hi
    PROVE  IsNth(at, n, lo + n)
  <1>1. ASSUME NEW i \in at PROVE Cardinality(at \intersect (1..i)) = i - lo
    <2>1. at \intersect (1..i) = (lo + 1)..i
      OBVIOUS
    <2>2. Cardinality((lo + 1)..i) = i - lo
      <3>1. lo + 1 \in Int /\ i \in Int /\ ~(lo + 1 > i)
        OBVIOUS
      <3> QED
        BY <3>1, FS_Interval
    <2> QED
      BY <2>1, <2>2
  <1>2. lo + n \in at
    OBVIOUS
  <1> QED
    BY <1>1, <1>2 DEF IsNth

(* A list lies in one piece after place lo, and Fields gives it. *)
LiesAfter(x, list, l, lo) == \A i \in 1..Len(l) : x[lo + i] = <<list, l[i]>>

LEMMA FieldsOfInterval ==
    ASSUME NEW S, NEW x, NEW list, NEW l \in Seq(S), NEW lo \in Nat,
           NEW hi, hi = lo + Len(l),
           Places(x, list) = (lo + 1)..hi, LiesAfter(x, list, l, lo)
    PROVE  Fields(x, list) = l
  <1> DEFINE at == Places(x, list)
             Nth(n) == CHOOSE i \in at : Cardinality(at \intersect (1..i)) = n
  <1>1. hi \in Nat /\ Len(l) \in Nat
    OBVIOUS
  <1>2. Cardinality(at) = Len(l)
    <2>1. /\ lo + 1 \in Int /\ hi \in Int
          /\ (IF lo + 1 > hi THEN 0 ELSE hi - (lo + 1) + 1) = Len(l)
      BY <1>1
    <2> QED
      BY <2>1, FS_Interval
  <1>3. ASSUME NEW n \in 1..Len(l) PROVE x[Nth(n)][2] = l[n]
    <2>1. n \in 1..(hi - lo)
      BY <1>1
    <2>2. Nth(n) = lo + n
      <3>1. at = (lo + 1)..hi
        OBVIOUS
      <3> HIDE DEF at
      <3>2. IsNth(at, n, lo + n)
        BY <1>1, <2>1, <3>1, NthOfInterval, Zenon
      <3> QED
        BY <3>2 DEF IsNth
    <2>3. x[lo + n] = <<list, l[n]>>
      BY DEF LiesAfter
    <2> HIDE DEF Nth
    <2> QED
      BY <2>2, <2>3
  <1>4. Fields(x, list) = [n \in 1..Cardinality(at) |-> x[Nth(n)][2]]
    BY DEF Fields
  <1>5. Fields(x, list) = [n \in 1..Len(l) |-> x[Nth(n)][2]]
    BY <1>2, <1>4
  <1>6. Fields(x, list) = [n \in 1..Len(l) |-> l[n]]
    BY <1>3, <1>5, Zenon
  <1> QED
    BY <1>6

LEMMA FieldsOfMarshalled ==
    ASSUME NEW S, NEW p \in Seq(S), NEW q \in Seq(S), NEW x, Marshalled(x, p, q)
    PROVE  Fields(x, "packets") = p /\ Fields(x, "packets2") = q
  <1>1. \A i \in 1..Len(p) : x[i] = <<"packets", p[i]>> /\ x[i][1] = "packets"
    BY DEF Marshalled
  <1>2. \A i \in 1..Len(q) : /\ x[Len(p) + i] = <<"packets2", q[i]>>
                             /\ x[Len(p) + i][1] = "packets2"
    BY DEF Marshalled
  <1>3. ASSUME NEW i \in DOMAIN x PROVE (x[i][1] = "packets") <=> i <= Len(p)
    <2>1. i \in 1..(Len(p) + Len(q))
      BY DEF Marshalled
    <2>2. CASE i <= Len(p)
      BY <1>1, <2>1, <2>2
    <2>3. CASE ~(i <= Len(p))
      <3>1. PICK j \in 1..Len(q) : i = Len(p) + j
        <4>1. i - Len(p) \in 1..Len(q) /\ i = Len(p) + (i - Len(p))
          BY <2>1, <2>3
        <4> QED
          BY <4>1
      <3>2. x[i][1] = "packets2"
        BY <1>2, <3>1
      <3> QED
        BY <2>3, <3>2
    <2> QED
      BY <2>2, <2>3
  <1>4. ASSUME NEW i \in DOMAIN x PROVE (x[i][1] = "packets2") <=> i > Len(p)
    <2>1. i \in 1..(Len(p) + Len(q))
      BY DEF Marshalled
    <2>2. CASE i <= Len(p)
      BY <1>1, <2>1, <2>2
    <2>3. CASE ~(i <= Len(p))
      <3>1. PICK j \in 1..Len(q) : i = Len(p) + j
        <4>1. i - Len(p) \in 1..Len(q) /\ i = Len(p) + (i - Len(p))
          BY <2>1, <2>3
        <4> QED
          BY <4>1
      <3>2. x[i][1] = "packets2"
        BY <1>2, <3>1
      <3> QED
        BY <2>1, <2>3, <3>2
    <2> QED
      BY <2>2, <2>3
  <1>5. DOMAIN x = 1..(Len(p) + Len(q)) /\ Len(p) \in Nat /\ Len(q) \in Nat
    BY DEF Marshalled
  <1>6. Places(x, "packets") = (0 + 1)..Len(p)
    BY <1>3, <1>5 DEF Places
  <1>7. PICK hi : hi = Len(p) + Len(q)
    OBVIOUS
  <1>8. Places(x, "packets2") = (Len(p) + 1)..hi
    BY <1>4, <1>5, <1>7 DEF Places
  <1>9. LiesAfter(x, "packets", p, 0) /\ LiesAfter(x, "packets2", q, Len(p))
    BY <1>1, <1>2, <1>5 DEF LiesAfter
  <1>10. Fields(x, "packets") = p
    <2>1. 0 \in Nat /\ Len(p) = 0 + Len(p)
      BY <1>5
    <2> QED
      BY <1>6, <1>9, <2>1, FieldsOfInterval
  <1>11. Fields(x, "packets2") = q
    BY <1>5, <1>7, <1>8, <1>9, FieldsOfInterval
  <1> QED
    BY <1>10, <1>11

(* h is x, y and then s, units of U. *)
Headed(U, x, y, s, h) ==
    /\ h \in Seq(U) /\ Len(h) = Len(s) + 2 /\ h[1] = x /\ h[2] = y
    /\ \A i \in 1..Len(s) : h[i + 2] = s[i]
    /\ SubSeq(h, 3, Len(h)) = s

LEMMA Heading ==
    ASSUME NEW U, NEW x \in U, NEW y \in U, NEW s \in Seq(U)
    PROVE  Headed(U, x, y, s, <<x, y>> \o s)
  <1> DEFINE h == <<x, y>> \o s
  <1>1. /\ h \in Seq(U) /\ Len(h) = Len(s) + 2 /\ h[1] = x /\ h[2] = y
        /\ \A i \in 1..Len(s) : h[i + 2] = s[i]
    OBVIOUS
  <1> HIDE DEF h
  <1>2. SubSeq(h, 3, Len(h)) \in Seq(U) /\ Len(SubSeq(h, 3, Len(h))) = Len(s)
    BY <1>1
  <1>3. ASSUME NEW i \in 1..Len(s) PROVE SubSeq(h, 3, Len(h))[i] = s[i]
    BY <1>1
  <1>4. SubSeq(h, 3, Len(h)) = s
    BY <1>2, <1>3
  <1> QED
    BY <1>1, <1>4 DEF Headed, h

(* Sums of lengths. *)
LEMMA Adding ==
    ASSUME NEW a \in Nat, NEW b \in Nat
    PROVE  a + b \in Nat
  OBVIOUS

LEMMA Positive ==
    ASSUME NEW a \in Nat, NEW b \in Nat, NEW c, c = a \/ c = b, c > 0
    PROVE  a + b > 0
  OBVIOUS

(* What is on the wire; what has been written has a packet at least. *)
Units == ({"packets", "packets2"} \X Stored) \union {<<"chain", "chain">>}
         \union ({"channel"} \X (Channels \union {"0x90"})) \union ({"length", "id"} \X Nat)
Framable == {m \in Writings : Len(m.packets) + Len(m.packets2) > 0}

BodyOf(x, m) ==
    /\ Headed(Units, <<"chain", "chain">>, <<"channel", m.channel>>,
              Marshal(m.packets, m.packets2), x)
    /\ \A i \in 1..Len(x) : x[i][1] # "length"

LEMMA Bodies ==
    ASSUME NEW m \in Writings
    PROVE  /\ BodyOf(Body("chain", m), m)
           /\ Marshalled(Marshal(m.packets, m.packets2), m.packets, m.packets2)
           /\ Marshal(m.packets, m.packets2) \in Seq(Units)
  <1> DEFINE P == Marshal(m.packets, m.packets2)
             x == Body("chain", m)
  <1>1. m.packets \in Seq(Stored) /\ m.packets2 \in Seq(Stored)
    BY DEF Writings
  <1>2. Marshalled(P, m.packets, m.packets2) /\ P \in Seq({"packets", "packets2"} \X Stored)
    BY <1>1, Marshalling
  <1>3. P \in Seq(Units)
    <2>1. ({"packets", "packets2"} \X Stored) \subseteq Units
      BY DEF Units
    <2> HIDE DEF P
    <2> QED
      BY <1>2, <2>1
  <1>4. <<"chain", "chain">> \in Units /\ <<"channel", m.channel>> \in Units
    BY DEF Units, Writings
  <1>5. x = <<<<"chain", "chain">>, <<"channel", m.channel>>>> \o P
    BY DEF Body
  <1>6. Headed(Units, <<"chain", "chain">>, <<"channel", m.channel>>, P, x)
    BY <1>3, <1>4, <1>5, Heading
  <1> HIDE DEF x, P
  <1>7. ASSUME NEW i \in 1..Len(x) PROVE x[i][1] # "length"
    <2>1. i \in 1..(Len(P) + 2) /\ Len(P) \in Nat
      BY <1>3, <1>6 DEF Headed
    <2>2. CASE i = 1
      BY <1>6, <2>2 DEF Headed
    <2>3. CASE i = 2
      BY <1>6, <2>3 DEF Headed
    <2>4. CASE i > 2
      <3>1. PICK j : j = i - 2
        OBVIOUS
      <3>2. j \in 1..Len(P) /\ i = j + 2
        BY <2>1, <2>4, <3>1
      <3>3. x[i] = P[j] /\ P[j] \in {"packets", "packets2"} \X Stored
        BY <1>2, <1>6, <3>2 DEF Headed
      <3> QED
        BY <3>3
    <2> QED
      BY <2>1, <2>2, <2>3, <2>4
  <1> QED
    BY <1>2, <1>3, <1>6, <1>7 DEF BodyOf, P, x

(* The spam filter decodes what the gateway framed. *)
LEMMA DecodingRequests ==
    ASSUME NEW m \in Writings, NEW id \in Nat
    PROVE  DecodeRequest(EncodeRequest(id, Body("chain", m)))
             = [id |-> id, channel |-> m.channel, packets |-> m.packets,
                packets2 |-> m.packets2]
  <1> DEFINE P == Marshal(m.packets, m.packets2)
             b == Body("chain", m)
             request == EncodeRequest(id, b)
  <1>1. /\ Headed(Units, <<"chain", "chain">>, <<"channel", m.channel>>, P, b)
        /\ Marshalled(P, m.packets, m.packets2) /\ P \in Seq(Units)
    BY Bodies DEF BodyOf
  <1>2. m.packets \in Seq(Stored) /\ m.packets2 \in Seq(Stored)
    BY DEF Writings
  <1>3. Fields(P, "packets") = m.packets /\ Fields(P, "packets2") = m.packets2
    BY <1>1, <1>2, FieldsOfMarshalled
  <1>4. request = <<<<"id", id>>, <<"length", Len(b)>>>> \o b
    BY DEF EncodeRequest
  <1> HIDE DEF P, b, request
  <1>5. b \in Seq(Units) /\ Len(b) \in Nat /\ b[2][2] = m.channel /\ SubSeq(b, 3, Len(b)) = P
    BY <1>1 DEF Headed
  <1>6. <<"id", id>> \in Units /\ <<"length", Len(b)>> \in Units
    BY <1>5 DEF Units
  <1>7. Headed(Units, <<"id", id>>, <<"length", Len(b)>>, b, request)
    BY <1>4, <1>5, <1>6, Heading
  <1>8. request[1][2] = id /\ request[2][2] = Len(b) /\ SubSeq(request, 3, Len(b) + 2) = b
    BY <1>7 DEF Headed
  <1>9. SubSeq(request, 3, request[2][2] + 2) = b
    BY <1>8
  <1>10. DecodeRequest(request)
           = [id |-> request[1][2], channel |-> b[2][2],
              packets |-> Fields(P, "packets"), packets2 |-> Fields(P, "packets2")]
    BY <1>5, <1>9, Zenon DEF DecodeRequest
  <1> QED
    BY <1>3, <1>5, <1>8, <1>10 DEF request, b

(* What sendRoutineConnection writes is a frame: a length, the body that   *)
(* it is the length of, and no other length.                               *)
FrameOf(x, m) ==
    /\ x \in Seq(Units) /\ Len(x) \in Nat /\ Len(x) >= 4
    /\ x[1] = <<"length", Len(x) - 1>>
    /\ x[2] = <<"chain", "chain">> /\ x[3] = <<"channel", m.channel>>
    /\ \A i \in 2..Len(x) : x[i][1] # "length"

LEMMA Framing ==
    ASSUME NEW m \in Framable
    PROVE  FrameOf(Encode("chain", m), m)
  <1> DEFINE P == Marshal(m.packets, m.packets2)
             b == Body("chain", m)
             x == Encode("chain", m)
  <1>1. m \in Writings /\ Len(m.packets) + Len(m.packets2) > 0
    BY DEF Framable
  <1>2. BodyOf(b, m) /\ Marshalled(P, m.packets, m.packets2) /\ P \in Seq(Units)
    BY <1>1, Bodies
  <1>3. x = <<<<"length", Len(P) + 2>>>> \o b
    BY DEF Encode
  <1> HIDE DEF P, b, x
  <1>4. Len(P) \in Nat /\ Len(P) > 0
    <2>1. Len(P) = Len(m.packets) + Len(m.packets2)
      BY <1>2 DEF Marshalled
    <2>2. Len(m.packets) \in Nat /\ Len(m.packets2) \in Nat
      BY <1>1 DEF Writings
    <2>3. PICK n : n = Len(m.packets) + Len(m.packets2)
      OBVIOUS
    <2>4. n > 0
      BY <1>1, <2>3
    <2>5. n \in Nat
      BY <2>2, <2>3, Adding, Zenon
    <2> QED
      BY <2>1, <2>3, <2>4, <2>5
  <1>5. /\ b \in Seq(Units) /\ Len(b) = Len(P) + 2
        /\ b[1] = <<"chain", "chain">> /\ b[2] = <<"channel", m.channel>>
        /\ \A i \in 1..Len(b) : b[i][1] # "length"
    BY <1>2 DEF BodyOf, Headed, P
  <1>6. PICK u : u = <<"length", Len(P) + 2>>
    OBVIOUS
  <1>7. u \in Units
    BY <1>4, <1>6 DEF Units
  <1>8. /\ x \in Seq(Units) /\ Len(x) = Len(b) + 1 /\ x[1] = u
        /\ \A i \in 1..Len(b) : x[i + 1] = b[i]
    BY <1>3, <1>5, <1>6, <1>7
  <1>9. x[2] = b[1] /\ x[3] = b[2]
    BY <1>4, <1>5, <1>8
  <1>10. ASSUME NEW i \in 2..Len(x) PROVE x[i][1] # "length"
    <2>1. PICK j : j = i - 1
      OBVIOUS
    <2>2. j \in 1..Len(b) /\ i = j + 1
      BY <1>4, <1>5, <1>8, <2>1
    <2> QED
      BY <1>5, <1>8, <2>2
  <1>11. Len(x) \in Nat /\ Len(x) >= 4 /\ Len(x) - 1 = Len(P) + 2
    BY <1>4, <1>5, <1>8
  <1> QED
    BY <1>5, <1>6, <1>8, <1>9, <1>10, <1>11 DEF FrameOf, x

-------------------------------------------------------------------------------
(* The connector within the composition *)

(* The wire does what ChannelBuffer does, or leaves it alone. *)
LEMMA PathStep == [PathNext]_pathVars => [Next]_vars
  <1> SUFFICES ASSUME [PathNext]_pathVars PROVE [Next]_vars
    OBVIOUS
  <1>1. CASE recvRoutine \/ Take("marlinTo") \/ CopyPacket("marlinTo") \/ sendRoutine
    BY <1>1 DEF Next, sendRoutineConnection
  <1>2. CASE SendFrame
    BY <1>2 DEF Next, sendRoutineConnection, SendFrame
  <1>3. CASE Cut \/ recvRoutineConnection \/ UNCHANGED pathVars
    BY <1>3 DEF Cut, recvRoutineConnection, ReadLength, ReadBody, ReadFails, pathVars
  <1> QED
    BY <1>1, <1>2, <1>3 DEF PathNext

(* The connector in the composition behaves as ChannelBuffer says, so the  *)
(* theorems about ChannelBuffer hold of it.                                *)
THEOREM Implementation == PathSpec => Spec
  <1>1. PathInit => Init
    BY DEF PathInit
  <1> QED
    BY <1>1, PathStep, PTL DEF PathSpec, Spec

(* The inductive invariant of ChannelBuffer, and what it says of the       *)
(* buffers, the proposals and what is written, hold in the composition.    *)
THEOREM PathInvariance == PathSpec => []IInv
  BY Implementation, Invariance, PTL

(* What has been written has a packet. *)
LEMMA FramesAreFramable == IInv => Frames \in Seq(Framable)
  <1> SUFFICES ASSUME IInv PROVE Frames \in Seq(Framable)
    OBVIOUS
  <1>1. Frames \in Seq(Writings)
    BY DEF IInv, Typed, Frames, Queues
  <1>2. ASSUME NEW k \in 1..Len(Frames) PROVE Frames[k] \in Framable
    <2>1. PICK m : m = Frames[k]
      OBVIOUS
    <2>2. m \in Delivered /\ m \in Writings
      BY <1>1, <2>1 DEF IInv, OnTheWay, Frames, Queues, Delivered
    <2>3. m.from \in 1..Len(sent) /\ Len(Own(m)) = sent[m.from].size
      BY <2>2 DEF Delivered, WrittenInv
    <2>4. sent[m.from].size \in 1..MaxPackets
      <3>1. Sized
        BY Sizing DEF IInv
      <3> QED
        BY <2>3, <3>1 DEF Sized, SentType
    <2>5. Len(Own(m)) > 0
      BY <2>3, <2>4, BoundsAssumption
    <2>6. Len(m.packets) \in Nat /\ Len(m.packets2) \in Nat
      BY <2>2 DEF Writings
    <2>7. Len(m.packets) + Len(m.packets2) > 0
      <3>1. Len(Own(m)) = Len(m.packets) \/ Len(Own(m)) = Len(m.packets2)
        BY DEF Own
      <3> QED
        BY <2>5, <2>6, <3>1, Positive
    <2> QED
      BY <2>1, <2>2, <2>7 DEF Framable
  <1>3. PICK f : f = Frames
    OBVIOUS
  <1>4. f \in Seq(Writings) /\ \A k \in 1..Len(f) : f[k] \in Framable
    BY <1>1, <1>2, <1>3
  <1>5. f \in Seq(Framable)
    BY <1>4
  <1> QED
    BY <1>3, <1>5

(* Property JudgedAsFramed of DataPath.tla: a relay's spam filter judges   *)
(* the message that the sending connector wrote, whatever packets it has.  *)
THEOREM JudgingAsFramed == PathSpec => []JudgedAsFramed
  <1>1. IInv => JudgedAsFramed
    <2> SUFFICES ASSUME IInv, NEW k \in DOMAIN Frames
                 PROVE  LET m == Frames[k] IN
                        DecodeRequest(EncodeRequest(k, Body("chain", m)))
                          = [id |-> k, channel |-> m.channel, packets |-> m.packets,
                             packets2 |-> m.packets2]
      BY DEF JudgedAsFramed
    <2>1. Frames \in Seq(Framable)
      BY FramesAreFramable
    <2>2. k \in Nat /\ Frames[k] \in Writings
      <3>1. PICK f : f = Frames
        OBVIOUS
      <3>2. f \in Seq(Framable) /\ k \in DOMAIN f
        BY <2>1, <3>1
      <3>3. k \in Nat /\ f[k] \in Framable
        BY <3>2
      <3> QED
        BY <3>1, <3>3 DEF Framable
    <2> QED
      BY <2>2, DecodingRequests
  <1> QED
    BY <1>1, PathInvariance, PTL

-------------------------------------------------------------------------------
(* The frames in the stream *)

(* E is what the messages of F were encoded as. *)
EncodedAs(E, F) ==
    /\ E \in Seq(Seq(Units)) /\ Len(E) = Len(F)
    /\ \A k \in 1..Len(E) : FrameOf(E[k], F[k])

(* The frames of E lie one behind the other, each from its place in "at"   *)
(* on; places before 1 have been read.  The stream s has no more than them.*)
Placed(at, E, s) ==
    /\ at \in [1..(Len(E) + 1) -> Int]
    /\ \A k \in 1..Len(E) : at[k + 1] = at[k] + Len(E[k])
    /\ \A k, l \in 1..(Len(E) + 1) : k <= l => at[k] <= at[l]
    /\ \A k \in 1..Len(E) : \A j \in 1..Len(E[k]) :
         at[k] + j - 1 \in 1..Len(s) => s[at[k] + j - 1] = E[k][j]
    /\ Len(s) + 1 <= at[Len(E) + 1]

(* What is left of a stream after n units, and what comes before. *)
IsRest(s, n, t) ==
    /\ t \in Seq(Units) /\ Len(t) = Len(s) - n
    /\ \A i \in 1..Len(t) : t[i] = s[i + n]
IsBeginning(s, n, t) ==
    /\ t \in Seq(Units) /\ Len(t) = n
    /\ \A i \in 1..n : t[i] = s[i]

LEMMA LeavingTheRest ==
    ASSUME NEW s \in Seq(Units), NEW n \in 0..Len(s)
    PROVE  IsRest(s, n, SubSeq(s, n + 1, Len(s)))
  <1>1. Len(s) \in Nat /\ n \in Nat /\ n <= Len(s)
    OBVIOUS
  <1>2. PICK t : t = SubSeq(s, n + 1, Len(s))
    OBVIOUS
  <1>3. t \in Seq(Units)
    BY <1>1, <1>2
  <1>4. Len(t) = Len(s) - n
    BY <1>1, <1>2
  <1>5. ASSUME NEW i \in 1..Len(t) PROVE t[i] = s[i + n]
    BY <1>1, <1>2, <1>4
  <1> QED
    BY <1>2, <1>3, <1>4, <1>5 DEF IsRest

LEMMA Beginning ==
    ASSUME NEW s \in Seq(Units), NEW n \in 0..Len(s)
    PROVE  IsBeginning(s, n, SubSeq(s, 1, n))
  <1>1. Len(s) \in Nat /\ n \in Nat
    OBVIOUS
  <1> QED
    BY <1>1 DEF IsBeginning

(* Reading takes n units off the stream. *)
Moved(at, E, n) == [k \in 1..(Len(E) + 1) |-> at[k] - n]

LEMMA PlacedAfterReading ==
    ASSUME NEW E \in Seq(Seq(Units)), NEW s \in Seq(Units), NEW at, Placed(at, E, s),
           NEW n \in 0..Len(s), NEW t, IsRest(s, n, t)
    PROVE  Placed(Moved(at, E, n), E, t)
  <1>r. /\ t \in Seq(Units) /\ Len(t) = Len(s) - n
        /\ \A i \in 1..Len(t) : t[i] = s[i + n]
    BY DEF IsRest
  <1> DEFINE new == Moved(at, E, n)
  <1>1. PICK N \in Nat : N = Len(E)
    OBVIOUS
  <1>2. at \in [1..(N + 1) -> Int] /\ n \in Nat
    BY <1>1 DEF Placed
  <1>3. new \in [1..(N + 1) -> Int] /\ \A k \in 1..(N + 1) : new[k] = at[k] - n
    BY <1>1, <1>2 DEF Moved
  <1> HIDE DEF new
  <1>4. ASSUME NEW k \in 1..N PROVE new[k + 1] = new[k] + Len(E[k])
    <2>1. at[k + 1] = at[k] + Len(E[k]) /\ Len(E[k]) \in Nat
      BY <1>1 DEF Placed
    <2>2. PICK l : l = k + 1
      OBVIOUS
    <2>3. l \in 1..(N + 1) /\ k \in 1..(N + 1) /\ at[l] = at[k] + Len(E[k])
      BY <2>1, <2>2
    <2>4. new[l] = at[l] - n /\ new[k] = at[k] - n /\ at[l] \in Int /\ at[k] \in Int
      BY <1>2, <1>3, <2>3
    <2> QED
      BY <1>2, <2>1, <2>2, <2>3, <2>4
  <1>5. ASSUME NEW k \in 1..(N + 1), NEW l \in 1..(N + 1), k <= l PROVE new[k] <= new[l]
    <2>1. at[k] <= at[l]
      BY <1>1, <1>5 DEF Placed
    <2> QED
      BY <1>2, <1>3, <2>1
  <1>6. ASSUME NEW k \in 1..N, NEW j \in 1..Len(E[k]), new[k] + j - 1 \in 1..Len(t)
        PROVE  t[new[k] + j - 1] = E[k][j]
    <2>1. PICK i : i = new[k] + j - 1
      OBVIOUS
    <2>2. k \in 1..(N + 1) /\ at[k] \in Int /\ new[k] = at[k] - n
      BY <1>2, <1>3
    <2>3. j \in Nat /\ i \in 1..Len(t) /\ t[i] = s[i + n]
      <3>1. i \in 1..Len(t)
        BY <1>6, <2>1
      <3>2. t[i] = s[i + n]
        BY <1>r, <3>1
      <3>3. Len(E[k]) \in Nat
        BY <1>1
      <3>4. j \in Nat
        BY <3>3
      <3> QED
        BY <3>1, <3>2, <3>4
    <2>4. i + n = at[k] + j - 1 /\ i + n \in 1..Len(s)
      <3>1. PICK a : a = at[k]
        OBVIOUS
      <3>2. a \in Int /\ i = a - n + j - 1
        BY <2>1, <2>2, <3>1
      <3>3. i + n = a + j - 1
        BY <1>2, <2>3, <3>2
      <3>4. Len(s) \in Nat /\ Len(t) \in Nat /\ Len(t) = Len(s) - n
        BY <1>r
      <3>5. i + n \in 1..Len(s)
        BY <1>2, <2>3, <3>4
      <3> QED
        BY <3>1, <3>3, <3>5
    <2>5. s[at[k] + j - 1] = E[k][j]
      BY <1>1, <2>4 DEF Placed
    <2> QED
      BY <2>1, <2>3, <2>4, <2>5
  <1>7. Len(t) + 1 <= new[N + 1]
    <2>1. Len(s) + 1 <= at[N + 1]
      BY <1>1 DEF Placed
    <2>2. PICK l : l = N + 1
      OBVIOUS
    <2>3. l \in 1..(N + 1) /\ Len(s) + 1 <= at[l]
      BY <2>1, <2>2
    <2>4. new[l] = at[l] - n /\ at[l] \in Int
      BY <1>2, <1>3, <2>3
    <2>5. Len(s) \in Nat /\ Len(t) = Len(s) - n
      BY <1>r
    <2>6. Len(t) + 1 <= new[l]
      BY <1>2, <2>3, <2>4, <2>5
    <2> QED
      BY <2>2, <2>6
  <1> QED
    BY <1>1, <1>3, <1>4, <1>5, <1>6, <1>7 DEF Placed, new

(* A cut takes units off the end. *)
LEMMA PlacedAfterCut ==
    ASSUME NEW E \in Seq(Seq(Units)), NEW s \in Seq(Units), NEW at, Placed(at, E, s),
           NEW t \in Seq(Units), Len(t) <= Len(s), \A i \in 1..Len(t) : t[i] = s[i]
    PROVE  Placed(at, E, t)
  <1>1. Len(s) \in Nat /\ Len(t) \in Nat /\ Len(E) \in Nat
    OBVIOUS
  <1>2. ASSUME NEW k \in 1..Len(E), NEW j \in 1..Len(E[k]), at[k] + j - 1 \in 1..Len(t)
        PROVE  t[at[k] + j - 1] = E[k][j]
    <2>1. PICK i : i = at[k] + j - 1
      OBVIOUS
    <2>2. i \in 1..Len(t) /\ i \in 1..Len(s)
      BY <1>1, <1>2, <2>1
    <2>3. s[i] = E[k][j]
      BY <2>1, <2>2 DEF Placed
    <2> QED
      BY <2>1, <2>2, <2>3
  <1>3. Len(t) + 1 <= at[Len(E) + 1]
    <2>1. PICK a : a = at[Len(E) + 1]
      OBVIOUS
    <2>2. Len(s) + 1 <= a /\ a \in Int
      BY <1>1, <2>1 DEF Placed
    <2>3. Len(t) + 1 <= a
      BY <1>1, <2>2
    <2> QED
      BY <2>1, <2>3
  <1> QED
    BY <1>2, <1>3 DEF Placed

(* A new frame is placed behind the others, if nothing has been cut off. *)
Prolongs(new, at, G, t) ==
    /\ Placed(new, G, t)
    /\ \A k \in 1..Len(G) : new[k] = at[k]
    /\ new[Len(G) + 1] = Len(t) + 1

LEMMA PlacedAfterSending ==
    ASSUME NEW E \in Seq(Seq(Units)), NEW s \in Seq(Units), NEW at, Placed(at, E, s),
           at[Len(E) + 1] = Len(s) + 1, NEW e \in Seq(Units)
    PROVE  \E new : Prolongs(new, at, Append(E, e), s \o e)
  <1>1. PICK N \in Nat : N = Len(E)
    OBVIOUS
  <1>2. PICK t : t = s \o e
    OBVIOUS
  <1>3. PICK G : G = Append(E, e)
    OBVIOUS
  <1>4. /\ t \in Seq(Units) /\ Len(t) = Len(s) + Len(e)
        /\ \A i \in 1..Len(s) : t[i] = s[i]
        /\ \A i \in 1..Len(e) : t[Len(s) + i] = e[i]
    BY <1>2, Concatenating DEF Concatenated
  <1>5. /\ G \in Seq(Seq(Units)) /\ Len(G) = N + 1 /\ G[N + 1] = e
        /\ \A k \in 1..N : G[k] = E[k]
    BY <1>1, <1>3
  <1>6. /\ Len(s) \in Nat /\ Len(e) \in Nat /\ \A k \in 1..N : Len(E[k]) \in Nat
        /\ at \in [1..(N + 1) -> Int] /\ at[N + 1] = Len(s) + 1
    BY <1>1 DEF Placed
  <1> DEFINE new == [k \in 1..(N + 2) |-> IF k <= N + 1 THEN at[k] ELSE Len(t) + 1]
  <1>7. /\ new \in [1..(N + 2) -> Int]
        /\ \A k \in 1..(N + 1) : new[k] = at[k]
        /\ new[N + 2] = Len(t) + 1
    BY <1>4, <1>6
  <1> HIDE DEF new
  <1>8. ASSUME NEW k \in 1..(N + 1) PROVE new[k + 1] = new[k] + Len(G[k])
    <2>1. CASE k = N + 1
      BY <1>4, <1>5, <1>6, <1>7, <2>1
    <2>2. CASE k # N + 1
      <3>1. k \in 1..N
        BY <2>2
      <3>2. PICK l : l = k + 1
        OBVIOUS
      <3>3. l \in 1..(N + 1) /\ at[l] = at[k] + Len(E[k])
        BY <1>1, <3>1, <3>2 DEF Placed
      <3> QED
        BY <1>5, <1>7, <3>1, <3>2, <3>3
    <2> QED
      BY <2>1, <2>2
  <1>9. ASSUME NEW k \in 1..(N + 1) PROVE new[k] <= Len(s) + 1
    <2>1. at[k] <= at[N + 1]
      BY <1>1 DEF Placed
    <2> QED
      BY <1>6, <1>7, <2>1
  <1>10. ASSUME NEW k \in 1..(N + 2), NEW l \in 1..(N + 2), k <= l PROVE new[k] <= new[l]
    <2>1. CASE l \in 1..(N + 1)
      <3>1. k \in 1..(N + 1)
        BY <1>10, <2>1
      <3>2. at[k] <= at[l]
        BY <1>1, <1>10, <2>1, <3>1 DEF Placed
      <3> QED
        BY <1>7, <2>1, <3>1, <3>2
    <2>2. CASE l = N + 2 /\ k \in 1..(N + 1)
      <3>1. new[k] <= Len(s) + 1 /\ new[k] \in Int
        BY <1>7, <1>9, <2>2
      <3>2. new[l] = Len(t) + 1 /\ Len(t) = Len(s) + Len(e)
        BY <1>4, <1>7, <2>2
      <3> QED
        BY <1>6, <3>1, <3>2
    <2>3. CASE l = N + 2 /\ k = N + 2
      BY <1>7, <2>3
    <2> QED
      BY <2>1, <2>2, <2>3
  <1>11. ASSUME NEW k \in 1..(N + 1), NEW j \in 1..Len(G[k]), new[k] + j - 1 \in 1..Len(t)
         PROVE  t[new[k] + j - 1] = G[k][j]
    <2>1. PICK i : i = new[k] + j - 1
      OBVIOUS
    <2>2. CASE k = N + 1
      <3>1. new[k] = Len(s) + 1 /\ G[k] = e
        BY <1>5, <1>6, <1>7, <2>2
      <3>2. j \in 1..Len(e) /\ i = Len(s) + j
        BY <1>6, <2>1, <3>1
      <3> QED
        BY <1>4, <2>1, <3>1, <3>2
    <2>3. CASE k # N + 1
      <3>1. k \in 1..N /\ k \in 1..(N + 1)
        BY <2>3
      <3>2. G[k] = E[k] /\ new[k] = at[k] /\ at[k] \in Int /\ Len(E[k]) \in Nat
        BY <1>5, <1>6, <1>7, <3>1
      <3>3. j \in 1..Len(E[k]) /\ i = at[k] + j - 1 /\ i \in 1..Len(t)
        BY <1>11, <2>1, <3>2
      <3>4. at[k] + Len(E[k]) <= Len(s) + 1
        <4>1. PICK l : l = k + 1
          OBVIOUS
        <4>2. l \in 1..(N + 1) /\ at[l] = at[k] + Len(E[k])
          BY <1>1, <3>1, <4>1 DEF Placed
        <4>3. at[l] <= at[N + 1]
          BY <1>1, <4>2 DEF Placed
        <4> QED
          BY <1>6, <4>2, <4>3
      <3>5. i \in 1..Len(s)
        BY <1>4, <1>6, <3>2, <3>3, <3>4
      <3>6. s[i] = E[k][j]
        BY <1>1, <3>1, <3>3, <3>5 DEF Placed
      <3> QED
        BY <1>4, <2>1, <3>2, <3>5, <3>6
    <2> QED
      BY <2>2, <2>3
  <1>12. Len(G) + 1 = N + 2
    BY <1>5
  <1>13. Len(t) + 1 <= new[N + 2]
    BY <1>4, <1>6, <1>7
  <1>14. Placed(new, G, t)
    BY <1>5, <1>7, <1>8, <1>10, <1>11, <1>12, <1>13 DEF Placed
  <1>15. Prolongs(new, at, G, t)
    BY <1>5, <1>7, <1>12, <1>14 DEF Prolongs
  <1> QED
    BY <1>2, <1>3, <1>15

-------------------------------------------------------------------------------
(* Counting the lengths *)

LEMMA PlacesAreFinite ==
    ASSUME NEW s \in Seq(Units), NEW field
    PROVE  /\ IsFiniteSet(Places(s, field)) /\ Cardinality(Places(s, field)) \in Nat
           /\ Places(s, field) \subseteq 1..Len(s)
  <1>1. Places(s, field) \in SUBSET (1..Len(s))
    BY DEF Places
  <1>2. IsFiniteSet(1..Len(s))
    BY FS_Interval
  <1> QED
    BY <1>1, <1>2, FS_Subset, FS_CardinalityType

(* A frame has one length. *)
LEMMA CountAfterSending ==
    ASSUME NEW s \in Seq(Units), NEW e, NEW m, FrameOf(e, m)
    PROVE  Cardinality(Places(s \o e, "length")) = Cardinality(Places(s, "length")) + 1
  <1>1. PICK t : t = s \o e
    OBVIOUS
  <1>2. e \in Seq(Units) /\ Len(e) \in Nat /\ Len(e) >= 4 /\ e[1][1] = "length"
    BY DEF FrameOf
  <1>3. /\ t \in Seq(Units) /\ Len(t) = Len(s) + Len(e) /\ Len(s) \in Nat
        /\ \A i \in 1..Len(s) : t[i] = s[i]
        /\ \A i \in 1..Len(e) : t[Len(s) + i] = e[i]
    BY <1>1, <1>2, Concatenating DEF Concatenated
  <1>4. PICK l : l = Len(s) + 1
    OBVIOUS
  <1>5. ASSUME NEW i \in 1..Len(t)
        PROVE  t[i][1] = "length" <=> (i = l \/ (i \in 1..Len(s) /\ s[i][1] = "length"))
    <2>1. CASE i \in 1..Len(s)
      BY <1>3, <1>4, <2>1
    <2>2. CASE i = l
      <3>1. 1 \in 1..Len(e)
        BY <1>2
      <3>2. t[l] = e[1]
        BY <1>3, <1>4, <3>1
      <3> QED
        BY <1>2, <2>2, <3>2
    <2>3. CASE i \notin 1..Len(s) /\ i # l
      <3>1. PICK j : j = i - Len(s)
        OBVIOUS
      <3>2. j \in 2..Len(e) /\ i = Len(s) + j
        BY <1>2, <1>3, <1>4, <2>3, <3>1
      <3>3. t[i] = e[j] /\ e[j][1] # "length"
        BY <1>3, <3>2 DEF FrameOf
      <3> QED
        BY <2>3, <3>3
    <2> QED
      BY <2>1, <2>2, <2>3
  <1>6. l \in 1..Len(t) /\ 1..Len(s) \subseteq 1..Len(t) /\ l \notin 1..Len(s)
    BY <1>2, <1>3, <1>4
  <1>7. Places(t, "length") = Places(s, "length") \union {l}
    <2>1. DOMAIN t = 1..Len(t) /\ DOMAIN s = 1..Len(s)
      BY <1>3
    <2> QED
      BY <1>5, <1>6, <2>1 DEF Places
  <1>8. IsFiniteSet(Places(s, "length")) /\ l \notin Places(s, "length")
    BY <1>6, PlacesAreFinite
  <1> QED
    BY <1>1, <1>7, <1>8, FS_AddElement

(* What is left of a stream has the lengths that were not read. *)
LEMMA CountAfterReading ==
    ASSUME NEW s \in Seq(Units), NEW n \in 0..Len(s), NEW t, IsRest(s, n, t),
           NEW read, read = Places(s, "length") \intersect (1..n)
    PROVE  Cardinality(Places(t, "length")) = Cardinality(Places(s, "length") \ read)
  <1> DEFINE P == Places(s, "length") \ read
             Q == Places(t, "length")
             f == [i \in P |-> i - n]
  <1>r. /\ t \in Seq(Units) /\ Len(t) = Len(s) - n
        /\ \A i \in 1..Len(t) : t[i] = s[i + n]
    BY DEF IsRest
  <1>1. /\ Len(s) \in Nat /\ Len(t) \in Nat /\ n \in Nat /\ Len(t) = Len(s) - n
        /\ DOMAIN s = 1..Len(s) /\ DOMAIN t = 1..Len(t)
    BY <1>r
  <1>2. ASSUME NEW i PROVE i \in P <=> (i \in (n + 1)..Len(s) /\ s[i][1] = "length")
    BY <1>1 DEF Places
  <1>3. ASSUME NEW i PROVE i \in Q <=> (i \in 1..Len(t) /\ s[i + n][1] = "length")
    BY <1>1, <1>r DEF Places
  <1> HIDE DEF P, Q
  <1>4. ASSUME NEW i \in P PROVE f[i] = i - n /\ f[i] \in Q /\ i \in Int
    <2>1. i \in (n + 1)..Len(s) /\ s[i][1] = "length"
      BY <1>2
    <2>2. PICK j : j = i - n
      OBVIOUS
    <2>3. j \in 1..Len(t) /\ j + n = i
      BY <1>1, <2>1, <2>2
    <2>4. j \in Q
      BY <1>3, <2>1, <2>3
    <2> QED
      BY <2>1, <2>2, <2>4
  <1>5. ASSUME NEW j \in Q PROVE \E i \in P : f[i] = j
    <2>1. j \in 1..Len(t) /\ s[j + n][1] = "length"
      BY <1>3
    <2>2. PICK i : i = j + n
      OBVIOUS
    <2>3. i \in (n + 1)..Len(s) /\ i - n = j
      BY <1>1, <2>1, <2>2
    <2>4. i \in P
      BY <1>2, <2>1, <2>2, <2>3
    <2> QED
      BY <1>4, <2>3, <2>4
  <1>6. f \in [P -> Q]
    BY <1>4
  <1>7. \A i, j \in P : f[i] = f[j] => i = j
    BY <1>1, <1>4
  <1> HIDE DEF f
  <1>8. f \in Bijection(P, Q)
    BY <1>5, <1>6, <1>7, Fun_IsBij
  <1>9. ExistsBijection(P, Q)
    BY <1>8 DEF ExistsBijection
  <1>10. IsFiniteSet(P)
    <2>1. IsFiniteSet(Places(s, "length")) /\ P \in SUBSET Places(s, "length")
      BY PlacesAreFinite DEF P
    <2> QED
      BY <2>1, FS_Subset
  <1>11. Cardinality(Q) = Cardinality(P)
    BY <1>9, <1>10, FS_Bijection
  <1> QED
    BY <1>11 DEF P, Q

-------------------------------------------------------------------------------
(* The reader *)

(* The reader with the messages fw forwarded is at the place of the next   *)
(* frame, or within that frame, behind its length.                         *)
InStep(E, at, F, s, c, rd, fw) ==
    /\ EncodedAs(E, F) /\ Placed(at, E, s)
    /\ at[Len(fw) + 1] = IF rd.pc = "body" THEN 0 ELSE 1
    /\ ~c => at[Len(F) + 1] = Len(s) + 1
    /\ rd.pc = "body" => /\ Len(fw) + 1 \in 1..Len(F)
                         /\ rd.messageLen = Len(E[Len(fw) + 1]) - 1

(* As long as nothing is cut, every frame has been forwarded, or begun, or *)
(* its length is in the stream.                                            *)
Begun(rd) == IF rd.pc = "body" THEN 1 ELSE 0
Accounted(F, s, c, rd, fw) ==
    ~c => Len(fw) + Begun(rd) + Cardinality(Places(s, "length")) = Len(F)

(* Frames are forwarded in order, each as a message of its channel. *)
Forwardings == {Decode(body) : body \in Seq(Units)}
Forwards(F, fw) ==
    /\ fw \in Seq(Forwardings) /\ Len(fw) <= Len(F)
    /\ \A k \in 1..Len(fw) : fw[k].channel = F[k].channel

Following(F, s, c, rd, fw) ==
    /\ Forwards(F, fw) /\ Accounted(F, s, c, rd, fw)
    /\ IF rd.pc = "failed" THEN c ELSE \E E, at : InStep(E, at, F, s, c, rd, fw)

(* The inductive invariant of the wire: the reader follows the frames that *)
(* have been written, or has failed for a connection that was cut.         *)
WireInv ==
    /\ stream \in Seq(Units) /\ cut \in BOOLEAN
    /\ reader \in [pc : {"length", "body", "failed"}, messageLen : Nat]
    /\ Following(Frames, stream, cut, reader, forwarded)

(* Between two frames, the first unit is the length of the next one. *)
LEMMA LengthIsNext ==
    ASSUME NEW F \in Seq(Framable), NEW s \in Seq(Units), NEW c, NEW rd, NEW fw,
           NEW E, NEW at, InStep(E, at, F, s, c, rd, fw), Forwards(F, fw),
           rd.pc # "body", s # << >>
    PROVE  /\ Len(fw) + 1 \in 1..Len(F) /\ Len(E[Len(fw) + 1]) - 1 \in Nat
           /\ s[1] = <<"length", Len(E[Len(fw) + 1]) - 1>>
  <1>1. PICK r : r = Len(fw) + 1
    OBVIOUS
  <1>2. /\ EncodedAs(E, F) /\ Placed(at, E, s) /\ at[r] = 1
        /\ E \in Seq(Seq(Units)) /\ Len(E) = Len(F)
    BY <1>1 DEF InStep, EncodedAs
  <1>3. Len(F) \in Nat /\ Len(s) \in Nat /\ Len(s) > 0 /\ 1 \in 1..Len(s)
    OBVIOUS
  <1>4. r \in Nat /\ r >= 1 /\ r <= Len(F) + 1
    BY <1>1, <1>3 DEF Forwards
  <1>5. r # Len(F) + 1
    <2>1. Len(s) + 1 <= at[Len(F) + 1]
      BY <1>2 DEF Placed
    <2> QED
      BY <1>2, <1>3, <2>1
  <1>6. r \in 1..Len(F) /\ r \in 1..Len(E)
    BY <1>2, <1>3, <1>4, <1>5
  <1>7. FrameOf(E[r], F[r])
    BY <1>2, <1>6 DEF EncodedAs
  <1>8. 1 \in 1..Len(E[r]) /\ Len(E[r]) - 1 \in Nat /\ E[r][1] = <<"length", Len(E[r]) - 1>>
    BY <1>7 DEF FrameOf
  <1>9. at[r] + 1 - 1 = 1
    BY <1>2
  <1>10. s[at[r] + 1 - 1] = E[r][1]
    BY <1>2, <1>3, <1>6, <1>8, <1>9 DEF Placed
  <1>11. s[1] = E[r][1]
    BY <1>9, <1>10
  <1> QED
    BY <1>1, <1>6, <1>8, <1>11

(* Behind a length, the body that it is the length of follows. *)
LEMMA BodyIsNext ==
    ASSUME NEW F \in Seq(Framable), NEW s \in Seq(Units), NEW c, NEW rd, NEW fw,
           NEW E, NEW at, InStep(E, at, F, s, c, rd, fw), Forwards(F, fw),
           rd.pc = "body", Len(s) >= rd.messageLen
    PROVE  /\ Len(fw) + 1 \in 1..Len(F) /\ at[Len(fw) + 2] = rd.messageLen + 1
           /\ rd.messageLen \in 3..Len(s)
           /\ s[1] = <<"chain", "chain">> /\ s[2] = <<"channel", F[Len(fw) + 1].channel>>
           /\ \A i \in 1..rd.messageLen : s[i][1] # "length"
  <1>1. PICK r : r = Len(fw) + 1
    OBVIOUS
  <1>2. PICK L : L = rd.messageLen
    OBVIOUS
  <1>3. /\ EncodedAs(E, F) /\ Placed(at, E, s) /\ at[r] = 0
        /\ r \in 1..Len(F) /\ L = Len(E[r]) - 1
        /\ E \in Seq(Seq(Units)) /\ Len(E) = Len(F)
    BY <1>1, <1>2 DEF InStep, EncodedAs
  <1>4. FrameOf(E[r], F[r])
    BY <1>3 DEF EncodedAs
  <1>5. Len(s) \in Nat /\ Len(E[r]) \in Nat /\ L \in 3..Len(s) /\ Len(E[r]) = L + 1
    BY <1>2, <1>3, <1>4 DEF FrameOf
  <1>6. at[r + 1] = L + 1
    <2>1. at[r + 1] = at[r] + Len(E[r])
      BY <1>3 DEF Placed
    <2> QED
      BY <1>3, <1>5, <2>1
  <1>7. ASSUME NEW i \in 1..L PROVE s[i] = E[r][i + 1]
    <2>1. PICK j : j = i + 1
      OBVIOUS
    <2>2. j \in 1..Len(E[r]) /\ i \in 1..Len(s) /\ 0 + j - 1 = i
      BY <1>5, <2>1
    <2>3. at[r] + j - 1 = i
      BY <1>3, <2>2
    <2>4. s[at[r] + j - 1] = E[r][j]
      BY <1>3, <2>2, <2>3 DEF Placed
    <2> QED
      BY <2>1, <2>3, <2>4
  <1>8. s[1] = E[r][2] /\ s[2] = E[r][3]
    BY <1>5, <1>7
  <1>9. ASSUME NEW i \in 1..L PROVE s[i][1] # "length"
    <2>1. PICK j : j = i + 1
      OBVIOUS
    <2>2. j \in 2..Len(E[r])
      BY <1>5, <2>1
    <2> QED
      BY <1>4, <1>7, <2>1, <2>2 DEF FrameOf
  <1>10. Len(fw) + 2 = r + 1
    BY <1>1 DEF Forwards
  <1>11. s[1] = <<"chain", "chain">> /\ s[2] = <<"channel", F[r].channel>>
    BY <1>4, <1>8 DEF FrameOf
  <1> QED
    BY <1>1, <1>2, <1>3, <1>5, <1>6, <1>9, <1>10, <1>11

-------------------------------------------------------------------------------
(* The steps *)

LEMMA FollowingAfterSending ==
    ASSUME NEW F \in Seq(Framable), NEW s \in Seq(Units), NEW rd, NEW fw,
           Following(F, s, FALSE, rd, fw), NEW m \in Framable, NEW e, FrameOf(e, m)
    PROVE  Following(Append(F, m), s \o e, FALSE, rd, fw)
  <1>1. rd.pc # "failed"
    BY DEF Following
  <1>2. PICK E : \E at : InStep(E, at, F, s, FALSE, rd, fw)
    BY <1>1 DEF Following
  <1>3. PICK at : InStep(E, at, F, s, FALSE, rd, fw)
    BY <1>2
  <1>4. PICK N \in Nat : N = Len(F)
    OBVIOUS
  <1>5. PICK G : G = Append(F, m)
    OBVIOUS
  <1>6. PICK H : H = Append(E, e)
    OBVIOUS
  <1>7. PICK t : t = s \o e
    OBVIOUS
  <1>8. /\ E \in Seq(Seq(Units)) /\ Len(E) = N /\ e \in Seq(Units)
        /\ \A k \in 1..N : FrameOf(E[k], F[k])
    BY <1>3, <1>4 DEF InStep, EncodedAs, FrameOf
  <1>9. /\ G \in Seq(Framable) /\ Len(G) = N + 1 /\ G[N + 1] = m
        /\ \A k \in 1..N : G[k] = F[k]
    BY <1>4, <1>5
  <1>10. /\ H \in Seq(Seq(Units)) /\ Len(H) = N + 1 /\ H[N + 1] = e
         /\ \A k \in 1..N : H[k] = E[k]
    BY <1>6, <1>8
  <1>11. EncodedAs(H, G)
    <2>1. ASSUME NEW k \in 1..(N + 1) PROVE FrameOf(H[k], G[k])
      <3>1. CASE k = N + 1
        BY <1>9, <1>10, <3>1
      <3>2. CASE k # N + 1
        <4>1. k \in 1..N
          BY <3>2
        <4> QED
          BY <1>8, <1>9, <1>10, <4>1
      <3> QED
        BY <3>1, <3>2
    <2> QED
      BY <1>9, <1>10, <2>1 DEF EncodedAs
  <1>12. Placed(at, E, s) /\ at[Len(E) + 1] = Len(s) + 1
    BY <1>3, <1>4, <1>8 DEF InStep
  <1>p. PICK new : Prolongs(new, at, H, t)
    BY <1>6, <1>7, <1>8, <1>12, PlacedAfterSending
  <1>13. /\ Placed(new, H, t)
         /\ \A k \in 1..(N + 1) : new[k] = at[k]
         /\ new[N + 2] = Len(t) + 1
    BY <1>10, <1>p DEF Prolongs
  <1>14. Forwards(F, fw) /\ Len(fw) \in Nat /\ Len(fw) <= N
    BY <1>4 DEF Following, Forwards
  <1>15. InStep(H, new, G, t, FALSE, rd, fw)
    <2>1. PICK r : r = Len(fw) + 1
      OBVIOUS
    <2>2. r \in 1..(N + 1)
      BY <1>14, <2>1
    <2>3. new[r] = IF rd.pc = "body" THEN 0 ELSE 1
      BY <1>3, <1>13, <2>1, <2>2 DEF InStep
    <2>4. new[Len(G) + 1] = Len(t) + 1
      BY <1>9, <1>13
    <2>5. ASSUME rd.pc = "body"
          PROVE  r \in 1..Len(G) /\ rd.messageLen = Len(H[r]) - 1
      <3>1. r \in 1..N /\ rd.messageLen = Len(E[r]) - 1
        BY <1>3, <1>4, <2>1, <2>5 DEF InStep
      <3> QED
        BY <1>9, <1>10, <3>1
    <2> QED
      BY <1>11, <1>13, <2>1, <2>3, <2>4, <2>5 DEF InStep
  <1>16. Forwards(G, fw)
    BY <1>4, <1>9, <1>14 DEF Forwards
  <1>17. Accounted(G, t, FALSE, rd, fw)
    <2>1. PICK a : a = Cardinality(Places(s, "length"))
      OBVIOUS
    <2>2. a \in Nat
      BY <2>1, PlacesAreFinite
    <2>3. Cardinality(Places(t, "length")) = a + 1
      BY <1>7, <2>1, CountAfterSending
    <2>4. Len(fw) + Begun(rd) + a = N
      BY <1>4, <2>1 DEF Following, Accounted
    <2>5. Begun(rd) \in Nat
      BY DEF Begun
    <2>6. Len(fw) + Begun(rd) + (a + 1) = N + 1
      BY <1>14, <2>2, <2>4, <2>5
    <2> QED
      BY <1>9, <2>3, <2>6 DEF Accounted
  <1> QED
    BY <1>1, <1>5, <1>7, <1>15, <1>16, <1>17 DEF Following

LEMMA FollowingAfterCut ==
    ASSUME NEW F \in Seq(Framable), NEW s \in Seq(Units), NEW rd, NEW fw,
           Following(F, s, FALSE, rd, fw), NEW t \in Seq(Units),
           Len(t) <= Len(s), \A i \in 1..Len(t) : t[i] = s[i]
    PROVE  Following(F, t, TRUE, rd, fw)
  <1>1. PICK E : \E at : InStep(E, at, F, s, FALSE, rd, fw)
    BY DEF Following
  <1>2. PICK at : InStep(E, at, F, s, FALSE, rd, fw)
    BY <1>1
  <1>3. Placed(at, E, t)
    <2>1. E \in Seq(Seq(Units)) /\ Placed(at, E, s)
      BY <1>2 DEF InStep, EncodedAs
    <2> QED
      BY <2>1, PlacedAfterCut
  <1>4. InStep(E, at, F, t, TRUE, rd, fw)
    BY <1>2, <1>3 DEF InStep
  <1> QED
    BY <1>4 DEF Following, Accounted

LEMMA FollowingAfterLength ==
    ASSUME NEW F \in Seq(Framable), NEW s \in Seq(Units), NEW c, NEW rd, NEW fw,
           Following(F, s, c, rd, fw), rd.pc = "length", s # << >>,
           NEW new, new = [pc |-> "body",
                           messageLen |-> IF s[1][1] = "length" THEN s[1][2] ELSE 0]
    PROVE  Following(F, Tail(s), c, new, fw) /\ new.messageLen \in Nat
  <1>1. PICK E : \E at : InStep(E, at, F, s, c, rd, fw)
    BY DEF Following
  <1>2. PICK at : InStep(E, at, F, s, c, rd, fw)
    BY <1>1
  <1>3. PICK t : t = Tail(s)
    OBVIOUS
  <1>4. PICK r : r = Len(fw) + 1
    OBVIOUS
  <1>5. Forwards(F, fw) /\ Len(fw) \in Nat
    BY DEF Following, Forwards
  <1>6. /\ r \in 1..Len(F) /\ Len(E[r]) - 1 \in Nat
        /\ s[1] = <<"length", Len(E[r]) - 1>>
    BY <1>2, <1>4, <1>5, LengthIsNext
  <1>7. new.pc = "body" /\ new.messageLen = Len(E[r]) - 1
    BY <1>6
  <1>8. /\ t \in Seq(Units) /\ Len(t) = Len(s) - 1 /\ 1 \in 0..Len(s) /\ Len(s) \in Nat
        /\ \A i \in 1..Len(t) : t[i] = s[i + 1]
    BY <1>3
  <1>9. /\ E \in Seq(Seq(Units)) /\ Len(E) = Len(F) /\ Placed(at, E, s) /\ at[r] = 1
        /\ Len(F) \in Nat
    BY <1>2, <1>4 DEF InStep, EncodedAs
  <1>t. IsRest(s, 1, t)
    BY <1>8 DEF IsRest
  <1>10. Placed(Moved(at, E, 1), E, t)
    BY <1>8, <1>9, <1>t, PlacedAfterReading
  <1>11. InStep(E, Moved(at, E, 1), F, t, c, new, fw)
    <2>1. PICK mv : mv = Moved(at, E, 1)
      OBVIOUS
    <2>2. \A k \in 1..(Len(F) + 1) : mv[k] = at[k] - 1
      BY <1>9, <2>1 DEF Moved
    <2>3. mv[r] = 0
      <3>1. r \in 1..(Len(F) + 1)
        BY <1>6, <1>9
      <3>2. mv[r] = at[r] - 1
        BY <2>2, <3>1
      <3> QED
        BY <1>9, <3>2
    <2>4. ~c => mv[Len(F) + 1] = Len(t) + 1
      <3>1. mv[Len(F) + 1] = at[Len(F) + 1] - 1
        BY <1>9, <2>2
      <3>2. ~c => at[Len(F) + 1] = Len(s) + 1
        BY <1>2 DEF InStep
      <3> QED
        BY <1>8, <3>1, <3>2
    <2>5. EncodedAs(E, F)
      BY <1>2 DEF InStep
    <2> QED
      BY <1>4, <1>6, <1>7, <1>10, <2>1, <2>3, <2>4, <2>5 DEF InStep
  <1>12. Accounted(F, t, c, new, fw)
    <2> SUFFICES ASSUME ~c
                 PROVE  Len(fw) + Begun(new) + Cardinality(Places(t, "length")) = Len(F)
      BY DEF Accounted
    <2>1. PICK P : P = Places(s, "length")
      OBVIOUS
    <2>2. 1 \in P /\ IsFiniteSet(P) /\ Cardinality(P) \in Nat
      <3>1. 1 \in DOMAIN s /\ s[1][1] = "length"
        BY <1>6, <1>8
      <3>2. 1 \in P
        BY <2>1, <3>1 DEF Places
      <3> QED
        BY <2>1, <3>2, PlacesAreFinite
    <2>3. P \intersect (1..1) = {1}
      BY <2>2
    <2>4. Cardinality(Places(t, "length")) = Cardinality(P \ {1})
      BY <1>8, <1>t, <2>1, <2>3, CountAfterReading
    <2>5. Cardinality(P \ {1}) = Cardinality(P) - 1
      BY <2>2, FS_RemoveElement
    <2>6. Len(fw) + 0 + Cardinality(P) = Len(F)
      BY <2>1 DEF Following, Accounted, Begun
    <2>7. Begun(new) = 1
      BY <1>7 DEF Begun
    <2> QED
      BY <1>5, <2>2, <2>4, <2>5, <2>6, <2>7
  <1>13. Following(F, t, c, new, fw)
    BY <1>5, <1>7, <1>11, <1>12 DEF Following
  <1> QED
    BY <1>3, <1>6, <1>7, <1>13

LEMMA FollowingAfterBody ==
    ASSUME NEW F \in Seq(Framable), NEW s \in Seq(Units), NEW c, NEW rd, NEW fw,
           Following(F, s, c, rd, fw), rd.pc = "body", Len(s) >= rd.messageLen,
           NEW body, body = SubSeq(s, 1, rd.messageLen),
           NEW t, t = SubSeq(s, rd.messageLen + 1, Len(s)),
           NEW new, new = [pc |-> "length", messageLen |-> 0]
    PROVE  /\ Len(body) > 2 /\ body[1] = <<"chain", "chain">> /\ t \in Seq(Units)
           /\ Following(F, t, c, new, Append(fw, Decode(body)))
  <1>1. PICK E : \E at : InStep(E, at, F, s, c, rd, fw)
    BY DEF Following
  <1>2. PICK at : InStep(E, at, F, s, c, rd, fw)
    BY <1>1
  <1>3. PICK L : L = rd.messageLen
    OBVIOUS
  <1>4. PICK r : r = Len(fw) + 1
    OBVIOUS
  <1>5. Forwards(F, fw) /\ Len(fw) \in Nat /\ Len(s) \in Nat /\ Len(F) \in Nat
    BY DEF Following, Forwards
  <1>6. /\ r \in 1..Len(F) /\ at[Len(fw) + 2] = L + 1 /\ L \in 3..Len(s)
        /\ s[1] = <<"chain", "chain">> /\ s[2] = <<"channel", F[r].channel>>
        /\ \A i \in 1..L : s[i][1] # "length"
    BY <1>2, <1>3, <1>4, <1>5, BodyIsNext
  <1>7. at[r + 1] = L + 1
    <2>1. r + 1 = Len(fw) + 2
      BY <1>4, <1>5
    <2> QED
      BY <1>6, <2>1
  <1>l. L \in 0..Len(s) /\ L \in Nat /\ L > 2
    BY <1>5, <1>6
  <1>8. /\ body \in Seq(Units) /\ Len(body) = L /\ body[1] = s[1] /\ body[2] = s[2]
    <2>1. IsBeginning(s, L, body)
      BY <1>3, <1>l, Beginning
    <2>2. 1 \in 1..L /\ 2 \in 1..L
      BY <1>l
    <2> QED
      BY <2>1, <2>2 DEF IsBeginning
  <1>t. IsRest(s, L, t)
    <2>1. t = SubSeq(s, L + 1, Len(s))
      BY <1>3
    <2> QED
      BY <1>l, <2>1, LeavingTheRest
  <1>9. t \in Seq(Units) /\ Len(t) = Len(s) - L /\ Len(t) \in Nat
    BY <1>t DEF IsRest
  <1>10. PICK d : d = Decode(body)
    OBVIOUS
  <1>11. d \in Forwardings /\ d.channel = F[r].channel
    <2>1. d.channel = body[2][2]
      BY <1>10 DEF Decode
    <2>2. body[2][2] = F[r].channel
      BY <1>6, <1>8
    <2>3. d \in Forwardings
      BY <1>8, <1>10 DEF Forwardings
    <2> QED
      BY <2>1, <2>2, <2>3
  <1>12. PICK gw : gw = Append(fw, d)
    OBVIOUS
  <1>13. /\ gw \in Seq(Forwardings) /\ Len(gw) = r /\ gw[r] = d
         /\ \A k \in 1..Len(fw) : gw[k] = fw[k]
    BY <1>4, <1>5, <1>11, <1>12 DEF Forwards
  <1>14. Forwards(F, gw)
    <2>1. ASSUME NEW k \in 1..r PROVE gw[k].channel = F[k].channel
      <3>1. CASE k = r
        BY <1>11, <1>13, <3>1
      <3>2. CASE k # r
        <4>1. k \in 1..Len(fw)
          BY <1>4, <1>5, <3>2
        <4> QED
          BY <1>5, <1>13, <4>1 DEF Forwards
      <3> QED
        BY <3>1, <3>2
    <2> QED
      BY <1>6, <1>13, <2>1 DEF Forwards
  <1>15. /\ E \in Seq(Seq(Units)) /\ Len(E) = Len(F) /\ Placed(at, E, s) /\ EncodedAs(E, F)
    BY <1>2 DEF InStep, EncodedAs
  <1>16. Placed(Moved(at, E, L), E, t)
    BY <1>l, <1>t, <1>15, PlacedAfterReading
  <1>17. new.pc = "length"
    OBVIOUS
  <1>18. InStep(E, Moved(at, E, L), F, t, c, new, gw)
    <2>1. PICK mv : mv = Moved(at, E, L)
      OBVIOUS
    <2>2. \A k \in 1..(Len(F) + 1) : mv[k] = at[k] - L
      BY <1>15, <2>1 DEF Moved
    <2>3. mv[r + 1] = 1
      <3>1. PICK k : k = r + 1
        OBVIOUS
      <3>2. k \in 1..(Len(F) + 1) /\ at[k] = L + 1
        BY <1>5, <1>6, <1>7, <3>1
      <3> QED
        BY <1>l, <2>2, <3>1, <3>2
    <2>4. ~c => mv[Len(F) + 1] = Len(t) + 1
      <3>1. PICK a : a = at[Len(F) + 1]
        OBVIOUS
      <3>2. mv[Len(F) + 1] = a - L
        BY <1>5, <2>2, <3>1
      <3>3. ~c => a = Len(s) + 1
        BY <1>2, <3>1 DEF InStep
      <3>4. a = Len(s) + 1 => a - L = Len(t) + 1
        <4>1. PICK x : x = Len(s)
          OBVIOUS
        <4>2. PICK y : y = Len(t)
          OBVIOUS
        <4>3. x \in Nat /\ y = x - L
          BY <1>5, <1>9, <4>1, <4>2
        <4>4. a = x + 1 => a - L = y + 1
          BY <1>l, <4>3
        <4> QED
          BY <4>1, <4>2, <4>4
      <3> QED
        BY <3>2, <3>3, <3>4
    <2> QED
      BY <1>13, <1>15, <1>16, <1>17, <2>1, <2>3, <2>4 DEF InStep
  <1>19. Accounted(F, t, c, new, gw)
    <2> SUFFICES ASSUME ~c
                 PROVE  Len(gw) + Begun(new) + Cardinality(Places(t, "length")) = Len(F)
      BY DEF Accounted
    <2>1. PICK P : P = Places(s, "length")
      OBVIOUS
    <2>2. Cardinality(P) \in Nat
      BY <2>1, PlacesAreFinite
    <2>3. P \intersect (1..L) = {}
      BY <1>6, <2>1 DEF Places
    <2>4. Cardinality(Places(t, "length")) = Cardinality(P)
      <3>1. Cardinality(Places(t, "length")) = Cardinality(P \ {})
        BY <1>l, <1>t, <2>1, <2>3, CountAfterReading
      <3>2. P \ {} = P
        OBVIOUS
      <3> QED
        BY <3>1, <3>2
    <2>5. Len(fw) + 1 + Cardinality(P) = Len(F)
      BY <2>1 DEF Following, Accounted, Begun
    <2>6. Begun(new) = 0
      BY <1>17 DEF Begun
    <2>7. r + 0 + Cardinality(P) = Len(F)
      BY <1>4, <1>5, <2>2, <2>5
    <2> QED
      BY <1>13, <2>4, <2>6, <2>7
  <1>20. Following(F, t, c, new, gw)
    BY <1>14, <1>17, <1>18, <1>19 DEF Following
  <1>21. Len(body) > 2 /\ body[1] = <<"chain", "chain">>
    BY <1>6, <1>8, <1>l
  <1> QED
    BY <1>9, <1>10, <1>12, <1>20, <1>21

(* A frame more is on the wire. *)
LEMMA StepSendFrame ==
    ASSUME IInv, IInv', WireInv, SendFrame
    PROVE  WireInv'
  <1>1. Frames \in Seq(Framable) /\ Frames' \in Seq(Framable)
    <2>1. Frames \in Seq(Framable)
      BY FramesAreFramable
    <2>2. (Frames \in Seq(Framable))'
      BY FramesAreFramable, PTL
    <2>3. Framable' = Framable
      BY DEF Framable, Writings, Stored, Packets, Msgs
    <2> QED
      BY <2>1, <2>2, <2>3
  <1>2. /\ ~cut /\ cut' = cut /\ reader' = reader /\ forwarded' = forwarded
        /\ stream' = stream \o Encode("chain", Copied("marlinTo"))
    BY DEF SendFrame
  <1>3. PICK m : m = Copied("marlinTo")
    OBVIOUS
  <1>4. Frames' = Append(Frames, m)
    <2>1. written' = [written EXCEPT !["marlinTo"] = Append(@, m)]
      BY <1>3 DEF SendFrame, Write
    <2>2. written \in [Queues -> Seq(Writings)] /\ "marlinTo" \in Queues
      BY DEF IInv, Typed, Queues
    <2> QED
      BY <2>1, <2>2 DEF Frames
  <1>5. m \in Framable
    <2>1. PICK f : f = Frames
      OBVIOUS
    <2>2. PICK g : g = Frames'
      OBVIOUS
    <2>3. f \in Seq(Framable) /\ g \in Seq(Framable) /\ g = Append(f, m)
      BY <1>1, <1>4, <2>1, <2>2
    <2>4. Len(f) \in Nat /\ Len(g) = Len(f) + 1 /\ g[Len(f) + 1] = m
      BY <2>3
    <2>5. Len(f) + 1 \in 1..Len(g)
      BY <2>4
    <2> QED
      BY <2>3, <2>4, <2>5
  <1>6. PICK e : e = Encode("chain", m)
    OBVIOUS
  <1>7. FrameOf(e, m) /\ e \in Seq(Units)
    BY <1>5, <1>6, Framing DEF FrameOf
  <1>8. /\ stream \in Seq(Units) /\ cut = FALSE
        /\ Following(Frames, stream, FALSE, reader, forwarded)
    BY <1>2 DEF WireInv
  <1>9. Following(Append(Frames, m), stream \o e, FALSE, reader, forwarded)
    BY <1>1, <1>5, <1>7, <1>8, FollowingAfterSending
  <1>10. stream \o e \in Seq(Units)
    BY <1>7, <1>8
  <1>11. stream' = stream \o e /\ cut' = FALSE
    BY <1>2, <1>3, <1>6, <1>8
  <1>12. Following(Frames', stream', cut', reader', forwarded')
    BY <1>2, <1>4, <1>9, <1>11
  <1> QED
    BY <1>2, <1>10, <1>11, <1>12 DEF WireInv

LEMMA StepCut ==
    ASSUME IInv, WireInv, Cut
    PROVE  WireInv'
  <1>1. Frames \in Seq(Framable) /\ Frames' = Frames
    BY FramesAreFramable DEF Cut, vars, Frames
  <1>2. /\ cut = FALSE /\ cut' = TRUE /\ reader' = reader /\ forwarded' = forwarded
        /\ stream \in Seq(Units) /\ Following(Frames, stream, FALSE, reader, forwarded)
    BY DEF Cut, WireInv
  <1>3. PICK n \in 0..Len(stream) : stream' = SubSeq(stream, 1, n)
    BY DEF Cut
  <1>4. IsBeginning(stream, n, stream')
    BY <1>2, <1>3, Beginning
  <1>5. PICK t : t = stream'
    OBVIOUS
  <1>6. t \in Seq(Units) /\ Len(t) <= Len(stream) /\ \A i \in 1..Len(t) : t[i] = stream[i]
    <2>1. Len(stream) \in Nat /\ n <= Len(stream)
      BY <1>2
    <2> QED
      BY <1>4, <1>5, <2>1 DEF IsBeginning
  <1>7. Following(Frames, t, TRUE, reader, forwarded)
    BY <1>1, <1>2, <1>6, FollowingAfterCut
  <1>8. Following(Frames', stream', cut', reader', forwarded')
    BY <1>1, <1>2, <1>5, <1>7
  <1>9. reader' \in [pc : {"length", "body", "failed"}, messageLen : Nat]
    BY <1>2 DEF WireInv
  <1> QED
    BY <1>2, <1>5, <1>6, <1>8, <1>9 DEF WireInv

LEMMA StepReadLength ==
    ASSUME IInv, WireInv, ReadLength
    PROVE  WireInv'
  <1>1. Frames \in Seq(Framable) /\ Frames' = Frames
    BY FramesAreFramable DEF ReadLength, vars, Frames
  <1>2. /\ reader.pc = "length" /\ stream # << >> /\ cut' = cut /\ forwarded' = forwarded
        /\ stream' = Tail(stream)
    BY DEF ReadLength
  <1>3. PICK new : new = [pc |-> "body",
                          messageLen |-> IF stream[1][1] = "length" THEN stream[1][2] ELSE 0]
    OBVIOUS
  <1>4. reader' = new
    BY <1>3 DEF ReadLength
  <1>5. stream \in Seq(Units) /\ Following(Frames, stream, cut, reader, forwarded)
    BY DEF WireInv
  <1>6. Following(Frames, Tail(stream), cut, new, forwarded) /\ new.messageLen \in Nat
    BY <1>1, <1>2, <1>3, <1>5, FollowingAfterLength
  <1>7. Following(Frames', stream', cut', reader', forwarded')
    BY <1>1, <1>2, <1>4, <1>6
  <1>8. new \in [pc : {"length", "body", "failed"}, messageLen : Nat]
    BY <1>3, <1>6
  <1>9. stream' \in Seq(Units)
    BY <1>2, <1>5
  <1>10. cut' \in BOOLEAN
    BY <1>2 DEF WireInv
  <1> QED
    BY <1>4, <1>7, <1>8, <1>9, <1>10 DEF WireInv

LEMMA StepReadBody ==
    ASSUME IInv, WireInv, ReadBody
    PROVE  WireInv'
  <1>1. Frames \in Seq(Framable) /\ Frames' = Frames
    BY FramesAreFramable DEF ReadBody, vars, Frames
  <1>2. reader.pc = "body" /\ Len(stream) >= reader.messageLen /\ cut' = cut
    BY DEF ReadBody
  <1>3. PICK body : body = SubSeq(stream, 1, reader.messageLen)
    OBVIOUS
  <1>4. PICK t : t = SubSeq(stream, reader.messageLen + 1, Len(stream))
    OBVIOUS
  <1>5. PICK new : new = [pc |-> "length", messageLen |-> 0]
    OBVIOUS
  <1>6. /\ forwarded' = IF Len(body) > 2 /\ body[1] = <<"chain", "chain">>
                        THEN Append(forwarded, Decode(body)) ELSE forwarded
        /\ stream' = t /\ reader' = new
    BY <1>3, <1>4, <1>5 DEF ReadBody
  <1>7. stream \in Seq(Units) /\ Following(Frames, stream, cut, reader, forwarded)
    BY DEF WireInv
  <1>8. /\ Len(body) > 2 /\ body[1] = <<"chain", "chain">> /\ t \in Seq(Units)
        /\ Following(Frames, t, cut, new, Append(forwarded, Decode(body)))
    BY <1>1, <1>2, <1>3, <1>4, <1>5, <1>7, FollowingAfterBody
  <1>9. forwarded' = Append(forwarded, Decode(body))
    BY <1>6, <1>8
  <1>10. Following(Frames', stream', cut', reader', forwarded')
    BY <1>1, <1>2, <1>6, <1>8, <1>9
  <1>11. new \in [pc : {"length", "body", "failed"}, messageLen : Nat]
    BY <1>5
  <1>12. cut' \in BOOLEAN
    BY <1>2 DEF WireInv
  <1> QED
    BY <1>6, <1>8, <1>10, <1>11, <1>12 DEF WireInv

LEMMA StepReadFails ==
    ASSUME WireInv, ReadFails
    PROVE  WireInv'
  <1>1. /\ Frames' = Frames /\ stream' = stream /\ cut' = cut /\ forwarded' = forwarded
        /\ reader' = [pc |-> "failed", messageLen |-> 0] /\ cut
    BY DEF ReadFails, vars, Frames
  <1>2. Forwards(Frames, forwarded) /\ stream \in Seq(Units) /\ cut \in BOOLEAN
    BY DEF WireInv, Following
  <1>3. reader' \in [pc : {"length", "body", "failed"}, messageLen : Nat] /\ reader'.pc = "failed"
    BY <1>1
  <1>4. Following(Frames', stream', cut', reader', forwarded')
    BY <1>1, <1>2, <1>3 DEF Following, Accounted
  <1> QED
    BY <1>1, <1>2, <1>3, <1>4 DEF WireInv

(* What the connector does beside writing frames leaves the wire alone. *)
LEMMA StepAside ==
    ASSUME WireInv, Frames' = Frames, UNCHANGED wireVars
    PROVE  WireInv'
  BY DEF WireInv, wireVars

LEMMA AsideWritesNothing ==
    ASSUME IInv, recvRoutine \/ Take("marlinTo") \/ CopyPacket("marlinTo") \/ sendRoutine
    PROVE  Frames' = Frames
  <1>1. CASE recvRoutine
    <2>1. written' = written
      BY <1>1 DEF recvRoutine, RecvFirst, RecvNext, AppendPacket, ServiceIgnored,
                  ServiceSelectSend, ServiceSelectDefault, ServiceProposal, RecvDrop, RecvPut
    <2> QED
      BY <2>1 DEF Frames
  <1>2. CASE Take("marlinTo") \/ CopyPacket("marlinTo")
    BY <1>2 DEF Take, CopyPacket, Frames
  <1>3. CASE Take("marlinFrom") \/ CopyPacket("marlinFrom") \/ Check
    BY <1>3 DEF Take, CopyPacket, Check, Frames
  <1>4. CASE Write("marlinFrom")
    <2>1. written \in [Queues -> Seq(Writings)] /\ "marlinTo" # "marlinFrom"
      BY DEF IInv, Typed
    <2>2. written' = [written EXCEPT !["marlinFrom"] = Append(@, Copied("marlinFrom"))]
      BY <1>4 DEF Write
    <2> QED
      BY <2>1, <2>2 DEF Frames
  <1> QED
    BY <1>1, <1>2, <1>3, <1>4 DEF sendRoutine

LEMMA WireInitially == PathInit => WireInv
  <1> SUFFICES ASSUME PathInit PROVE WireInv
    OBVIOUS
  <1>1. /\ stream = << >> /\ cut = FALSE /\ forwarded = << >>
        /\ reader = [pc |-> "length", messageLen |-> 0] /\ Frames = << >>
    BY DEF PathInit, Init, Frames, Queues
  <1>2. PICK at : at = [k \in 1..1 |-> 1]
    OBVIOUS
  <1>3. at \in [1..1 -> Int] /\ at[1] = 1
    BY <1>2
  <1>4. << >> \in Seq(Units) /\ << >> \in Seq(Seq(Units)) /\ << >> \in Seq(Forwardings)
    OBVIOUS
  <1>5. Placed(at, << >>, << >>)
    BY <1>3 DEF Placed
  <1>6. EncodedAs(<< >>, << >>)
    BY <1>4 DEF EncodedAs
  <1>7. InStep(<< >>, at, Frames, stream, cut, reader, forwarded)
    <2>1. reader.pc = "length" /\ Len(Frames) = 0 /\ Len(forwarded) = 0 /\ Len(stream) = 0
      BY <1>1
    <2> QED
      BY <1>1, <1>3, <1>5, <1>6, <2>1 DEF InStep
  <1>8. Forwards(Frames, forwarded)
    BY <1>1, <1>4 DEF Forwards
  <1>9. Accounted(Frames, stream, cut, reader, forwarded)
    <2>1. Places(<< >>, "length") = {}
      BY DEF Places
    <2>2. Cardinality(Places(stream, "length")) = 0
      BY <1>1, <2>1, FS_EmptySet
    <2>3. Begun(reader) = 0 /\ Len(forwarded) = 0 /\ Len(Frames) = 0
      BY <1>1 DEF Begun
    <2> QED
      BY <2>2, <2>3 DEF Accounted
  <1>10. Following(Frames, stream, cut, reader, forwarded)
    BY <1>1, <1>7, <1>8, <1>9 DEF Following
  <1> QED
    BY <1>1, <1>4, <1>10 DEF WireInv

LEMMA WireStep == IInv /\ IInv' /\ WireInv /\ [PathNext]_pathVars => WireInv'
  <1> SUFFICES ASSUME IInv, IInv', WireInv, [PathNext]_pathVars PROVE WireInv'
    OBVIOUS
  <1>1. CASE /\ recvRoutine \/ Take("marlinTo") \/ CopyPacket("marlinTo") \/ sendRoutine
             /\ UNCHANGED wireVars
    BY <1>1, StepAside, AsideWritesNothing
  <1>2. CASE SendFrame
    BY <1>2, StepSendFrame
  <1>3. CASE Cut
    BY <1>3, StepCut
  <1>4. CASE ReadLength
    BY <1>4, StepReadLength
  <1>5. CASE ReadBody
    BY <1>5, StepReadBody
  <1>6. CASE ReadFails
    BY <1>6, StepReadFails
  <1>7. CASE UNCHANGED pathVars
    BY <1>7, StepAside DEF pathVars, vars, Frames
  <1> QED
    BY <1>1, <1>2, <1>3, <1>4, <1>5, <1>6, <1>7 DEF PathNext, recvRoutineConnection

(* In every state, what has not been read is the frames that have not been *)
(* forwarded, one behind the other.                                        *)
THEOREM WireInvariance == PathSpec => []WireInv
  <1>1. PathInit => WireInv
    BY WireInitially
  <1>2. IInv /\ IInv' /\ WireInv /\ [PathNext]_pathVars => WireInv'
    BY WireStep
  <1> QED
    BY <1>1, <1>2, PathInvariance, PTL DEF PathSpec

(* Property ForwardedInStep of DataPath.tla: the receiving connector is    *)
(* always at a frame or within one, forwards the frames in order and each  *)
(* as a message of its channel, and leaves none out until the connection   *)
(* is cut, wherever that is.                                               *)
THEOREM ForwardingInStep == PathSpec => []ForwardedInStep
  <1>1. IInv /\ WireInv => ForwardedInStep
    <2> SUFFICES ASSUME IInv, WireInv PROVE ForwardedInStep
      OBVIOUS
    <2>1. Frames \in Seq(Framable) /\ stream \in Seq(Units)
      BY FramesAreFramable DEF WireInv
    <2>2. /\ Forwards(Frames, forwarded)
          /\ Accounted(Frames, stream, cut, reader, forwarded)
          /\ reader.pc = "length" => \E E, at : InStep(E, at, Frames, stream, cut, reader, forwarded)
      BY DEF WireInv, Following
    <2>3. Len(forwarded) <= Len(Frames)
      BY <2>2 DEF Forwards
    <2>4. \A k \in DOMAIN forwarded : forwarded[k].channel = Frames[k].channel
      BY <2>2 DEF Forwards
    <2>5. ASSUME reader.pc = "length", stream # << >> PROVE stream[1][1] = "length"
      <3>1. PICK E : \E at : InStep(E, at, Frames, stream, cut, reader, forwarded)
        BY <2>2, <2>5
      <3>2. PICK at : InStep(E, at, Frames, stream, cut, reader, forwarded)
        BY <3>1
      <3>3. stream[1] = <<"length", Len(E[Len(forwarded) + 1]) - 1>>
        BY <2>1, <2>2, <2>5, <3>2, LengthIsNext
      <3> QED
        BY <3>3
    <2>6. ~cut => Len(forwarded) + Begun(reader) + Cardinality(Places(stream, "length"))
                    = Len(Frames)
      BY <2>2 DEF Accounted
    <2> QED
      BY <2>3, <2>4, <2>5, <2>6 DEF ForwardedInStep, Begun
  <1> QED
    BY <1>1, WireInvariance, PathInvariance, PTL
===============================================================================
