------------------------- MODULE SecretStream_proofs -------------------------
(***************************************************************************)
(* Proofs about SecretStream, for all sets of writers, sizes and bounds.   *)
(***************************************************************************)
EXTENDS SecretStream, SequenceTheorems, TLAPS

WriterType == [pc : {"idle", "lock", "seal", "incr", "write"},
               data : Seq(Bytes), frame : Seq(Bytes), nonce : Nonces]
FrameType == [nonce : Nonces, bytes : Seq(Bytes), whole : BOOLEAN]

(* The writers that are beyond Lock, and those between Seal and IncrNonce. *)
Busy(w) == writer[w].pc \in {"seal", "incr", "write"}
Incr == \E w \in Writers : writer[w].pc = "incr"

(* The mutex lets one writer in at a time. *)
Exclusive == \A v, w \in Writers : Busy(v) /\ Busy(w) => v = w

(* The nonces are used in order, and sendNonce is the next one, except     *)
(* where it has just been used.                                            *)
Counted ==
    /\ \A i \in DOMAIN nonces : nonces[i] = i - 1
    /\ Len(nonces) = sendNonce + (IF Incr THEN 1 ELSE 0)

(* What is written, or is going to be, has an earlier nonce.               *)
Used ==
    /\ \A w \in Writers : /\ writer[w].pc = "incr" => writer[w].nonce = sendNonce
                          /\ writer[w].pc = "write" => writer[w].nonce + 1 = sendNonce
    /\ \A k \in DOMAIN wire : wire[k].nonce < sendNonce
    /\ recvNonce <= sendNonce

IInv == TypeOK /\ Exclusive /\ Counted /\ Used

-------------------------------------------------------------------------------
(* What the operators on sequences return *)

LEMMA FrontProperties ==
    ASSUME NEW S, NEW s \in Seq(S), NEW n \in Nat
    PROVE  /\ Front(s, n) \in Seq(S)
           /\ Len(Front(s, n)) = Smaller(n, Len(s))
           /\ \A i \in 1..Smaller(n, Len(s)) : Front(s, n)[i] = s[i]
  <1>1. Len(s) \in Nat /\ \A i \in 1..Len(s) : s[i] \in S
    BY LenProperties
  <1>2. Smaller(n, Len(s)) \in 0..Len(s)
    BY <1>1 DEF Smaller
  <1> QED
    BY <1>1, <1>2, SubSeqProperties DEF Front

LEMMA RestProperties ==
    ASSUME NEW S, NEW s \in Seq(S), NEW n \in 0..Len(s)
    PROVE  /\ Rest(s, n) \in Seq(S)
           /\ Len(Rest(s, n)) = Len(s) - n
           /\ \A i \in 1..(Len(s) - n) : Rest(s, n)[i] = s[n + i]
  <1>1. Len(s) \in Nat /\ \A i \in 1..Len(s) : s[i] \in S
    BY LenProperties
  <1>2. \A i \in (n + 1)..Len(s) : s[i] \in S
    BY <1>1
  <1>3. n + 1 \in Int /\ Len(s) \in Int
    BY <1>1
  <1>4. /\ SubSeq(s, n + 1, Len(s)) \in Seq(S)
        /\ Len(SubSeq(s, n + 1, Len(s))) = IF n + 1 <= Len(s) THEN Len(s) - (n + 1) + 1 ELSE 0
        /\ \A i \in 1..(Len(s) - (n + 1) + 1) : SubSeq(s, n + 1, Len(s))[i] = s[n + 1 + i - 1]
    BY <1>2, <1>3, SubSeqProperties
  <1> QED
    BY <1>1, <1>4 DEF Rest

(* What is written in a call, byte by byte. *)
LEMMA DataProperties ==
    ASSUME NEW c \in 1..MaxCalls, NEW n \in 1..MaxData
    PROVE  /\ Data(c, n) \in Seq(Bytes)
           /\ Len(Data(c, n)) = n
           /\ \A i \in 1..n : Data(c, n)[i] = [call |-> c, i |-> i, last |-> i = n]
  <1>1. n \in Nat /\ \A i \in 1..n : [call |-> c, i |-> i, last |-> i = n] \in Bytes
    BY SizesAssumption DEF Bytes
  <1> QED
    BY <1>1 DEF Data

(* Another record for one writer. *)
LEMMA Update ==
    ASSUME writer \in [Writers -> WriterType], NEW w \in Writers, NEW r \in WriterType,
           writer' = [writer EXCEPT ![w] = r]
    PROVE  /\ writer' \in [Writers -> WriterType]
           /\ writer'[w] = r
           /\ \A v \in Writers : v # w => writer'[v] = writer[v]
  OBVIOUS

-------------------------------------------------------------------------------
(* The inductive invariant *)

LEMMA Start == Init => IInv
  <1> SUFFICES ASSUME Init PROVE IInv
    OBVIOUS
  <1> USE SizesAssumption
  <1>1. TypeOK
    <2>1. Idle \in WriterType
      BY DEF Idle, WriterType, Nonces
    <2>2. writer \in [Writers -> WriterType]
      BY <2>1 DEF Init
    <2>3. sendMtx = \E w \in Writers : writer[w].pc \in {"seal", "incr", "write"}
      BY DEF Init, Idle
    <2>4. << >> \in Seq(FrameType) /\ << >> \in Seq(Bytes) /\ << >> \in Seq(Nonces)
      OBVIOUS
    <2>5. 0 \in Nonces /\ 0 \in 0..MaxCalls
      BY DEF Nonces
    <2> QED
      BY <2>2, <2>3, <2>4, <2>5 DEF Init, TypeOK, WriterType, FrameType
  <1>2. Exclusive
    BY DEF Init, Idle, Exclusive, Busy
  <1>3. Counted
    BY DEF Init, Idle, Counted, Incr
  <1>4. Used
    BY DEF Init, Idle, Used
  <1> QED
    BY <1>1, <1>2, <1>3, <1>4 DEF IInv

(* The record of the writer that acts. *)
LEMMA WriterRecord ==
    ASSUME TypeOK, NEW w \in Writers
    PROVE  /\ writer \in [Writers -> WriterType]
           /\ writer[w] \in WriterType
  BY DEF TypeOK, WriterType

(* What each step of a writer makes of its record.                         *)
LEMMA StepCall ==
    ASSUME TypeOK, NEW w \in Writers, Call(w)
    PROVE  \E n \in 1..MaxData, r \in WriterType :
             /\ writer' = [writer EXCEPT ![w] = r]
             /\ r.pc = "lock" /\ r.data = Data(calls + 1, n)
             /\ calls + 1 \in 1..MaxCalls
  <1>1. PICK n \in 1..MaxData :
          writer' = [writer EXCEPT ![w] =
            [pc |-> "lock", data |-> Data(calls + 1, n), frame |-> << >>, nonce |-> 0]]
    BY DEF Call
  <1>2. calls + 1 \in 1..MaxCalls
    BY SizesAssumption DEF Call, TypeOK
  <1>3. Data(calls + 1, n) \in Seq(Bytes)
    BY <1>2, DataProperties
  <1>4. << >> \in Seq(Bytes)
    OBVIOUS
  <1>5. 0 \in Nonces
    BY SizesAssumption DEF Nonces
  <1>6. [pc |-> "lock", data |-> Data(calls + 1, n), frame |-> << >>, nonce |-> 0] \in WriterType
    BY <1>3, <1>4, <1>5 DEF WriterType
  <1> QED
    BY <1>1, <1>2, <1>6

LEMMA StepLock ==
    ASSUME TypeOK, NEW w \in Writers, Lock(w)
    PROVE  /\ writer' = [writer EXCEPT ![w] = [writer[w] EXCEPT !.pc = "seal"]]
           /\ [writer[w] EXCEPT !.pc = "seal"] \in WriterType
  <1>1. writer[w] \in WriterType
    BY WriterRecord
  <1> QED
    BY <1>1 DEF Lock, WriterType

LEMMA StepSeal ==
    ASSUME TypeOK, NEW w \in Writers, Seal(w)
    PROVE  \E chunk \in Seq(Bytes), r \in WriterType :
             /\ chunk = Front(writer[w].data, DataMaxSize)
             /\ Len(chunk) = Smaller(DataMaxSize, Len(writer[w].data))
             /\ Len(chunk) \in 0..Len(writer[w].data)
             /\ r.pc = "incr" /\ r.data = Rest(writer[w].data, Len(chunk))
             /\ r.frame = chunk /\ r.nonce = sendNonce
             /\ writer' = [writer EXCEPT ![w] = r]
             /\ sent' = sent \o chunk
             /\ nonces' = Append(nonces, sendNonce)
  <1> DEFINE chunk == Front(writer[w].data, DataMaxSize)
             r == [pc |-> "incr", data |-> Rest(writer[w].data, Len(chunk)),
                   frame |-> chunk, nonce |-> sendNonce]
  <1>1. writer[w] \in WriterType
    BY WriterRecord
  <1>2. writer[w].data \in Seq(Bytes) /\ Len(writer[w].data) \in Nat
    BY <1>1 DEF WriterType
  <1>3. /\ chunk \in Seq(Bytes)
        /\ Len(chunk) = Smaller(DataMaxSize, Len(writer[w].data))
    BY <1>2, SizesAssumption, FrontProperties
  <1>4. Len(chunk) \in 0..Len(writer[w].data)
    BY <1>2, <1>3, SizesAssumption DEF Smaller
  <1>5. Rest(writer[w].data, Len(chunk)) \in Seq(Bytes)
    BY <1>2, <1>4, RestProperties
  <1>6. sendNonce \in Nonces
    BY DEF TypeOK
  <1>7. r \in WriterType
    BY <1>3, <1>5, <1>6 DEF WriterType
  <1>8. writer' = [writer EXCEPT ![w] = r]
    BY DEF Seal
  <1>9. sent' = sent \o chunk /\ nonces' = Append(nonces, sendNonce)
    BY DEF Seal
  <1>10. /\ r.pc = "incr" /\ r.data = Rest(writer[w].data, Len(chunk))
         /\ r.frame = chunk /\ r.nonce = sendNonce
    OBVIOUS
  <1> HIDE DEF chunk, r
  <1> QED
    BY <1>3, <1>4, <1>7, <1>8, <1>9, <1>10 DEF chunk

LEMMA StepIncr ==
    ASSUME TypeOK, NEW w \in Writers, IncrNonce(w)
    PROVE  /\ writer' = [writer EXCEPT ![w] = [writer[w] EXCEPT !.pc = "write"]]
           /\ [writer[w] EXCEPT !.pc = "write"] \in WriterType
           /\ sendNonce' \in Nonces
  <1>1. writer[w] \in WriterType
    BY WriterRecord
  <1>2. sendNonce + 1 \in Nonces
    BY SizesAssumption DEF IncrNonce, TypeOK, Nonces
  <1> QED
    BY <1>1, <1>2 DEF IncrNonce, WriterType

LEMMA StepWrite ==
    ASSUME TypeOK, NEW w \in Writers, WriteFrame(w)
    PROVE  \E r \in WriterType :
             /\ writer' = [writer EXCEPT ![w] = r]
             /\ r.pc = IF writer[w].data = << >> THEN "idle" ELSE "seal"
             /\ writer[w].data # << >> => r = [writer[w] EXCEPT !.pc = "seal"]
  <1>1. writer[w] \in WriterType
    BY WriterRecord
  <1>2. Idle \in WriterType
    BY SizesAssumption DEF Idle, WriterType, Nonces
  <1>3. CASE writer[w].data = << >>
    <2>1. writer' = [writer EXCEPT ![w] = Idle]
      BY <1>3 DEF WriteFrame
    <2> QED
      BY <1>2, <1>3, <2>1 DEF Idle
  <1>4. CASE writer[w].data # << >>
    <2>1. writer' = [writer EXCEPT ![w] = [writer[w] EXCEPT !.pc = "seal"]]
      BY <1>4 DEF WriteFrame
    <2>2. [writer[w] EXCEPT !.pc = "seal"] \in WriterType
      BY <1>1 DEF WriterType
    <2>3. [writer[w] EXCEPT !.pc = "seal"].pc = "seal"
      BY <1>1 DEF WriterType
    <2> QED
      BY <1>4, <2>1, <2>2, <2>3
  <1> QED
    BY <1>3, <1>4

LEMMA StepWriteFails ==
    ASSUME TypeOK, NEW w \in Writers, WriteFails(w)
    PROVE  /\ writer' = [writer EXCEPT ![w] = Idle]
           /\ Idle \in WriterType
  BY SizesAssumption DEF WriteFails, Idle, WriterType, Nonces

(* The frame in a writer's hand, whole or not. *)
LEMMA FrameTyped ==
    ASSUME TypeOK, NEW w \in Writers, NEW whole \in BOOLEAN
    PROVE  Frame(w, whole) \in FrameType
  <1>1. writer[w].nonce \in Nonces /\ writer[w].frame \in Seq(Bytes)
    BY WriterRecord DEF WriterType
  <1> QED
    BY <1>1 DEF Frame, FrameType

(* One frame more on the wire, at its end. *)
LEMMA OneMore ==
    ASSUME NEW S, NEW s \in Seq(S), NEW e \in S
    PROVE  /\ Append(s, e) \in Seq(S)
           /\ Len(Append(s, e)) = Len(s) + 1
           /\ \A i \in 1..Len(s) : Append(s, e)[i] = s[i]
           /\ Append(s, e)[Len(s) + 1] = e
  OBVIOUS

(* What a write leaves on the wire, and what a read takes from it. *)
LEMMA WireGrows ==
    ASSUME TypeOK, NEW w \in Writers, WriteFrame(w) \/ WriteFails(w)
    PROVE  /\ wire' \in Seq(FrameType)
           /\ Len(wire) \in Nat /\ Len(wire') \in {Len(wire), Len(wire) + 1}
           /\ \A k \in 1..Len(wire) : wire'[k] = wire[k]
           /\ Len(wire') = Len(wire) + 1 =>
                \E whole \in BOOLEAN : /\ wire'[Len(wire) + 1] = Frame(w, whole)
                                       /\ WriteFails(w) => ~whole
  <1>1. wire \in Seq(FrameType)
    BY DEF TypeOK, FrameType
  <1>2. CASE wire' = wire
    BY <1>1, <1>2
  <1>3. ASSUME NEW whole \in BOOLEAN, wire' = Append(wire, Frame(w, whole)),
               WriteFails(w) => ~whole
        PROVE  /\ wire' \in Seq(FrameType)
               /\ Len(wire) \in Nat /\ Len(wire') = Len(wire) + 1
               /\ \A k \in 1..Len(wire) : wire'[k] = wire[k]
               /\ wire'[Len(wire) + 1] = Frame(w, whole)
    <2>1. Frame(w, whole) \in FrameType
      BY FrameTyped
    <2> QED
      BY <1>1, <1>3, <2>1, OneMore
  <1>4. ~(WriteFrame(w) /\ WriteFails(w)) \/ wire' = wire \/ wire' = Append(wire, Frame(w, FALSE))
    BY DEF WriteFails
  <1>5. CASE WriteFails(w)
    <2>1. wire' = wire \/ wire' = Append(wire, Frame(w, FALSE))
      BY <1>5 DEF WriteFails
    <2> QED
      BY <1>2, <1>3, <2>1
  <1>6. CASE WriteFrame(w) /\ ~WriteFails(w)
    <2>1. wire' = Append(wire, Frame(w, TRUE))
      BY <1>6 DEF WriteFrame
    <2> QED
      BY <1>3, <1>6, <2>1
  <1> QED
    BY <1>5, <1>6

LEMMA WireShrinks ==
    ASSUME wire \in Seq(FrameType), wire # << >>, wire' = Tail(wire)
    PROVE  /\ wire' \in Seq(FrameType) /\ wire[1] \in FrameType /\ Head(wire) = wire[1]
           /\ Len(wire) \in Nat \ {0} /\ Len(wire') = Len(wire) - 1
           /\ \A k \in 1..Len(wire') : wire'[k] = wire[k + 1]
  BY HeadTailProperties

LEMMA StepExclusive ==
    ASSUME TypeOK, Exclusive, [Next]_vars
    PROVE  /\ Exclusive'
           /\ sendMtx' = \E w \in Writers : writer'[w].pc \in {"seal", "incr", "write"}
  <1> DEFINE Locked == \E w \in Writers : Busy(w)
  <1>t. sendMtx = Locked
    BY DEF TypeOK, Busy
  <1>s. SUFFICES Exclusive' /\ sendMtx' = Locked'
    BY DEF Busy
  <1>r. writer \in [Writers -> WriterType]
    BY DEF TypeOK, WriterType
  <1>1. ASSUME NEW w \in Writers, Call(w) PROVE Exclusive' /\ sendMtx' = Locked'
    <2>0. PICK r \in WriterType : writer' = [writer EXCEPT ![w] = r] /\ r.pc = "lock"
      BY <1>1, StepCall
    <2>1. writer'[w].pc = "lock" /\ \A v \in Writers : v # w => writer'[v] = writer[v]
      BY <1>r, <2>0, Update
    <2>2. ~Busy(w) /\ ~Busy(w)'
      BY <1>1, <2>1 DEF Call, At, Busy
    <2>3. \A v \in Writers : Busy(v)' = Busy(v)
      BY <2>1, <2>2 DEF Busy
    <2>4. sendMtx' = sendMtx
      BY <1>1 DEF Call
    <2> QED
      BY <1>t, <2>3, <2>4 DEF Exclusive
  <1>2. ASSUME NEW w \in Writers, Lock(w) PROVE Exclusive' /\ sendMtx' = Locked'
    <2>1. /\ writer'[w] = [writer[w] EXCEPT !.pc = "seal"]
          /\ \A v \in Writers : v # w => writer'[v] = writer[v]
      BY <1>2, <1>r, StepLock, Update
    <2>2. writer'[w].pc = "seal"
      BY <1>r, <2>1 DEF WriterType
    <2>3. Busy(w)' /\ \A v \in Writers : v # w => ~Busy(v)'
      BY <1>2, <1>t, <2>1, <2>2 DEF Lock, Busy
    <2>4. sendMtx' = TRUE
      BY <1>2 DEF Lock
    <2> QED
      BY <2>3, <2>4 DEF Exclusive
  <1>3. ASSUME NEW w \in Writers, Busy(w), Busy(w)', UNCHANGED sendMtx,
               \A v \in Writers : v # w => writer'[v] = writer[v]
        PROVE  Exclusive' /\ sendMtx' = Locked'
    <2>1. \A v \in Writers : Busy(v)' = Busy(v)
      BY <1>3 DEF Busy
    <2> QED
      BY <1>3, <1>t, <2>1 DEF Exclusive
  <1>4. ASSUME NEW w \in Writers, Busy(w), ~Busy(w)', sendMtx' = FALSE,
               \A v \in Writers : v # w => writer'[v] = writer[v]
        PROVE  Exclusive' /\ sendMtx' = Locked'
    <2>1. \A v \in Writers : ~Busy(v)'
      BY <1>4 DEF Busy, Exclusive
    <2> QED
      BY <1>4, <2>1 DEF Exclusive
  <1>5. ASSUME NEW w \in Writers, Seal(w) PROVE Exclusive' /\ sendMtx' = Locked'
    <2>0. PICK r \in WriterType : writer' = [writer EXCEPT ![w] = r] /\ r.pc = "incr"
      BY <1>5, StepSeal
    <2>1. writer'[w].pc = "incr" /\ \A v \in Writers : v # w => writer'[v] = writer[v]
      BY <1>r, <2>0, Update
    <2>2. Busy(w) /\ Busy(w)' /\ UNCHANGED sendMtx
      BY <1>5, <2>1 DEF Seal, At, Busy
    <2> QED
      BY <1>3, <2>1, <2>2
  <1>6. ASSUME NEW w \in Writers, IncrNonce(w) PROVE Exclusive' /\ sendMtx' = Locked'
    <2>1. /\ writer'[w] = [writer[w] EXCEPT !.pc = "write"]
          /\ \A v \in Writers : v # w => writer'[v] = writer[v]
      BY <1>6, <1>r, StepIncr, Update
    <2>2. writer'[w].pc = "write"
      BY <1>r, <2>1 DEF WriterType
    <2>3. Busy(w) /\ Busy(w)' /\ UNCHANGED sendMtx
      BY <1>6, <2>2 DEF IncrNonce, At, Busy
    <2> QED
      BY <1>3, <2>1, <2>3
  <1>7. ASSUME NEW w \in Writers, WriteFrame(w) PROVE Exclusive' /\ sendMtx' = Locked'
    <2>1. PICK r \in WriterType :
            /\ writer' = [writer EXCEPT ![w] = r]
            /\ r.pc = IF writer[w].data = << >> THEN "idle" ELSE "seal"
      BY <1>7, StepWrite
    <2>2. writer'[w] = r /\ \A v \in Writers : v # w => writer'[v] = writer[v]
      BY <1>r, <2>1, Update
    <2>3. Busy(w)
      BY <1>7 DEF WriteFrame, At, Busy
    <2>4. CASE writer[w].data = << >>
      <3>1. sendMtx' = FALSE /\ ~Busy(w)'
        BY <1>7, <2>1, <2>2, <2>4 DEF WriteFrame, Busy
      <3> QED
        BY <1>4, <2>2, <2>3, <3>1
    <2>5. CASE writer[w].data # << >>
      <3>1. sendMtx' = TRUE /\ Busy(w)'
        BY <1>7, <2>1, <2>2, <2>5 DEF WriteFrame, Busy
      <3>2. UNCHANGED sendMtx
        BY <1>t, <2>3, <3>1
      <3> QED
        BY <1>3, <2>2, <2>3, <3>1, <3>2
    <2> QED
      BY <2>4, <2>5
  <1>8. ASSUME NEW w \in Writers, WriteFails(w) PROVE Exclusive' /\ sendMtx' = Locked'
    <2>1. writer'[w] = Idle /\ \A v \in Writers : v # w => writer'[v] = writer[v]
      BY <1>8, <1>r, StepWriteFails, Update
    <2>2. Busy(w) /\ ~Busy(w)' /\ sendMtx' = FALSE
      BY <1>8, <2>1 DEF WriteFails, At, Busy, Idle
    <2> QED
      BY <1>4, <2>1, <2>2
  <1>9. CASE UNCHANGED <<writer, sendMtx>>
    BY <1>9, <1>t DEF Exclusive, Busy
  <1>10. (\E w \in Writers : IncrNoncePanics(w)) \/ Read \/ UNCHANGED vars
           => UNCHANGED <<writer, sendMtx>>
    BY DEF IncrNoncePanics, Read, ReadBuffer, ReadFrame, OpenFails, vars, sendVars
  <1> QED
    BY <1>1, <1>2, <1>5, <1>6, <1>7, <1>8, <1>9, <1>10 DEF Next, WriteFrames

LEMMA StepCounted ==
    ASSUME TypeOK, Exclusive, Counted, Used, [Next]_vars
    PROVE  Counted' /\ nonces' \in Seq(Nonces)
  <1>r. writer \in [Writers -> WriterType] /\ nonces \in Seq(Nonces) /\ sendNonce \in Nat
    BY SizesAssumption DEF TypeOK, WriterType, Nonces
  <1>1. ASSUME UNCHANGED <<nonces, sendNonce>>,
               \A v \in Writers : writer'[v].pc = "incr" <=> writer[v].pc = "incr"
        PROVE  Counted' /\ nonces' \in Seq(Nonces)
    <2>1. Incr' <=> Incr
      BY <1>1 DEF Incr
    <2> QED
      BY <1>1, <1>r, <2>1 DEF Counted
  <1>2. ASSUME NEW w \in Writers, NEW r \in WriterType, writer' = [writer EXCEPT ![w] = r],
               writer[w].pc # "incr", r.pc # "incr", UNCHANGED <<nonces, sendNonce>>
        PROVE  Counted' /\ nonces' \in Seq(Nonces)
    <2>1. writer'[w] = r /\ \A v \in Writers : v # w => writer'[v] = writer[v]
      BY <1>2, <1>r, Update
    <2>2. \A v \in Writers : writer'[v].pc = "incr" <=> writer[v].pc = "incr"
      BY <1>2, <2>1
    <2> QED
      BY <1>1, <1>2, <2>2
  <1>3. ASSUME NEW w \in Writers, Call(w) PROVE Counted' /\ nonces' \in Seq(Nonces)
    <2>1. PICK r \in WriterType : writer' = [writer EXCEPT ![w] = r] /\ r.pc = "lock"
      BY <1>3, StepCall
    <2>2. writer[w].pc # "incr" /\ r.pc # "incr" /\ UNCHANGED <<nonces, sendNonce>>
      BY <1>3, <2>1 DEF Call, At
    <2> QED
      BY <1>2, <2>1, <2>2
  <1>4. ASSUME NEW w \in Writers, Lock(w) PROVE Counted' /\ nonces' \in Seq(Nonces)
    <2>1. PICK r \in WriterType : writer' = [writer EXCEPT ![w] = r] /\ r = [writer[w] EXCEPT !.pc = "seal"]
      BY <1>4, StepLock
    <2>2. writer[w].pc # "incr" /\ r.pc # "incr" /\ UNCHANGED <<nonces, sendNonce>>
      BY <1>4, <1>r, <2>1 DEF Lock, At, WriterType
    <2> QED
      BY <1>2, <2>1, <2>2
  <1>5. ASSUME NEW w \in Writers, Seal(w) PROVE Counted' /\ nonces' \in Seq(Nonces)
    <2>1. PICK r \in WriterType : writer' = [writer EXCEPT ![w] = r] /\ r.pc = "incr"
      BY <1>5, StepSeal
    <2>2. writer'[w].pc = "incr"
      BY <1>r, <2>1, Update
    <2>3. Incr'
      BY <2>2 DEF Incr
    <2>4. ~Incr
      BY <1>5 DEF Incr, Exclusive, Busy, Seal, At
    <2>5. nonces' = Append(nonces, sendNonce) /\ sendNonce' = sendNonce /\ sendNonce \in Nonces
      BY <1>5 DEF Seal, TypeOK
    <2>6. /\ nonces' \in Seq(Nonces) /\ Len(nonces') = Len(nonces) + 1
          /\ \A i \in 1..Len(nonces) : nonces'[i] = nonces[i]
          /\ nonces'[Len(nonces) + 1] = sendNonce
      BY <1>r, <2>5, OneMore
    <2>c. Len(nonces) = sendNonce + (IF Incr THEN 1 ELSE 0)
      BY DEF Counted
    <2>7. Len(nonces) = sendNonce
      BY <1>r, <2>4, <2>c
    <2>8. \A i \in DOMAIN nonces' : nonces'[i] = i - 1
      BY <1>r, <2>6, <2>7 DEF Counted
    <2> QED
      BY <2>3, <2>5, <2>6, <2>7, <2>8 DEF Counted
  <1>6. ASSUME NEW w \in Writers, IncrNonce(w) PROVE Counted' /\ nonces' \in Seq(Nonces)
    <2>1. PICK r \in WriterType : writer' = [writer EXCEPT ![w] = r] /\ r = [writer[w] EXCEPT !.pc = "write"]
      BY <1>6, StepIncr
    <2>2. writer'[w] = r /\ r.pc = "write" /\ \A v \in Writers : v # w => writer'[v] = writer[v]
      BY <1>r, <2>1, Update DEF WriterType
    <2>3. writer[w].pc = "incr"
      BY <1>6 DEF IncrNonce, At
    <2>4. \A v \in Writers : v # w => writer[v].pc # "incr"
      BY <2>3 DEF Exclusive, Busy
    <2>5. Incr /\ ~Incr'
      BY <2>2, <2>3, <2>4 DEF Incr
    <2>6. sendNonce' = sendNonce + 1 /\ nonces' = nonces
      BY <1>6 DEF IncrNonce
    <2> QED
      BY <1>r, <2>5, <2>6 DEF Counted
  <1>7. ASSUME NEW w \in Writers, WriteFrame(w) PROVE Counted' /\ nonces' \in Seq(Nonces)
    <2>1. PICK r \in WriterType : writer' = [writer EXCEPT ![w] = r]
                                  /\ r.pc = IF writer[w].data = << >> THEN "idle" ELSE "seal"
      BY <1>7, StepWrite
    <2>2. writer[w].pc # "incr" /\ r.pc # "incr" /\ UNCHANGED <<nonces, sendNonce>>
      BY <1>7, <2>1 DEF WriteFrame, At
    <2> QED
      BY <1>2, <2>1, <2>2
  <1>8. ASSUME NEW w \in Writers, WriteFails(w) PROVE Counted' /\ nonces' \in Seq(Nonces)
    <2>1. PICK r \in WriterType : writer' = [writer EXCEPT ![w] = r] /\ r = Idle
      BY <1>8, StepWriteFails
    <2>2. writer[w].pc # "incr" /\ r.pc # "incr" /\ UNCHANGED <<nonces, sendNonce>>
      BY <1>8, <2>1 DEF WriteFails, At, Idle
    <2> QED
      BY <1>2, <2>1, <2>2
  <1>9. CASE UNCHANGED <<writer, nonces, sendNonce>>
    BY <1>1, <1>9
  <1>10. (\E w \in Writers : IncrNoncePanics(w)) \/ Read \/ UNCHANGED vars
           => UNCHANGED <<writer, nonces, sendNonce>>
    BY DEF IncrNoncePanics, Read, ReadBuffer, ReadFrame, OpenFails, vars, sendVars
  <1> QED
    BY <1>3, <1>4, <1>5, <1>6, <1>7, <1>8, <1>9, <1>10 DEF Next, WriteFrames

LEMMA StepUsed ==
    ASSUME TypeOK, Exclusive, Used, [Next]_vars
    PROVE  Used'
  <1> DEFINE UsedBy(v) == /\ writer[v].pc = "incr" => writer[v].nonce = sendNonce
                          /\ writer[v].pc = "write" => writer[v].nonce + 1 = sendNonce
             OnWire == \A k \in DOMAIN wire : wire[k].nonce < sendNonce
             Expected == recvNonce <= sendNonce
  <1>r. /\ writer \in [Writers -> WriterType] /\ wire \in Seq(FrameType)
        /\ sendNonce \in Nat /\ recvNonce \in Nat
    BY SizesAssumption DEF TypeOK, WriterType, FrameType, Nonces
  <1>u. (\A v \in Writers : UsedBy(v)) /\ OnWire /\ Expected
    BY DEF Used
  <1>s. SUFFICES (\A v \in Writers : UsedBy(v)') /\ OnWire' /\ Expected'
    BY DEF Used
  <1>1. ASSUME NEW w \in Writers, NEW r \in WriterType, writer' = [writer EXCEPT ![w] = r],
               r.pc \notin {"incr", "write"}, UNCHANGED sendNonce
        PROVE  \A v \in Writers : UsedBy(v)'
    <2>1. writer'[w] = r /\ \A v \in Writers : v # w => writer'[v] = writer[v]
      BY <1>1, <1>r, Update
    <2> QED
      BY <1>1, <1>u, <2>1
  <1>2. UNCHANGED <<wire, sendNonce>> => OnWire'
    BY <1>u
  <1>3. UNCHANGED <<recvNonce, sendNonce>> => Expected'
    BY <1>u
  <1>4. ASSUME NEW w \in Writers, Call(w) PROVE (\A v \in Writers : UsedBy(v)') /\ OnWire' /\ Expected'
    <2>1. PICK r \in WriterType : writer' = [writer EXCEPT ![w] = r] /\ r.pc = "lock"
      BY <1>4, StepCall
    <2>2. UNCHANGED <<wire, sendNonce, recvNonce>>
      BY <1>4 DEF Call, recvVars
    <2> QED
      BY <1>1, <1>2, <1>3, <2>1, <2>2
  <1>5. ASSUME NEW w \in Writers, Lock(w) PROVE (\A v \in Writers : UsedBy(v)') /\ OnWire' /\ Expected'
    <2>1. PICK r \in WriterType : writer' = [writer EXCEPT ![w] = r] /\ r = [writer[w] EXCEPT !.pc = "seal"]
      BY <1>5, StepLock
    <2>2. r.pc = "seal"
      BY <1>r, <2>1 DEF WriterType
    <2>3. UNCHANGED <<wire, sendNonce, recvNonce>>
      BY <1>5 DEF Lock, recvVars
    <2> QED
      BY <1>1, <1>2, <1>3, <2>1, <2>2, <2>3
  <1>6. ASSUME NEW w \in Writers, Seal(w) PROVE (\A v \in Writers : UsedBy(v)') /\ OnWire' /\ Expected'
    <2>1. PICK r \in WriterType : /\ writer' = [writer EXCEPT ![w] = r]
                                  /\ r.pc = "incr" /\ r.nonce = sendNonce
      BY <1>6, StepSeal
    <2>2. writer'[w] = r /\ \A v \in Writers : v # w => writer'[v] = writer[v]
      BY <1>r, <2>1, Update
    <2>3. UNCHANGED <<wire, sendNonce, recvNonce>>
      BY <1>6 DEF Seal, recvVars
    <2> QED
      BY <1>2, <1>3, <1>u, <2>1, <2>2, <2>3
  <1>7. ASSUME NEW w \in Writers, IncrNonce(w) PROVE (\A v \in Writers : UsedBy(v)') /\ OnWire' /\ Expected'
    <2>1. PICK r \in WriterType : writer' = [writer EXCEPT ![w] = r] /\ r = [writer[w] EXCEPT !.pc = "write"]
      BY <1>7, StepIncr
    <2>2. writer'[w] = r /\ r.pc = "write" /\ r.nonce = writer[w].nonce
          /\ \A v \in Writers : v # w => writer'[v] = writer[v]
      BY <1>r, <2>1, Update DEF WriterType
    <2>3. sendNonce' = sendNonce + 1 /\ UNCHANGED <<wire, recvNonce>> /\ writer[w].pc = "incr"
      BY <1>7 DEF IncrNonce, At, recvVars
    <2>4. \A v \in Writers : v # w => writer[v].pc \notin {"incr", "write"}
      BY <2>3 DEF Exclusive, Busy
    <2>5. \A v \in Writers : UsedBy(v)'
      BY <1>u, <2>2, <2>3, <2>4
    <2>6. ASSUME NEW k \in DOMAIN wire PROVE wire[k].nonce \in Nat
      <3>1. wire[k] \in FrameType
        BY <1>r
      <3> QED
        BY <3>1, SizesAssumption DEF FrameType, Nonces
    <2>7. OnWire' /\ Expected'
      BY <1>r, <1>u, <2>3, <2>6
    <2> QED
      BY <2>5, <2>7
  <1>8. ASSUME NEW w \in Writers, WriteFrame(w) \/ WriteFails(w)
        PROVE (\A v \in Writers : UsedBy(v)') /\ OnWire' /\ Expected'
    <2>1. PICK r \in WriterType : /\ writer' = [writer EXCEPT ![w] = r]
                                  /\ r.pc \notin {"incr", "write"}
      BY <1>8, StepWrite, StepWriteFails DEF Idle
    <2>2. UNCHANGED <<sendNonce, recvNonce>> /\ writer[w].pc = "write"
      BY <1>8 DEF WriteFrame, WriteFails, At, recvVars
    <2>3. writer[w].nonce + 1 = sendNonce /\ writer[w].nonce \in Nat
      BY <1>r, <1>u, <2>2, SizesAssumption DEF WriterType, Nonces
    <2>4. /\ Len(wire) \in Nat /\ Len(wire') \in {Len(wire), Len(wire) + 1}
          /\ wire' \in Seq(FrameType)
          /\ \A k \in 1..Len(wire) : wire'[k] = wire[k]
          /\ Len(wire') = Len(wire) + 1 =>
               \E whole \in BOOLEAN : wire'[Len(wire) + 1] = Frame(w, whole)
      BY <1>8, WireGrows
    <2>5. ASSUME Len(wire') = Len(wire) + 1
          PROVE  wire'[Len(wire) + 1].nonce = writer[w].nonce
      <3>1. PICK whole \in BOOLEAN : wire'[Len(wire) + 1] = Frame(w, whole)
        BY <2>4, <2>5
      <3>2. Frame(w, whole).nonce = writer[w].nonce
        BY DEF Frame
      <3> QED
        BY <3>1, <3>2
    <2>6. OnWire'
      BY <1>r, <1>u, <2>2, <2>3, <2>4, <2>5
    <2> QED
      BY <1>1, <1>3, <2>1, <2>2, <2>6
  <1>9. ASSUME NEW w \in Writers, IncrNoncePanics(w)
        PROVE (\A v \in Writers : UsedBy(v)') /\ OnWire' /\ Expected'
    BY <1>9, <1>2, <1>3, <1>u DEF IncrNoncePanics, recvVars
  <1>10. CASE ReadBuffer \/ UNCHANGED vars
    BY <1>10, <1>2, <1>3, <1>u DEF ReadBuffer, vars, sendVars, recvVars
  <1>11. CASE ReadFrame \/ OpenFails
    <2>1. wire # << >> /\ wire' = Tail(wire) /\ UNCHANGED <<writer, sendNonce>>
      BY <1>11 DEF ReadFrame, OpenFails, sendVars
    <2>2. /\ wire' \in Seq(FrameType) /\ wire[1] \in FrameType /\ Head(wire) = wire[1]
          /\ Len(wire) \in Nat \ {0} /\ Len(wire') = Len(wire) - 1
          /\ \A k \in 1..Len(wire') : wire'[k] = wire[k + 1]
      BY <1>r, <2>1, WireShrinks
    <2>3. OnWire'
      BY <1>r, <1>u, <2>1, <2>2
    <2>4. wire[1].nonce < sendNonce
      BY <1>r, <1>u, <2>2
    <2>5. Expected'
      BY <1>11, <1>r, <1>u, <2>1, <2>2, <2>4 DEF ReadFrame, OpenFails, Opens
    <2>6. \A v \in Writers : UsedBy(v)'
      BY <1>u, <2>1
    <2> QED
      BY <2>3, <2>5, <2>6
  <1> QED
    BY <1>4, <1>5, <1>6, <1>7, <1>8, <1>9, <1>10, <1>11 DEF Next, WriteFrames, Read

(* What is sealed, and what Read returns and keeps, is bytes. *)
LEMMA StepBytes ==
    ASSUME TypeOK, [Next]_vars
    PROVE  sent' \in Seq(Bytes) /\ recvBuffer' \in Seq(Bytes) /\ received' \in Seq(Bytes)
  <1>r. /\ sent \in Seq(Bytes) /\ recvBuffer \in Seq(Bytes) /\ received \in Seq(Bytes)
        /\ wire \in Seq(FrameType)
    BY DEF TypeOK, FrameType
  <1>1. ASSUME NEW w \in Writers, Seal(w)
        PROVE  sent' \in Seq(Bytes) /\ recvBuffer' \in Seq(Bytes) /\ received' \in Seq(Bytes)
    <2>1. PICK chunk \in Seq(Bytes) : sent' = sent \o chunk
      BY <1>1, StepSeal
    <2>2. UNCHANGED <<recvBuffer, received>>
      BY <1>1 DEF Seal, recvVars
    <2> QED
      BY <1>r, <2>1, <2>2
  <1>2. ASSUME NEW bytes \in Seq(Bytes), NEW n \in 1..ReadSize, Return(bytes, n)
        PROVE  recvBuffer' \in Seq(Bytes) /\ received' \in Seq(Bytes)
    <2>1. n \in Nat /\ Len(bytes) \in Nat
      BY SizesAssumption
    <2>2. Front(bytes, n) \in Seq(Bytes)
      BY <2>1, FrontProperties
    <2>3. Smaller(n, Len(bytes)) \in 0..Len(bytes)
      BY <2>1 DEF Smaller
    <2>4. Rest(bytes, Smaller(n, Len(bytes))) \in Seq(Bytes)
      BY <2>3, RestProperties
    <2> QED
      BY <1>2, <1>r, <2>2, <2>4 DEF Return
  <1>3. CASE ReadBuffer
    <2>1. PICK n \in 1..ReadSize : Return(recvBuffer, n)
      BY <1>3 DEF ReadBuffer
    <2>2. sent' = sent
      BY <1>3 DEF ReadBuffer, sendVars
    <2> QED
      BY <1>2, <1>r, <2>1, <2>2
  <1>4. CASE ReadFrame
    <2>1. PICK n \in 1..ReadSize : Return(Head(wire).bytes, n)
      BY <1>4 DEF ReadFrame
    <2>2. Head(wire) \in FrameType
      BY <1>4, <1>r DEF ReadFrame
    <2>3. Head(wire).bytes \in Seq(Bytes)
      BY <2>2 DEF FrameType
    <2>4. sent' = sent
      BY <1>4 DEF ReadFrame, sendVars
    <2> QED
      BY <1>2, <1>r, <2>1, <2>3, <2>4
  <1>5. ASSUME NEW w \in Writers,
               Call(w) \/ Lock(w) \/ IncrNonce(w) \/ IncrNoncePanics(w) \/ WriteFrame(w) \/ WriteFails(w)
        PROVE  UNCHANGED <<sent, recvBuffer, received>>
    BY <1>5 DEF Call, Lock, IncrNonce, IncrNoncePanics, WriteFrame, WriteFails, recvVars
  <1>6. OpenFails \/ UNCHANGED vars => UNCHANGED <<sent, recvBuffer, received>>
    BY DEF OpenFails, vars, sendVars, recvVars
  <1> QED
    BY <1>r, <1>1, <1>3, <1>4, <1>5, <1>6 DEF Next, WriteFrames, Read

(* The records of the writers, and the frames on the wire. *)
LEMMA StepFrames ==
    ASSUME TypeOK, [Next]_vars
    PROVE  writer' \in [Writers -> WriterType] /\ wire' \in Seq(FrameType)
  <1>r. writer \in [Writers -> WriterType] /\ wire \in Seq(FrameType)
    BY DEF TypeOK, WriterType, FrameType
  <1>1. ASSUME NEW w \in Writers,
               \E r \in WriterType : writer' = [writer EXCEPT ![w] = r]
        PROVE  writer' \in [Writers -> WriterType]
    BY <1>1, <1>r, Update
  <1>2. ASSUME NEW w \in Writers, Call(w) \/ Lock(w) \/ Seal(w) \/ IncrNonce(w)
        PROVE  writer' \in [Writers -> WriterType] /\ wire' \in Seq(FrameType)
    <2>1. \E r \in WriterType : writer' = [writer EXCEPT ![w] = r]
      BY <1>2, StepCall, StepLock, StepSeal, StepIncr
    <2>2. wire' = wire
      BY <1>2 DEF Call, Lock, Seal, IncrNonce
    <2> QED
      BY <1>1, <1>r, <2>1, <2>2
  <1>3. ASSUME NEW w \in Writers, WriteFrame(w) \/ WriteFails(w)
        PROVE  writer' \in [Writers -> WriterType] /\ wire' \in Seq(FrameType)
    <2>1. \E r \in WriterType : writer' = [writer EXCEPT ![w] = r]
      BY <1>3, StepWrite, StepWriteFails
    <2>2. wire' \in Seq(FrameType)
      BY <1>3, WireGrows
    <2> QED
      BY <1>1, <2>1, <2>2
  <1>4. CASE ReadFrame \/ OpenFails
    <2>1. wire # << >> /\ wire' = Tail(wire) /\ UNCHANGED writer
      BY <1>4 DEF ReadFrame, OpenFails, sendVars
    <2> QED
      BY <1>r, <2>1, WireShrinks
  <1>5. (\E w \in Writers : IncrNoncePanics(w)) \/ ReadBuffer \/ UNCHANGED vars
          => UNCHANGED <<writer, wire>>
    BY DEF IncrNoncePanics, ReadBuffer, vars, sendVars
  <1> QED
    BY <1>r, <1>2, <1>3, <1>4, <1>5 DEF Next, WriteFrames, Read

(* The counters and the flags. *)
LEMMA StepCounters ==
    ASSUME TypeOK, [Next]_vars
    PROVE  /\ calls' \in 0..MaxCalls /\ sendNonce' \in Nonces
           /\ misaligned' \in BOOLEAN /\ ended' \in BOOLEAN
  <1>r. /\ calls \in 0..MaxCalls /\ sendNonce \in Nonces
        /\ misaligned \in BOOLEAN /\ ended \in BOOLEAN
    BY DEF TypeOK
  <1>1. ASSUME NEW w \in Writers, Call(w)
        PROVE  calls' \in 0..MaxCalls /\ UNCHANGED <<sendNonce, misaligned, ended>>
    <2>1. calls' = calls + 1 /\ calls < MaxCalls
      BY <1>1 DEF Call
    <2>2. UNCHANGED <<sendNonce, misaligned, ended>>
      BY <1>1 DEF Call, recvVars
    <2> QED
      BY <1>r, <2>1, <2>2, SizesAssumption
  <1>2. ASSUME NEW w \in Writers, IncrNonce(w)
        PROVE  sendNonce' \in Nonces /\ UNCHANGED <<calls, misaligned, ended>>
    BY <1>2, StepIncr DEF IncrNonce, recvVars
  <1>3. ASSUME NEW w \in Writers, IncrNoncePanics(w)
        PROVE  ended' \in BOOLEAN /\ UNCHANGED <<calls, sendNonce, misaligned>>
    BY <1>3 DEF IncrNoncePanics, recvVars
  <1>4. CASE OpenFails
    <2>1. misaligned' \in BOOLEAN /\ UNCHANGED <<calls, sendNonce, ended>>
      BY <1>4 DEF OpenFails, sendVars
    <2> QED
      BY <1>r, <2>1
  <1>5. ASSUME NEW w \in Writers, Lock(w) \/ Seal(w) \/ WriteFrame(w) \/ WriteFails(w)
        PROVE  UNCHANGED <<calls, sendNonce, misaligned, ended>>
    BY <1>5 DEF Lock, Seal, WriteFrame, WriteFails, recvVars
  <1>6. ReadBuffer \/ ReadFrame \/ UNCHANGED vars
          => UNCHANGED <<calls, sendNonce, misaligned, ended>>
    BY DEF ReadBuffer, ReadFrame, vars, sendVars, recvVars
  <1> QED
    BY <1>r, <1>1, <1>2, <1>3, <1>4, <1>5, <1>6 DEF Next, WriteFrames, Read

LEMMA StepRecvNonce ==
    ASSUME TypeOK, [Next]_vars, Used', sendNonce' \in Nonces
    PROVE  recvNonce' \in Nonces
  <1>1. recvNonce \in Nat /\ recvNonce' \in {recvNonce, recvNonce + 1}
    <2>1. recvNonce \in Nat
      BY SizesAssumption DEF TypeOK, Nonces
    <2>2. ASSUME NEW w \in Writers, Call(w) \/ Lock(w) \/ WriteFrames(w) PROVE UNCHANGED recvNonce
      BY <2>2 DEF Call, Lock, WriteFrames, Seal, IncrNonce, IncrNoncePanics, WriteFrame, WriteFails, recvVars
    <2>3. Read \/ UNCHANGED vars => recvNonce' \in {recvNonce, recvNonce + 1}
      BY DEF Read, ReadBuffer, ReadFrame, OpenFails, vars, recvVars
    <2> QED
      BY <2>1, <2>2, <2>3 DEF Next
  <1>2. recvNonce' <= sendNonce'
    BY DEF Used
  <1> QED
    BY <1>1, <1>2, SizesAssumption DEF Nonces

LEMMA Step == IInv /\ [Next]_vars => IInv'
  <1> SUFFICES ASSUME IInv, [Next]_vars PROVE IInv'
    OBVIOUS
  <1>i. TypeOK /\ Exclusive /\ Counted /\ Used
    BY DEF IInv
  <1>1. /\ Exclusive'
        /\ sendMtx' = \E w \in Writers : writer'[w].pc \in {"seal", "incr", "write"}
    BY <1>i, StepExclusive
  <1>2. Counted' /\ nonces' \in Seq(Nonces)
    BY <1>i, StepCounted
  <1>3. Used'
    BY <1>i, StepUsed
  <1>4. /\ calls' \in 0..MaxCalls /\ sendNonce' \in Nonces
        /\ misaligned' \in BOOLEAN /\ ended' \in BOOLEAN
    BY <1>i, StepCounters
  <1>5. recvNonce' \in Nonces
    BY <1>i, <1>3, <1>4, StepRecvNonce
  <1>6. writer' \in [Writers -> WriterType] /\ wire' \in Seq(FrameType)
    BY <1>i, StepFrames
  <1>7. sent' \in Seq(Bytes) /\ recvBuffer' \in Seq(Bytes) /\ received' \in Seq(Bytes)
    BY <1>i, StepBytes
  <1>8. TypeOK'
    BY <1>1, <1>2, <1>4, <1>5, <1>6, <1>7 DEF TypeOK, WriterType, FrameType
  <1> QED
    BY <1>1, <1>2, <1>3, <1>8 DEF IInv

LEMMA Invariant == Spec => []IInv
  BY Start, Step, PTL DEF Spec

(* Every variable of the connection keeps a value of its type, and the     *)
(* mutex is locked exactly while a call of Write is between Lock and its   *)
(* end (TypeOK), for any number of writers and any sizes.                  *)
THEOREM TypeCorrect == Spec => []TypeOK
  <1>1. IInv => TypeOK
    BY DEF IInv
  <1> QED
    BY <1>1, Invariant, PTL

(* No two frames of SecretConnection.Write are sealed with the same nonce  *)
(* (NoncesDiffer): the mutex makes sealing and counting one step, and the  *)
(* counter stops before it would wrap around.                              *)
THEOREM NoncesDiffering == Spec => []NoncesDiffer
  <1>1. IInv => NoncesDiffer
    <2> SUFFICES ASSUME IInv, NEW i \in DOMAIN nonces, NEW j \in DOMAIN nonces,
                        nonces[i] = nonces[j]
                 PROVE  i = j
      BY DEF NoncesDiffer
    <2>1. nonces \in Seq(Nonces) /\ nonces[i] = i - 1 /\ nonces[j] = j - 1
      BY DEF IInv, TypeOK, Counted
    <2>2. i \in Nat /\ j \in Nat
      BY <2>1
    <2>3. i - 1 = j - 1
      BY <2>1
    <2> QED
      BY <2>2, <2>3
  <1> QED
    BY <1>1, Invariant, PTL

-------------------------------------------------------------------------------
(* The stream of bytes *)

(* off[n] is the number of bytes that were sealed with a nonce below n; a  *)
(* frame with the nonce n has the bytes of the stream s from there.  m     *)
(* nonces have been used.                                                  *)
InPlace(off, m, s, n, bytes) ==
    /\ n < m /\ Len(bytes) > 0
    /\ off[n] + Len(bytes) = off[n + 1]
    /\ \A i \in 1..Len(bytes) : bytes[i] = s[off[n] + i]

FramesInPlace(off) ==
    /\ off[Len(nonces)] = Len(sent)
    /\ \A k \in 0..Len(nonces) : off[k] <= Len(sent)
    /\ \A w \in Writers : writer[w].pc \in {"incr", "write"} =>
         InPlace(off, Len(nonces), sent, writer[w].nonce, writer[w].frame)
    /\ \A k \in DOMAIN wire : InPlace(off, Len(nonces), sent, wire[k].nonce, wire[k].bytes)
    /\ Len(received) + Len(recvBuffer) = off[recvNonce]

Placed == \E off \in [Nat -> Nat] : FramesInPlace(off)

(* What was read, and what is kept, is the beginning of the stream.        *)
ReadInPlace ==
    /\ \A i \in 1..Len(received) : received[i] = sent[i]
    /\ \A i \in 1..Len(recvBuffer) : recvBuffer[i] = sent[Len(received) + i]

HasData == \A w \in Writers : writer[w].pc \in {"lock", "seal"} => writer[w].data # << >>

StreamInv == IInv /\ HasData /\ ReadInPlace /\ Placed

(* Two sequences joined. *)
LEMMA Joined ==
    ASSUME NEW S, NEW s \in Seq(S), NEW t \in Seq(S)
    PROVE  /\ s \o t \in Seq(S) /\ Len(s \o t) = Len(s) + Len(t)
           /\ Len(s) \in Nat /\ Len(t) \in Nat
           /\ \A i \in 1..Len(s) : (s \o t)[i] = s[i]
           /\ \A i \in 1..Len(t) : (s \o t)[Len(s) + i] = t[i]
  <1>1. s \o t \in Seq(S) /\ Len(s) \in Nat /\ Len(t) \in Nat
    OBVIOUS
  <1>2. Len(s \o t) = Len(s) + Len(t)
    OBVIOUS
  <1>3. \A i \in 1..Len(s) : (s \o t)[i] = s[i]
    OBVIOUS
  <1>4. \A i \in 1..Len(t) : (s \o t)[Len(s) + i] = t[i]
    OBVIOUS
  <1> QED
    BY <1>1, <1>2, <1>3, <1>4

(* A Read takes its bytes from the front of what there is. *)
LEMMA ReturnInPlace ==
    ASSUME TypeOK, NEW bytes \in Seq(Bytes), Len(bytes) > 0, NEW n \in 1..ReadSize,
           Return(bytes, n), sent' = sent,
           \A i \in 1..Len(received) : received[i] = sent[i],
           \A i \in 1..Len(bytes) : bytes[i] = sent[Len(received) + i],
           Len(received) + Len(bytes) <= Len(sent)
    PROVE  /\ ReadInPlace'
           /\ Len(received') + Len(recvBuffer') = Len(received) + Len(bytes)
           /\ Stream!Receive
  <1> DEFINE m == Smaller(n, Len(bytes))
  <1>1. /\ received \in Seq(Bytes) /\ sent \in Seq(Bytes)
        /\ Len(received) \in Nat /\ Len(bytes) \in Nat /\ Len(sent) \in Nat /\ n \in Nat
    BY SizesAssumption DEF TypeOK
  <1>2. m \in 1..Len(bytes) /\ m <= n /\ m \in 0..Len(bytes)
    BY <1>1 DEF Smaller
  <1>3. /\ Front(bytes, n) \in Seq(Bytes) /\ Len(Front(bytes, n)) = m
        /\ \A i \in 1..m : Front(bytes, n)[i] = bytes[i]
    BY <1>1, FrontProperties
  <1>4. /\ Rest(bytes, m) \in Seq(Bytes) /\ Len(Rest(bytes, m)) = Len(bytes) - m
        /\ \A i \in 1..(Len(bytes) - m) : Rest(bytes, m)[i] = bytes[m + i]
    BY <1>2, RestProperties
  <1>5. received' = received \o Front(bytes, n) /\ recvBuffer' = Rest(bytes, m)
    BY DEF Return
  <1> HIDE DEF m
  <1>6. /\ received' \in Seq(Bytes) /\ Len(received') = Len(received) + m
        /\ \A i \in 1..Len(received) : received'[i] = received[i]
        /\ \A i \in 1..m : received'[Len(received) + i] = Front(bytes, n)[i]
    <2> DEFINE front == Front(bytes, n)
    <2>1. front \in Seq(Bytes) /\ Len(front) = m
      BY <1>3
    <2>2. received' = received \o front
      BY <1>5
    <2>a. received \in Seq(Bytes)
      BY <1>1
    <2>b. front \in Seq(Bytes)
      BY <2>1
    <2> HIDE DEF front
    <2>3. /\ received \o front \in Seq(Bytes)
          /\ Len(received \o front) = Len(received) + Len(front)
          /\ \A i \in 1..Len(received) : (received \o front)[i] = received[i]
          /\ \A i \in 1..Len(front) : (received \o front)[Len(received) + i] = front[i]
      BY <2>a, <2>b, Joined
    <2>4. /\ received' \in Seq(Bytes) /\ Len(received') = Len(received) + m
          /\ \A i \in 1..Len(received) : received'[i] = received[i]
          /\ \A i \in 1..m : received'[Len(received) + i] = front[i]
      BY <2>1, <2>2, <2>3
    <2> QED
      BY <2>4 DEF front
  <1>7. ASSUME NEW i \in 1..Len(received') PROVE received'[i] = sent[i]
    <2>1. CASE i <= Len(received)
      BY <1>1, <1>6, <2>1
    <2>2. CASE i > Len(received)
      <3>1. i - Len(received) \in 1..m /\ i - Len(received) \in 1..Len(bytes)
        BY <1>1, <1>2, <1>6, <2>2
      <3>2. PICK j \in 1..m : i = Len(received) + j /\ j \in 1..Len(bytes)
        BY <1>1, <3>1
      <3>3. received'[i] = bytes[j]
        BY <1>3, <1>6, <3>2
      <3>4. bytes[j] = sent[i]
        BY <3>2
      <3> QED
        BY <3>3, <3>4
    <2> QED
      BY <1>1, <1>6, <2>1, <2>2
  <1>8. ASSUME NEW i \in 1..Len(recvBuffer') PROVE recvBuffer'[i] = sent[Len(received') + i]
    <2>1. i \in 1..(Len(bytes) - m) /\ m + i \in 1..Len(bytes)
      BY <1>1, <1>2, <1>4, <1>5
    <2>2. recvBuffer'[i] = bytes[m + i] /\ bytes[m + i] = sent[Len(received) + (m + i)]
      BY <1>4, <1>5, <2>1
    <2>3. Len(received) + (m + i) = Len(received') + i
      BY <1>1, <1>2, <1>6, <2>1
    <2> QED
      BY <2>2, <2>3
  <1>9. ReadInPlace'
    BY <1>7, <1>8 DEF ReadInPlace
  <1>10. Len(received') + Len(recvBuffer') = Len(received) + Len(bytes)
    <2>1. Len(recvBuffer') = Len(bytes) - m /\ Len(received') = Len(received) + m
      BY <1>4, <1>5, <1>6
    <2> QED
      BY <1>1, <1>2, <2>1
  <1>11. Len(received') <= Len(sent) /\ Len(received) <= Len(received')
         /\ Len(received') - Len(received) \in 1..ReadSize
    <2>1. Len(received') = Len(received) + m
      BY <1>6
    <2>2. m <= ReadSize
      BY <1>1, <1>2, SizesAssumption
    <2> QED
      BY <1>1, <1>2, <2>1, <2>2, SizesAssumption
  <1>12. \A i \in 1..Len(received) : received[i] = received'[i]
    BY <1>1, <1>6, <1>11
  <1>13. DOMAIN received = 1..Len(received) /\ DOMAIN received' = 1..Len(received')
    BY <1>1, <1>6
  <1>14. Stream!IsPrefixOf(received, received')
    BY <1>11, <1>12, <1>13 DEF Stream!IsPrefixOf
  <1>15. Stream!IsPrefixOf(received', sent)
    BY <1>7, <1>11, <1>13 DEF Stream!IsPrefixOf
  <1> QED
    BY <1>9, <1>10, <1>11, <1>14, <1>15 DEF Stream!Receive

(* A frame of what a writer has left is sealed. *)
LEMMA SealSends ==
    ASSUME TypeOK, HasData, NEW w \in Writers, Seal(w)
    PROVE  \E chunk \in Seq(Bytes) :
             /\ writer'[w].frame = chunk /\ Len(chunk) > 0
             /\ sent' \in Seq(Bytes) /\ Len(sent') = Len(sent) + Len(chunk)
             /\ \A i \in 1..Len(sent) : sent'[i] = sent[i]
             /\ \A i \in 1..Len(chunk) : sent'[Len(sent) + i] = chunk[i]
             /\ Stream!Send
  <1>1. PICK chunk \in Seq(Bytes), r \in WriterType :
          /\ Len(chunk) = Smaller(DataMaxSize, Len(writer[w].data))
          /\ r.frame = chunk
          /\ writer' = [writer EXCEPT ![w] = r]
          /\ sent' = sent \o chunk
    BY StepSeal
  <1>2. writer'[w].frame = chunk
    BY <1>1, WriterRecord, Update
  <1>3. writer[w].data \in Seq(Bytes) /\ writer[w].data # << >>
    BY WriterRecord DEF WriterType, HasData, Seal, At
  <1>4. Len(writer[w].data) \in Nat \ {0}
    BY <1>3
  <1>5. Len(chunk) \in 1..DataMaxSize /\ Len(chunk) \in Nat
    BY <1>1, <1>4, SizesAssumption DEF Smaller
  <1>6. sent \in Seq(Bytes) /\ Len(sent) \in Nat
    BY DEF TypeOK
  <1>7. /\ sent' \in Seq(Bytes) /\ Len(sent') = Len(sent) + Len(chunk)
        /\ \A i \in 1..Len(sent) : sent'[i] = sent[i]
        /\ \A i \in 1..Len(chunk) : sent'[Len(sent) + i] = chunk[i]
    <2>1. sent' = sent \o chunk
      BY <1>1
    <2> QED
      BY <1>6, <2>1, Joined
  <1>10. Stream!Send
    <2>1. received' = received
      BY DEF Seal, recvVars
    <2>2. Len(sent) <= Len(sent') /\ Len(sent') - Len(sent) \in 1..DataMaxSize
      BY <1>5, <1>6, <1>7
    <2>3. DOMAIN sent = 1..Len(sent)
      BY <1>6
    <2>4. Stream!IsPrefixOf(sent, sent')
      BY <1>7, <2>2, <2>3 DEF Stream!IsPrefixOf
    <2> QED
      BY <2>1, <2>2, <2>4 DEF Stream!Send
  <1> QED
    BY <1>2, <1>5, <1>7, <1>10

LEMMA DomainOfSeq ==
    ASSUME NEW S, NEW s \in Seq(S)
    PROVE  DOMAIN s = 1..Len(s) /\ Len(s) \in Nat
  OBVIOUS

LEMMA Types ==
    ASSUME TypeOK
    PROVE  /\ writer \in [Writers -> WriterType] /\ wire \in Seq(FrameType)
           /\ sent \in Seq(Bytes) /\ received \in Seq(Bytes) /\ recvBuffer \in Seq(Bytes)
           /\ Len(sent) \in Nat /\ Len(received) \in Nat /\ Len(recvBuffer) \in Nat
           /\ nonces \in Seq(Nonces) /\ Len(nonces) \in Nat
           /\ sendNonce \in Nat /\ recvNonce \in Nat
  BY SizesAssumption DEF TypeOK, WriterType, FrameType, Nonces

LEMMA NextIndex ==
    ASSUME NEW m \in Nat, NEW n \in Nat, n = m \/ n = m + 1, NEW k \in 1..n, k \notin 1..m
    PROVE  k = m + 1 /\ n = m + 1
  OBVIOUS

LEMMA StepHasData ==
    ASSUME TypeOK, HasData, [Next]_vars
    PROVE  HasData'
  <1>r. writer \in [Writers -> WriterType]
    BY DEF TypeOK, WriterType
  <1>1. ASSUME NEW w \in Writers, NEW r \in WriterType, writer' = [writer EXCEPT ![w] = r],
               r.pc \in {"lock", "seal"} => r.data # << >>
        PROVE  HasData'
    <2>1. writer'[w] = r /\ \A v \in Writers : v # w => writer'[v] = writer[v]
      BY <1>1, <1>r, Update
    <2> QED
      BY <1>1, <2>1 DEF HasData
  <1>2. ASSUME NEW w \in Writers, Call(w) PROVE HasData'
    <2>1. PICK n \in 1..MaxData, r \in WriterType :
            /\ writer' = [writer EXCEPT ![w] = r]
            /\ r.data = Data(calls + 1, n) /\ calls + 1 \in 1..MaxCalls
      BY <1>2, StepCall
    <2>2. Len(r.data) = n /\ n > 0
      BY <2>1, DataProperties, SizesAssumption
    <2>3. r.data # << >>
      BY <2>2
    <2> QED
      BY <1>1, <2>1, <2>3
  <1>3. ASSUME NEW w \in Writers, Lock(w) PROVE HasData'
    <2>1. PICK r \in WriterType : writer' = [writer EXCEPT ![w] = r] /\ r = [writer[w] EXCEPT !.pc = "seal"]
      BY <1>3, StepLock
    <2>2. r.data = writer[w].data /\ writer[w].data # << >>
      BY <1>3, <1>r, <2>1 DEF HasData, Lock, At, WriterType
    <2> QED
      BY <1>1, <2>1, <2>2
  <1>4. ASSUME NEW w \in Writers, Seal(w) \/ IncrNonce(w) \/ WriteFails(w) PROVE HasData'
    <2>1. PICK r \in WriterType : writer' = [writer EXCEPT ![w] = r] /\ r.pc \notin {"lock", "seal"}
      <3>1. CASE Seal(w)
        BY <3>1, StepSeal
      <3>2. CASE IncrNonce(w)
        <4>1. [writer[w] EXCEPT !.pc = "write"].pc = "write"
          BY <1>r DEF WriterType
        <4> QED
          BY <3>2, <4>1, StepIncr
      <3>3. CASE WriteFails(w)
        BY <3>3, StepWriteFails DEF Idle
      <3> QED
        BY <1>4, <3>1, <3>2, <3>3
    <2> QED
      BY <1>1, <2>1
  <1>5. ASSUME NEW w \in Writers, WriteFrame(w) PROVE HasData'
    <2>1. PICK r \in WriterType :
            /\ writer' = [writer EXCEPT ![w] = r]
            /\ r.pc = IF writer[w].data = << >> THEN "idle" ELSE "seal"
            /\ writer[w].data # << >> => r = [writer[w] EXCEPT !.pc = "seal"]
      BY <1>5, StepWrite
    <2>2. writer[w].data # << >> => r.data = writer[w].data
      BY <1>r, <2>1 DEF WriterType
    <2> QED
      BY <1>1, <2>1, <2>2
  <1>6. (\E w \in Writers : IncrNoncePanics(w)) \/ Read \/ UNCHANGED vars => UNCHANGED writer
    BY DEF IncrNoncePanics, Read, ReadBuffer, ReadFrame, OpenFails, vars, sendVars
  <1>7. CASE UNCHANGED writer
    BY <1>7 DEF HasData
  <1> QED
    BY <1>2, <1>3, <1>4, <1>5, <1>6, <1>7 DEF Next, WriteFrames

(* A writer's step that seals nothing. *)
LEMMA WriterKeepsPlaces ==
    ASSUME StreamInv, NEW off \in [Nat -> Nat], FramesInPlace(off), NEW w \in Writers,
           Call(w) \/ Lock(w) \/ IncrNonce(w) \/ IncrNoncePanics(w) \/ WriteFrame(w) \/ WriteFails(w)
    PROVE  /\ UNCHANGED <<sent, received, recvBuffer, recvNonce>>
           /\ ReadInPlace' /\ FramesInPlace(off)'
  <1>i. TypeOK /\ ReadInPlace
    BY DEF StreamInv, IInv
  <1>r. writer \in [Writers -> WriterType] /\ wire \in Seq(FrameType)
    BY <1>i DEF TypeOK, WriterType, FrameType
  <1>u. UNCHANGED <<sent, nonces, received, recvBuffer, recvNonce>>
    BY DEF Call, Lock, IncrNonce, IncrNoncePanics, WriteFrame, WriteFails, recvVars
  <1> DEFINE P(n, bytes) == InPlace(off, Len(nonces), sent, n, bytes)
  <1>2. /\ off[Len(nonces)] = Len(sent) /\ \A k \in 0..Len(nonces) : off[k] <= Len(sent)
        /\ \A v \in Writers : writer[v].pc \in {"incr", "write"} => P(writer[v].nonce, writer[v].frame)
        /\ \A k \in DOMAIN wire : P(wire[k].nonce, wire[k].bytes)
        /\ Len(received) + Len(recvBuffer) = off[recvNonce]
    BY DEF FramesInPlace
  <1> HIDE DEF P
  <1>3. ASSUME NEW v \in Writers, writer'[v].pc \in {"incr", "write"}
        PROVE  P(writer'[v].nonce, writer'[v].frame)
    <2>1. ASSUME NEW r \in WriterType, writer' = [writer EXCEPT ![w] = r],
                 r.pc \notin {"incr", "write"}
          PROVE  P(writer'[v].nonce, writer'[v].frame)
      <3>1. writer'[w] = r /\ (v # w => writer'[v] = writer[v])
        BY <1>r, <2>1, Update
      <3> QED
        BY <1>2, <1>3, <2>1, <3>1
    <2>2. CASE Call(w)
      BY <1>i, <2>1, <2>2, StepCall
    <2>3. CASE Lock(w)
      <3>1. [writer[w] EXCEPT !.pc = "seal"].pc = "seal"
        BY <1>r DEF WriterType
      <3> QED
        BY <1>i, <2>1, <2>3, <3>1, StepLock
    <2>4. CASE IncrNonce(w)
      <3>1. PICK r \in WriterType : writer' = [writer EXCEPT ![w] = r]
                                    /\ r = [writer[w] EXCEPT !.pc = "write"]
        BY <1>i, <2>4, StepIncr
      <3>2. r.nonce = writer[w].nonce /\ r.frame = writer[w].frame
        BY <1>r, <3>1 DEF WriterType
      <3>3. writer'[w] = r /\ (v # w => writer'[v] = writer[v])
        BY <1>r, <3>1, Update
      <3>4. writer[w].pc = "incr"
        BY <2>4 DEF IncrNonce, At
      <3>5. P(writer[w].nonce, writer[w].frame)
        BY <1>2, <3>4
      <3> QED
        BY <1>2, <1>3, <3>2, <3>3, <3>5
    <2>5. CASE IncrNoncePanics(w)
      BY <1>2, <1>3, <2>5 DEF IncrNoncePanics
    <2>6. CASE WriteFrame(w) \/ WriteFails(w)
      <3>1. \E r \in WriterType : /\ writer' = [writer EXCEPT ![w] = r]
                                  /\ r.pc \notin {"incr", "write"}
        BY <1>i, <2>6, StepWrite, StepWriteFails DEF Idle
      <3> QED
        BY <2>1, <3>1
    <2> QED
      BY <2>2, <2>3, <2>4, <2>5, <2>6
  <1>4. ASSUME NEW k \in DOMAIN wire' PROVE P(wire'[k].nonce, wire'[k].bytes)
    <2>1. CASE wire' = wire
      BY <1>2, <2>1
    <2>2. CASE WriteFrame(w) \/ WriteFails(w)
      <3>0. wire' \in Seq(FrameType)
        BY <1>i, <2>2, WireGrows
      <3>1. Len(wire) \in Nat /\ (Len(wire') = Len(wire) \/ Len(wire') = Len(wire) + 1)
        BY <1>i, <2>2, WireGrows
      <3>a. \A j \in 1..Len(wire) : wire'[j] = wire[j]
        BY <1>i, <2>2, WireGrows
      <3>b. Len(wire') = Len(wire) + 1 =>
              \E whole \in BOOLEAN : wire'[Len(wire) + 1] = Frame(w, whole)
        BY <1>i, <2>2, WireGrows
      <3>c. Len(wire') \in Nat
        BY <3>1
      <3>d. DOMAIN wire = 1..Len(wire)
        BY <1>r, DomainOfSeq
      <3>2. k \in 1..Len(wire')
        BY <3>0, DomainOfSeq
      <3>3. CASE k \in 1..Len(wire)
        BY <1>2, <3>a, <3>d, <3>3
      <3>4. CASE k \notin 1..Len(wire)
        <4>1. k = Len(wire) + 1 /\ Len(wire') = Len(wire) + 1
          BY <3>1, <3>c, <3>2, <3>4, NextIndex
        <4>2. PICK whole \in BOOLEAN : wire'[k] = Frame(w, whole)
          BY <3>b, <4>1
        <4>3. wire'[k].nonce = writer[w].nonce /\ wire'[k].bytes = writer[w].frame
          BY <4>2 DEF Frame
        <4>4. writer[w].pc = "write"
          BY <2>2 DEF WriteFrame, WriteFails, At
        <4> QED
          BY <1>2, <4>3, <4>4
      <3> QED
        BY <3>3, <3>4
    <2>3. CASE Call(w) \/ Lock(w) \/ IncrNonce(w) \/ IncrNoncePanics(w)
      <3>1. wire' = wire
        BY <2>3 DEF Call, Lock, IncrNonce, IncrNoncePanics
      <3> QED
        BY <2>1, <3>1
    <2> QED
      BY <2>2, <2>3
  <1>5. FramesInPlace(off)'
    BY <1>u, <1>2, <1>3, <1>4 DEF FramesInPlace, P
  <1>6. ReadInPlace'
    BY <1>i, <1>u DEF ReadInPlace
  <1> QED
    BY <1>u, <1>5, <1>6

LEMMA NonceIsNat == ASSUME NEW n \in Nonces PROVE n \in Nat
  BY SizesAssumption DEF Nonces

LEMMA Within ==
    ASSUME NEW a \in Nat, NEW b \in Nat, NEW c \in Nat, a + b <= c, NEW i \in 1..b
    PROVE  a + i \in 1..c
  OBVIOUS

(* A frame stays in its place when the stream grows and off gets one more. *)
LEMMA StaysInPlace ==
    ASSUME NEW m \in Nat, NEW off \in [Nat -> Nat], NEW x \in Nat, NEW s \in Seq(Bytes),
           NEW t \in Seq(Bytes), \A i \in 1..Len(s) : t[i] = s[i],
           \A k \in 0..m : off[k] <= Len(s),
           NEW n \in Nat, NEW bytes \in Seq(Bytes), InPlace(off, m, s, n, bytes)
    PROVE  InPlace([off EXCEPT ![m + 1] = x], m + 1, t, n, bytes)
  <1> DEFINE new == [off EXCEPT ![m + 1] = x]
  <1>1. n < m /\ Len(bytes) > 0 /\ off[n] + Len(bytes) = off[n + 1]
        /\ \A i \in 1..Len(bytes) : bytes[i] = s[off[n] + i]
    BY DEF InPlace
  <1>2. n \in 0..m /\ n + 1 \in 0..m /\ n # m + 1 /\ n + 1 # m + 1
    BY <1>1
  <1>3. new[n] = off[n] /\ new[n + 1] = off[n + 1]
    BY <1>2
  <1>4. off[n] \in Nat /\ off[n + 1] <= Len(s)
    BY <1>2
  <1>l. Len(s) \in Nat /\ Len(bytes) \in Nat
    BY DomainOfSeq
  <1>5. ASSUME NEW i \in 1..Len(bytes) PROVE bytes[i] = t[off[n] + i]
    <2>1. off[n] + i \in 1..Len(s)
      <3>1. off[n] + Len(bytes) <= Len(s)
        BY <1>1, <1>4
      <3> QED
        BY <1>4, <1>l, <3>1, Within
    <2> QED
      BY <1>1, <2>1
  <1>6. n < m + 1
    BY <1>1
  <1> HIDE DEF new
  <1>7. InPlace(new, m + 1, t, n, bytes)
    BY <1>1, <1>3, <1>5, <1>6 DEF InPlace
  <1> QED
    BY <1>7 DEF new

LEMMA SealKeepsPlaces ==
    ASSUME StreamInv, NEW off \in [Nat -> Nat], FramesInPlace(off), NEW w \in Writers, Seal(w)
    PROVE  /\ ReadInPlace'
           /\ Len(nonces') = Len(nonces) + 1
           /\ \E new \in [Nat -> Nat] :
                /\ FramesInPlace(new)'
                /\ new[Len(nonces) + 1] = Len(sent')
                /\ \A k \in Nat : k # Len(nonces) + 1 => new[k] = off[k]
  <1>i. TypeOK /\ HasData /\ ReadInPlace /\ Exclusive /\ Counted /\ Used
    BY DEF StreamInv, IInv
  <1>r. /\ writer \in [Writers -> WriterType] /\ wire \in Seq(FrameType)
        /\ sent \in Seq(Bytes) /\ Len(sent) \in Nat
        /\ received \in Seq(Bytes) /\ recvBuffer \in Seq(Bytes)
        /\ nonces \in Seq(Nonces) /\ sendNonce \in Nat /\ recvNonce \in Nat
    BY <1>i, Types
  <1>u. UNCHANGED <<wire, received, recvBuffer, recvNonce>>
    BY DEF Seal, recvVars
  <1> DEFINE m == Len(nonces)
  <1>2. /\ off[m] = Len(sent) /\ \A k \in 0..m : off[k] <= Len(sent)
        /\ \A v \in Writers : writer[v].pc \in {"incr", "write"} =>
             InPlace(off, m, sent, writer[v].nonce, writer[v].frame)
        /\ \A k \in DOMAIN wire : InPlace(off, m, sent, wire[k].nonce, wire[k].bytes)
        /\ Len(received) + Len(recvBuffer) = off[recvNonce]
    BY DEF FramesInPlace
  <1>3. PICK chunk \in Seq(Bytes) :
          /\ writer'[w].frame = chunk /\ Len(chunk) > 0
          /\ sent' \in Seq(Bytes) /\ Len(sent') = Len(sent) + Len(chunk)
          /\ \A i \in 1..Len(sent) : sent'[i] = sent[i]
          /\ \A i \in 1..Len(chunk) : sent'[Len(sent) + i] = chunk[i]
    BY <1>i, SealSends
  <1>4. PICK r \in WriterType : /\ writer' = [writer EXCEPT ![w] = r]
                                /\ r.pc = "incr" /\ r.nonce = sendNonce
                                /\ nonces' = Append(nonces, sendNonce)
    BY <1>i, StepSeal
  <1>5. writer'[w] = r /\ \A v \in Writers : v # w => writer'[v] = writer[v]
    BY <1>r, <1>4, Update
  <1>6. ~Incr
    BY <1>i DEF Incr, Exclusive, Busy, Seal, At
  <1>7. m = sendNonce /\ m \in Nat
    <2>1. m = sendNonce + (IF Incr THEN 1 ELSE 0)
      BY <1>i DEF Counted
    <2> QED
      BY <1>r, <1>6, <2>1
  <1>m. m + 1 \in Nat
    BY <1>7
  <1>8. Len(nonces') = m + 1
    <2>1. sendNonce \in Nonces
      BY <1>i DEF TypeOK
    <2> QED
      BY <1>r, <1>4, <2>1, OneMore
  <1>9. Len(sent') \in Nat
    BY <1>3
  <1>10. PICK new \in [Nat -> Nat] : new = [off EXCEPT ![m + 1] = Len(sent')]
    <2>2. [off EXCEPT ![m + 1] = Len(sent')] \in [Nat -> Nat]
      BY <1>9
    <2> QED
      BY <2>2
  <1>n. new[m + 1] = Len(sent') /\ \A k \in Nat : k # m + 1 => new[k] = off[k]
    BY <1>m, <1>10
  <1> HIDE DEF m
  <1>11. ASSUME NEW n \in Nat, NEW bytes \in Seq(Bytes), InPlace(off, m, sent, n, bytes)
         PROVE  InPlace(new, m + 1, sent', n, bytes)
    BY <1>r, <1>2, <1>3, <1>7, <1>9, <1>10, <1>11, StaysInPlace
  <1>12. ASSUME NEW k \in 0..(m + 1) PROVE new[k] <= Len(sent')
    <2>1. CASE k = m + 1
      BY <1>9, <1>n, <2>1
    <2>2. CASE k # m + 1
      <3>0. k \in 0..m /\ k \in Nat
        BY <1>7, <2>2
      <3>1. k \in 0..m /\ new[k] = off[k] /\ off[k] \in Nat
        BY <1>n, <2>2, <3>0
      <3>2. off[k] <= Len(sent)
        BY <1>2, <3>1
      <3>3. Len(sent) <= Len(sent')
        BY <1>r, <1>3, <1>9
      <3> QED
        BY <1>r, <1>9, <3>1, <3>2, <3>3
    <2> QED
      BY <2>1, <2>2
  <1>13. ASSUME NEW v \in Writers, writer'[v].pc \in {"incr", "write"}
         PROVE  InPlace(new, m + 1, sent', writer'[v].nonce, writer'[v].frame)
    <2>1. CASE v # w
      <3>1. writer'[v] = writer[v]
        BY <1>5, <2>1
      <3>2. writer[v].nonce \in Nat /\ writer[v].frame \in Seq(Bytes)
        BY <1>r, NonceIsNat DEF WriterType
      <3>3. InPlace(off, m, sent, writer[v].nonce, writer[v].frame)
        BY <1>2, <1>13, <3>1
      <3>4. InPlace(new, m + 1, sent', writer[v].nonce, writer[v].frame)
        BY <1>11, <3>2, <3>3
      <3> QED
        BY <3>1, <3>4
    <2>2. CASE v = w
      <3>1. writer'[v].nonce = m /\ writer'[v].frame = chunk
        BY <1>3, <1>4, <1>5, <1>7, <2>2
      <3>2. new[m] = Len(sent) /\ new[m + 1] = Len(sent) + Len(chunk) /\ m < m + 1
        BY <1>2, <1>3, <1>7, <1>n
      <3>3. InPlace(new, m + 1, sent', m, chunk)
        BY <1>3, <3>2 DEF InPlace
      <3> QED
        BY <3>1, <3>3
    <2> QED
      BY <2>1, <2>2
  <1>14. ASSUME NEW k, k \in DOMAIN wire'
         PROVE  InPlace(new, m + 1, sent', wire'[k].nonce, wire'[k].bytes)
    <2>0. wire' = wire
      BY <1>u
    <2>1. wire' = wire /\ k \in DOMAIN wire
      BY <1>14, <2>0
    <2>2. wire[k] \in FrameType
      <3>1. k \in 1..Len(wire)
        BY <1>r, <2>1, DomainOfSeq
      <3> QED
        BY <1>r, <3>1, ElementOfSeq
    <2>3. wire[k].nonce \in Nat /\ wire[k].bytes \in Seq(Bytes)
      BY <2>2, NonceIsNat DEF FrameType
    <2>4. InPlace(off, m, sent, wire[k].nonce, wire[k].bytes)
      BY <1>2, <2>1
    <2>5. InPlace(new, m + 1, sent', wire[k].nonce, wire[k].bytes)
      BY <1>11, <2>3, <2>4
    <2> QED
      BY <2>1, <2>5
  <1>15. recvNonce \in 0..m
    <2>1. recvNonce <= sendNonce
      BY <1>i DEF Used
    <2> QED
      BY <1>r, <1>7, <2>1
  <1>16. Len(received') + Len(recvBuffer') = new[recvNonce']
    <2>1. recvNonce # m + 1
      BY <1>7, <1>15
    <2>2. new[recvNonce] = off[recvNonce]
      BY <1>r, <1>n, <2>1
    <2> QED
      BY <1>u, <1>2, <2>2
  <1>17. FramesInPlace(new)'
    BY <1>8, <1>n, <1>12, <1>13, <1>14, <1>16 DEF FramesInPlace, m
  <1>18. Len(received) + Len(recvBuffer) <= Len(sent)
    BY <1>2, <1>15
  <1>19. ReadInPlace'
    <2>1. Len(received) \in Nat /\ Len(recvBuffer) \in Nat
      BY <1>r, DomainOfSeq
    <2>2. ASSUME NEW i \in 1..Len(received) PROVE received[i] = sent'[i]
      <3>1. i \in 1..Len(sent)
        BY <1>r, <1>18, <2>1
      <3>2. received[i] = sent[i]
        BY <1>i DEF ReadInPlace
      <3> QED
        BY <1>3, <3>1, <3>2
    <2>3. ASSUME NEW i \in 1..Len(recvBuffer) PROVE recvBuffer[i] = sent'[Len(received) + i]
      <3>1. Len(received) + i \in 1..Len(sent)
        BY <1>r, <1>18, <2>1, Within
      <3>2. recvBuffer[i] = sent[Len(received) + i]
        BY <1>i DEF ReadInPlace
      <3> QED
        BY <1>3, <3>1, <3>2
    <2> QED
      BY <1>u, <2>2, <2>3 DEF ReadInPlace
  <1> QED
    BY <1>8, <1>n, <1>17, <1>19 DEF m

LEMMA ReadKeepsPlaces ==
    ASSUME StreamInv, NEW off \in [Nat -> Nat], FramesInPlace(off), Read
    PROVE  /\ ReadInPlace' /\ FramesInPlace(off)'
           /\ Stream!Receive \/ UNCHANGED <<sent, received>>
  <1>i. TypeOK /\ ReadInPlace /\ Counted /\ Used
    BY DEF StreamInv, IInv
  <1>r. /\ wire \in Seq(FrameType) /\ sent \in Seq(Bytes) /\ Len(sent) \in Nat
        /\ received \in Seq(Bytes) /\ recvBuffer \in Seq(Bytes)
        /\ Len(received) \in Nat /\ Len(recvBuffer) \in Nat
        /\ nonces \in Seq(Nonces) /\ Len(nonces) \in Nat
        /\ sendNonce \in Nat /\ recvNonce \in Nat
    BY <1>i, Types
  <1>u. UNCHANGED <<writer, sent, nonces>>
    BY DEF Read, ReadBuffer, ReadFrame, OpenFails, sendVars
  <1>2. /\ off[Len(nonces)] = Len(sent) /\ \A k \in 0..Len(nonces) : off[k] <= Len(sent)
        /\ \A v \in Writers : writer[v].pc \in {"incr", "write"} =>
             InPlace(off, Len(nonces), sent, writer[v].nonce, writer[v].frame)
        /\ \A k \in DOMAIN wire : InPlace(off, Len(nonces), sent, wire[k].nonce, wire[k].bytes)
        /\ Len(received) + Len(recvBuffer) = off[recvNonce]
    BY DEF FramesInPlace
  <1>3. recvNonce \in 0..Len(nonces)
    <2>1. recvNonce <= sendNonce
      BY <1>i DEF Used
    <2>2. Len(nonces) = sendNonce + (IF Incr THEN 1 ELSE 0)
      BY <1>i DEF Counted
    <2>3. sendNonce <= Len(nonces)
      BY <1>r, <2>2
    <2> QED
      BY <1>r, <2>1, <2>3
  <1>4. ASSUME \A k \in DOMAIN wire' : InPlace(off, Len(nonces), sent, wire'[k].nonce, wire'[k].bytes),
               Len(received') + Len(recvBuffer') = off[recvNonce']
        PROVE  FramesInPlace(off)'
    BY <1>u, <1>2, <1>4 DEF FramesInPlace
  <1>5. CASE ReadBuffer
    <2>1. PICK n \in 1..ReadSize : Return(recvBuffer, n)
      BY <1>5 DEF ReadBuffer
    <2>2. recvBuffer # << >> /\ wire' = wire /\ recvNonce' = recvNonce
      BY <1>5 DEF ReadBuffer
    <2>3. Len(recvBuffer) > 0
      BY <1>r, <2>2
    <2>4. Len(received) + Len(recvBuffer) <= Len(sent)
      BY <1>2, <1>3
    <2>5. /\ \A i \in 1..Len(received) : received[i] = sent[i]
          /\ \A i \in 1..Len(recvBuffer) : recvBuffer[i] = sent[Len(received) + i]
      BY <1>i DEF ReadInPlace
    <2>6. /\ ReadInPlace' /\ Stream!Receive
          /\ Len(received') + Len(recvBuffer') = Len(received) + Len(recvBuffer)
      BY <1>i, <1>r, <1>u, <2>1, <2>3, <2>4, <2>5, ReturnInPlace
    <2>7. FramesInPlace(off)'
      BY <1>2, <1>4, <2>2, <2>6
    <2> QED
      BY <2>6, <2>7
  <1>6. ASSUME wire # << >>, wire' = Tail(wire)
        PROVE  /\ wire[1] \in FrameType /\ Head(wire) = wire[1]
               /\ InPlace(off, Len(nonces), sent, wire[1].nonce, wire[1].bytes)
               /\ \A k \in DOMAIN wire' :
                    InPlace(off, Len(nonces), sent, wire'[k].nonce, wire'[k].bytes)
    <2>1. /\ wire' \in Seq(FrameType) /\ wire[1] \in FrameType /\ Head(wire) = wire[1]
          /\ Len(wire) \in Nat \ {0} /\ Len(wire') = Len(wire) - 1
          /\ \A k \in 1..Len(wire') : wire'[k] = wire[k + 1]
      BY <1>6, <1>r, WireShrinks
    <2>2. DOMAIN wire = 1..Len(wire) /\ DOMAIN wire' = 1..Len(wire')
      BY <1>r, <2>1, DomainOfSeq
    <2>3. 1 \in DOMAIN wire
      BY <2>1, <2>2
    <2>4. ASSUME NEW k, k \in DOMAIN wire'
          PROVE  InPlace(off, Len(nonces), sent, wire'[k].nonce, wire'[k].bytes)
      <3>1. k \in 1..Len(wire')
        BY <2>2, <2>4
      <3>2. k + 1 \in DOMAIN wire
        <4>1. k + 1 \in 1..Len(wire)
          BY <2>1, <3>1
        <4> QED
          BY <2>2, <4>1
      <3>3. wire'[k] = wire[k + 1]
        BY <2>1, <3>1
      <3> QED
        BY <1>2, <3>2, <3>3
    <2> QED
      BY <1>2, <2>1, <2>3, <2>4
  <1>7. CASE ReadFrame
    <2>1. recvBuffer = << >> /\ wire # << >> /\ wire' = Tail(wire) /\ recvNonce' = recvNonce + 1
      BY <1>7 DEF ReadFrame
    <2>2. Head(wire).nonce = recvNonce
      BY <1>7 DEF ReadFrame, Opens
    <2>3. PICK n \in 1..ReadSize : Return(Head(wire).bytes, n)
      BY <1>7 DEF ReadFrame
    <2> DEFINE bytes == Head(wire).bytes
    <2>4. bytes \in Seq(Bytes)
      BY <1>6, <2>1 DEF FrameType
    <2>5. InPlace(off, Len(nonces), sent, recvNonce, bytes)
      BY <1>6, <2>1, <2>2
    <2> HIDE DEF bytes
    <2>6. Len(recvBuffer) = 0 /\ Len(received) = off[recvNonce]
      BY <1>r, <1>2, <2>1
    <2>7. /\ recvNonce < Len(nonces) /\ Len(bytes) > 0
          /\ off[recvNonce] + Len(bytes) = off[recvNonce + 1]
          /\ \A i \in 1..Len(bytes) : bytes[i] = sent[Len(received) + i]
      BY <2>5, <2>6 DEF InPlace
    <2>8. Len(received) + Len(bytes) <= Len(sent)
      <3>1. recvNonce + 1 \in 0..Len(nonces)
        BY <1>r, <2>7
      <3> QED
        BY <1>2, <2>6, <2>7, <3>1
    <2>9. \A i \in 1..Len(received) : received[i] = sent[i]
      BY <1>i DEF ReadInPlace
    <2>10. Return(bytes, n)
      BY <2>3 DEF bytes
    <2>11. /\ ReadInPlace' /\ Stream!Receive
           /\ Len(received') + Len(recvBuffer') = Len(received) + Len(bytes)
      BY <1>i, <1>u, <2>4, <2>7, <2>8, <2>9, <2>10, ReturnInPlace
    <2>12. Len(received') + Len(recvBuffer') = off[recvNonce']
      BY <2>1, <2>6, <2>7, <2>11
    <2>13. FramesInPlace(off)'
      BY <1>4, <1>6, <2>1, <2>12
    <2> QED
      BY <2>11, <2>13
  <1>8. CASE OpenFails
    <2>1. wire # << >> /\ wire' = Tail(wire) /\ UNCHANGED <<received, recvBuffer, recvNonce>>
      BY <1>8 DEF OpenFails
    <2>2. FramesInPlace(off)'
      BY <1>2, <1>4, <1>6, <2>1
    <2>3. ReadInPlace'
      BY <1>i, <1>u, <2>1 DEF ReadInPlace
    <2> QED
      BY <1>u, <2>1, <2>2, <2>3
  <1> QED
    BY <1>5, <1>7, <1>8 DEF Read

LEMMA StreamStart == Init => StreamInv /\ Stream!Init
  <1> SUFFICES ASSUME Init PROVE StreamInv /\ Stream!Init
    OBVIOUS
  <1>1. IInv
    BY Start
  <1>2. HasData /\ ReadInPlace
    BY DEF Init, Idle, HasData, ReadInPlace
  <1>3. Placed
    <2> DEFINE off == [n \in Nat |-> 0]
    <2>1. off \in [Nat -> Nat] /\ off[0] = 0 /\ \A k \in 0..0 : off[k] = 0
      OBVIOUS
    <2>2. Len(nonces) = 0 /\ Len(sent) = 0 /\ Len(received) + Len(recvBuffer) = 0
          /\ recvNonce = 0 /\ DOMAIN wire = {}
      BY DEF Init
    <2>3. \A w \in Writers : writer[w].pc \notin {"incr", "write"}
      BY DEF Init, Idle
    <2> HIDE DEF off
    <2>4. FramesInPlace(off)
      BY <2>1, <2>2, <2>3 DEF FramesInPlace
    <2> QED
      BY <2>1, <2>4 DEF Placed
  <1>4. Stream!Init
    BY DEF Init, Stream!Init
  <1> QED
    BY <1>1, <1>2, <1>3, <1>4 DEF StreamInv

LEMMA StreamStep == StreamInv /\ [Next]_vars => StreamInv' /\ [Stream!Next]_(Stream!vars)
  <1> SUFFICES ASSUME StreamInv, [Next]_vars
               PROVE  StreamInv' /\ (Stream!Next \/ UNCHANGED <<sent, received>>)
    BY DEF Stream!vars
  <1>i. IInv /\ TypeOK /\ HasData /\ ReadInPlace /\ Placed
    BY DEF StreamInv, IInv
  <1>1. IInv' /\ HasData'
    BY <1>i, Step, StepHasData
  <1>2. ASSUME NEW w \in Writers,
               Call(w) \/ Lock(w) \/ IncrNonce(w) \/ IncrNoncePanics(w) \/ WriteFrame(w) \/ WriteFails(w)
        PROVE  ReadInPlace' /\ Placed' /\ UNCHANGED <<sent, received>>
    <2>1. PICK off \in [Nat -> Nat] : FramesInPlace(off)
      BY <1>i DEF Placed
    <2>2. /\ ReadInPlace' /\ UNCHANGED <<sent, received>>
          /\ FramesInPlace(off)'
      BY <1>2, <2>1, WriterKeepsPlaces
    <2> QED
      BY <2>2 DEF Placed
  <1>3. ASSUME NEW w \in Writers, Seal(w)
        PROVE  ReadInPlace' /\ Placed' /\ Stream!Next
    <2>1. Stream!Send
      BY <1>3, <1>i, SealSends
    <2>2. PICK off \in [Nat -> Nat] : FramesInPlace(off)
      BY <1>i DEF Placed
    <2>3. ReadInPlace' /\ \E new \in [Nat -> Nat] : FramesInPlace(new)'
      BY <1>3, <2>2, SealKeepsPlaces
    <2> QED
      BY <2>1, <2>3 DEF Stream!Next, Placed
  <1>4. CASE Read
    <2>1. PICK off \in [Nat -> Nat] : FramesInPlace(off)
      BY <1>i DEF Placed
    <2>2. ReadInPlace' /\ FramesInPlace(off)' /\ (Stream!Receive \/ UNCHANGED <<sent, received>>)
      BY <1>4, <2>1, ReadKeepsPlaces
    <2> QED
      BY <1>1, <2>2 DEF StreamInv, Stream!Next, Placed
  <1>5. CASE UNCHANGED vars
    <2>1. UNCHANGED <<writer, sent, nonces, wire, recvNonce, recvBuffer, received>>
      BY <1>5 DEF vars, sendVars, recvVars
    <2>2. ReadInPlace' /\ Placed'
      BY <1>i, <2>1 DEF ReadInPlace, Placed, FramesInPlace
    <2> QED
      BY <1>1, <2>1, <2>2 DEF StreamInv
  <1> QED
    BY <1>1, <1>2, <1>3, <1>4, <1>5 DEF Next, WriteFrames, StreamInv

(* What Read returns is a prefix of what Write sealed (IsByteStream): each *)
(* step of a SecretConnection is a step of ByteStream, or changes nothing  *)
(* there, through frames, remainders, failed writes and frames that do not *)
(* open, for any number of writers and any sizes.                          *)
THEOREM Implementation == Spec => IsByteStream
  <1>1. Init => Stream!Init
    BY StreamStart
  <1>2. Spec => []StreamInv
    BY StreamStart, StreamStep, PTL DEF Spec
  <1>3. StreamInv /\ [Next]_vars => [Stream!Next]_(Stream!vars)
    BY StreamStep
  <1> QED
    BY <1>1, <1>2, <1>3, PTL DEF Spec, IsByteStream, Stream!Spec

-------------------------------------------------------------------------------
(* Calls arrive whole *)

(* Byte b is the next one of a's call, or the first one of a call after a, *)
(* the last one of its call.                                               *)
Follows(a, b) ==
    IF b.i > 1 THEN a = [call |-> b.call, i |-> b.i - 1, last |-> FALSE] ELSE a.last

(* The bytes d are the end of a call. *)
Piece(d) ==
    /\ \A i \in 1..(Len(d) - 1) : Follows(d[i], d[i + 1])
    /\ Len(d) > 0 => d[Len(d)].last

(* The byte b may go on after the stream s; s ends with a whole call.      *)
After(s, b) == IF Len(s) = 0 THEN b.i = 1 ELSE Follows(s[Len(s)], b)
Ended(s) == Len(s) = 0 \/ s[Len(s)].last

(* The frame with the nonce n will not be opened: it was not written, or a *)
(* part of it was.                                                         *)
Lost(n) ==
    /\ recvNonce <= n /\ n < Len(nonces)
    /\ \A k \in DOMAIN wire : wire[k].nonce = n => ~wire[k].whole
    /\ \A w \in Writers : writer[w].pc \in {"incr", "write"} => writer[w].nonce # n
SomeLost == \E n \in Nat : Lost(n)

(* What a writer has left fits what was sealed, unless a frame was lost.   *)
Fits(w) ==
    /\ Piece(writer[w].data)
    /\ writer[w].pc = "lock" => writer[w].data[1].i = 1
    /\ writer[w].pc = "seal" => SomeLost \/ After(sent, writer[w].data[1])
    /\ writer[w].pc \in {"incr", "write"} =>
         IF writer[w].data = << >> THEN Ended(sent) ELSE After(sent, writer[w].data[1])

(* The frame that is being written is later than all that was written.     *)
Latest(w) ==
    writer[w].pc = "write" =>
      recvNonce <= writer[w].nonce /\ \A k \in DOMAIN wire : wire[k].nonce < writer[w].nonce

Quiet == (\A w \in Writers : ~Busy(w)) => SomeLost \/ Ended(sent)

(* Each byte of the stream follows the one before it, or comes after a     *)
(* lost frame.                                                             *)
Joins(s, p) == IF p = 1 THEN s[1].i = 1 ELSE Follows(s[p - 1], s[p])
Beyond(off, p) == \E n \in Nat : Lost(n) /\ off[n + 1] < p
Sound(off) ==
    /\ \A j, k \in 0..Len(nonces) : j <= k => off[j] <= off[k]
    /\ \A p \in 1..Len(sent) : Joins(sent, p) \/ Beyond(off, p)

WholeInv ==
    /\ IInv /\ HasData /\ ReadInPlace
    /\ \A w \in Writers : Fits(w) /\ Latest(w)
    /\ Quiet
    /\ \E off \in [Nat -> Nat] : FramesInPlace(off) /\ Sound(off)

LEMMA DataIsPiece ==
    ASSUME NEW c \in 1..MaxCalls, NEW n \in 1..MaxData
    PROVE  Piece(Data(c, n)) /\ Data(c, n)[1].i = 1
  <1> DEFINE d == Data(c, n)
  <1>0. n \in Nat /\ n > 0
    BY SizesAssumption
  <1>1. Len(d) = n /\ \A i \in 1..n : d[i] = [call |-> c, i |-> i, last |-> i = n]
    BY DataProperties
  <1> HIDE DEF d
  <1>2. ASSUME NEW i \in 1..(n - 1) PROVE Follows(d[i], d[i + 1])
    <2>1. i \in 1..n /\ i + 1 \in 1..n /\ i # n /\ i + 1 > 1 /\ (i + 1) - 1 = i
      BY <1>0
    <2>2. d[i] = [call |-> c, i |-> i, last |-> i = n]
      BY <1>1, <2>1
    <2>3. (i = n) = FALSE
      BY <2>1
    <2>4. d[i] = [call |-> c, i |-> i, last |-> FALSE]
      BY <2>2, <2>3
    <2>5. d[i + 1].call = c /\ d[i + 1].i = i + 1
      BY <1>1, <2>1
    <2> QED
      BY <2>1, <2>4, <2>5 DEF Follows
  <1>3. d[n].last
    <2>1. n \in 1..n /\ (n = n) = TRUE
      BY <1>0
    <2>2. d[n] = [call |-> c, i |-> n, last |-> TRUE]
      BY <1>1, <2>1
    <2> QED
      BY <2>2
  <1>4. d[1].i = 1
    <2>1. 1 \in 1..n
      BY <1>0
    <2> QED
      BY <1>1, <2>1
  <1> QED
    BY <1>1, <1>2, <1>3, <1>4 DEF Piece, d

(* A piece cut in two: the chunk that goes, and what is left. *)
LEMMA PieceCut ==
    ASSUME NEW d \in Seq(Bytes), Piece(d), NEW m \in 1..Len(d),
           NEW chunk \in Seq(Bytes), chunk = Front(d, DataMaxSize), Len(chunk) = m
    PROVE  /\ chunk[1] = d[1]
           /\ \A i \in 1..(m - 1) : Follows(chunk[i], chunk[i + 1])
           /\ Piece(Rest(d, m))
           /\ Rest(d, m) = << >> => chunk[m].last
           /\ Rest(d, m) # << >> => Follows(chunk[m], Rest(d, m)[1])
  <1>0. Len(d) \in Nat /\ m \in Nat /\ m \in 0..Len(d) /\ 1 <= m /\ m <= Len(d)
    BY DomainOfSeq
  <1>1. \A i \in 1..m : chunk[i] = d[i]
    <2>1. DataMaxSize \in Nat
      BY SizesAssumption
    <2>2. /\ Len(chunk) = Smaller(DataMaxSize, Len(d))
          /\ \A i \in 1..Smaller(DataMaxSize, Len(d)) : chunk[i] = d[i]
      BY <2>1, FrontProperties
    <2> QED
      BY <2>2
  <1> DEFINE r == Rest(d, m)
  <1>2. /\ r \in Seq(Bytes) /\ Len(r) = Len(d) - m
        /\ \A i \in 1..(Len(d) - m) : r[i] = d[m + i]
    BY <1>0, RestProperties
  <1> HIDE DEF r
  <1>3. /\ \A i \in 1..(Len(d) - 1) : Follows(d[i], d[i + 1])
        /\ Len(d) > 0 => d[Len(d)].last
    BY DEF Piece
  <1>4. chunk[1] = d[1]
    BY <1>0, <1>1
  <1>5. ASSUME NEW i \in 1..(m - 1) PROVE Follows(chunk[i], chunk[i + 1])
    <2>1. i \in 1..m /\ i + 1 \in 1..m /\ i \in 1..(Len(d) - 1)
      BY <1>0
    <2> QED
      BY <1>1, <1>3, <2>1
  <1>6. Piece(r)
    <2>1. ASSUME NEW i \in 1..(Len(r) - 1) PROVE Follows(r[i], r[i + 1])
      <3>1. i \in 1..(Len(d) - m) /\ i + 1 \in 1..(Len(d) - m)
            /\ m + i \in 1..(Len(d) - 1) /\ (m + i) + 1 = m + (i + 1)
        BY <1>0, <1>2
      <3>2. Follows(d[m + i], d[m + (i + 1)])
        BY <1>3, <3>1
      <3>3. r[i] = d[m + i] /\ r[i + 1] = d[m + (i + 1)]
        BY <1>2, <3>1
      <3> QED
        BY <3>2, <3>3
    <2>2. ASSUME Len(r) > 0 PROVE r[Len(r)].last
      <3>1. Len(r) \in 1..(Len(d) - m) /\ m + Len(r) = Len(d) /\ Len(d) > 0
        BY <1>0, <1>2, <2>2
      <3>2. r[Len(r)] = d[m + Len(r)]
        BY <1>2, <3>1
      <3> QED
        BY <1>3, <3>1, <3>2
    <2> QED
      BY <2>1, <2>2 DEF Piece
  <1>7. ASSUME r = << >> PROVE chunk[m].last
    <2>1. Len(r) = 0
      BY <1>7
    <2>2. m = Len(d) /\ Len(d) > 0 /\ m \in 1..m
      BY <1>0, <1>2, <2>1
    <2> QED
      BY <1>1, <1>3, <2>2
  <1>8. ASSUME r # << >> PROVE Follows(chunk[m], r[1])
    <2>1. Len(r) # 0 /\ Len(r) \in Nat
      BY <1>2, <1>8
    <2>2. m \in 1..(Len(d) - 1) /\ 1 \in 1..(Len(d) - m) /\ m \in 1..m
      BY <1>0, <1>2, <2>1
    <2>3. r[1] = d[m + 1] /\ chunk[m] = d[m]
      BY <1>1, <1>2, <2>2
    <2> QED
      BY <1>3, <2>2, <2>3
  <1> QED
    BY <1>4, <1>5, <1>6, <1>7, <1>8 DEF r

(* The records of the writers after each step. *)
LEMMA AfterCall ==
    ASSUME TypeOK, NEW w \in Writers, Call(w)
    PROVE  /\ writer[w].pc = "idle" /\ writer'[w].pc = "lock"
           /\ Piece(writer'[w].data) /\ writer'[w].data[1].i = 1
           /\ \A v \in Writers : v # w => writer'[v] = writer[v]
           /\ UNCHANGED <<sent, nonces, wire, recvNonce>>
  <1>1. PICK n \in 1..MaxData, r \in WriterType :
          /\ writer' = [writer EXCEPT ![w] = r]
          /\ r.pc = "lock" /\ r.data = Data(calls + 1, n)
          /\ calls + 1 \in 1..MaxCalls
    BY StepCall
  <1>2. writer'[w] = r /\ \A v \in Writers : v # w => writer'[v] = writer[v]
    BY <1>1, WriterRecord, Update
  <1>3. Piece(r.data) /\ r.data[1].i = 1
    BY <1>1, DataIsPiece
  <1>4. writer[w].pc = "idle" /\ UNCHANGED <<sent, nonces, wire, recvNonce>>
    BY DEF Call, At, recvVars
  <1> QED
    BY <1>1, <1>2, <1>3, <1>4

LEMMA AfterLock ==
    ASSUME TypeOK, NEW w \in Writers, Lock(w)
    PROVE  /\ writer[w].pc = "lock" /\ writer'[w].pc = "seal"
           /\ writer'[w].data = writer[w].data
           /\ \A v \in Writers : v # w => writer'[v] = writer[v]
           /\ \A v \in Writers : ~Busy(v)
           /\ UNCHANGED <<sent, nonces, wire, recvNonce>>
  <1>1. writer \in [Writers -> WriterType] /\ writer[w] \in WriterType
    BY WriterRecord
  <1>2. /\ writer'[w] = [writer[w] EXCEPT !.pc = "seal"]
        /\ \A v \in Writers : v # w => writer'[v] = writer[v]
    BY <1>1, StepLock, Update
  <1>3. writer'[w].pc = "seal" /\ writer'[w].data = writer[w].data
    BY <1>1, <1>2 DEF WriterType
  <1>4. \A v \in Writers : ~Busy(v)
    BY DEF Lock, TypeOK, Busy
  <1>5. writer[w].pc = "lock" /\ UNCHANGED <<sent, nonces, wire, recvNonce>>
    BY DEF Lock, At, recvVars
  <1> QED
    BY <1>2, <1>3, <1>4, <1>5

LEMMA AfterSeal ==
    ASSUME TypeOK, HasData, NEW w \in Writers, Seal(w)
    PROVE  \E chunk \in Seq(Bytes), m \in 1..Len(writer[w].data) :
             /\ chunk = Front(writer[w].data, DataMaxSize) /\ Len(chunk) = m
             /\ writer[w].pc = "seal" /\ writer'[w].pc = "incr"
             /\ writer'[w].data = Rest(writer[w].data, m)
             /\ writer'[w].nonce = sendNonce
             /\ \A v \in Writers : v # w => writer'[v] = writer[v]
             /\ sent' = sent \o chunk
             /\ UNCHANGED <<wire, recvNonce>>
  <1>1. PICK chunk \in Seq(Bytes), r \in WriterType :
          /\ chunk = Front(writer[w].data, DataMaxSize)
          /\ Len(chunk) = Smaller(DataMaxSize, Len(writer[w].data))
          /\ r.pc = "incr" /\ r.data = Rest(writer[w].data, Len(chunk))
          /\ r.nonce = sendNonce
          /\ writer' = [writer EXCEPT ![w] = r]
          /\ sent' = sent \o chunk
    BY StepSeal
  <1>2. writer'[w] = r /\ \A v \in Writers : v # w => writer'[v] = writer[v]
    BY <1>1, WriterRecord, Update
  <1>3. writer[w].pc = "seal" /\ UNCHANGED <<wire, recvNonce>>
    BY DEF Seal, At, recvVars
  <1>4. writer[w].data \in Seq(Bytes) /\ writer[w].data # << >>
    BY <1>3, WriterRecord DEF WriterType, HasData
  <1>5. Len(writer[w].data) \in Nat \ {0}
    BY <1>4
  <1>6. Len(chunk) \in 1..Len(writer[w].data)
    BY <1>1, <1>5, SizesAssumption DEF Smaller
  <1> QED
    BY <1>1, <1>2, <1>3, <1>6

LEMMA AfterIncr ==
    ASSUME TypeOK, NEW w \in Writers, IncrNonce(w)
    PROVE  /\ writer[w].pc = "incr" /\ writer'[w].pc = "write"
           /\ writer'[w].data = writer[w].data /\ writer'[w].nonce = writer[w].nonce
           /\ \A v \in Writers : v # w => writer'[v] = writer[v]
           /\ UNCHANGED <<sent, nonces, wire, recvNonce>>
  <1>1. writer \in [Writers -> WriterType] /\ writer[w] \in WriterType
    BY WriterRecord
  <1>2. /\ writer'[w] = [writer[w] EXCEPT !.pc = "write"]
        /\ \A v \in Writers : v # w => writer'[v] = writer[v]
    BY <1>1, StepIncr, Update
  <1>3. /\ writer'[w].pc = "write" /\ writer'[w].data = writer[w].data
        /\ writer'[w].nonce = writer[w].nonce
    BY <1>1, <1>2 DEF WriterType
  <1>4. writer[w].pc = "incr" /\ UNCHANGED <<sent, nonces, wire, recvNonce>>
    BY DEF IncrNonce, At, recvVars
  <1> QED
    BY <1>2, <1>3, <1>4

LEMMA AfterWrite ==
    ASSUME TypeOK, NEW w \in Writers, WriteFrame(w) \/ WriteFails(w)
    PROVE  /\ writer[w].pc = "write"
           /\ \/ writer'[w] = Idle /\ (WriteFails(w) \/ writer[w].data = << >>)
              \/ /\ writer'[w].pc = "seal" /\ writer'[w].data = writer[w].data
                 /\ writer[w].data # << >>
           /\ \A v \in Writers : v # w => writer'[v] = writer[v]
           /\ UNCHANGED <<sent, nonces, recvNonce>>
           /\ \A k : k \in DOMAIN wire' =>
                \/ k \in DOMAIN wire /\ wire'[k] = wire[k]
                \/ wire'[k].nonce = writer[w].nonce /\ (WriteFails(w) => ~wire'[k].whole)
  <1>r. /\ writer \in [Writers -> WriterType] /\ writer[w] \in WriterType
        /\ wire \in Seq(FrameType)
    BY WriterRecord, Types
  <1>0. Idle \in WriterType
    BY SizesAssumption DEF Idle, WriterType, Nonces
  <1>1. writer[w].pc = "write" /\ UNCHANGED <<sent, nonces, recvNonce>>
    BY DEF WriteFrame, WriteFails, At, recvVars
  <1>2. ASSUME writer' = [writer EXCEPT ![w] = Idle], WriteFails(w) \/ writer[w].data = << >>
        PROVE  /\ \/ writer'[w] = Idle /\ (WriteFails(w) \/ writer[w].data = << >>)
                  \/ /\ writer'[w].pc = "seal" /\ writer'[w].data = writer[w].data
                     /\ writer[w].data # << >>
               /\ \A v \in Writers : v # w => writer'[v] = writer[v]
    <2>1. writer'[w] = Idle /\ \A v \in Writers : v # w => writer'[v] = writer[v]
      BY <1>r, <1>0, <1>2, Update
    <2> QED
      BY <1>2, <2>1
  <1>3. ASSUME writer' = [writer EXCEPT ![w] = [writer[w] EXCEPT !.pc = "seal"]],
               writer[w].data # << >>
        PROVE  /\ \/ writer'[w] = Idle /\ (WriteFails(w) \/ writer[w].data = << >>)
                  \/ /\ writer'[w].pc = "seal" /\ writer'[w].data = writer[w].data
                     /\ writer[w].data # << >>
               /\ \A v \in Writers : v # w => writer'[v] = writer[v]
    <2>1. [writer[w] EXCEPT !.pc = "seal"] \in WriterType
      BY <1>r DEF WriterType
    <2>2. /\ writer'[w] = [writer[w] EXCEPT !.pc = "seal"]
          /\ \A v \in Writers : v # w => writer'[v] = writer[v]
      BY <1>r, <1>3, <2>1, Update
    <2>3. writer'[w].pc = "seal" /\ writer'[w].data = writer[w].data
      BY <1>r, <2>2 DEF WriterType
    <2> QED
      BY <1>3, <2>2, <2>3
  <1>4. \/ writer' = [writer EXCEPT ![w] = Idle] /\ (WriteFails(w) \/ writer[w].data = << >>)
        \/ writer' = [writer EXCEPT ![w] = [writer[w] EXCEPT !.pc = "seal"]]
           /\ writer[w].data # << >>
    BY DEF WriteFrame, WriteFails
  <1>5. ASSUME NEW k, k \in DOMAIN wire'
        PROVE  \/ k \in DOMAIN wire /\ wire'[k] = wire[k]
               \/ wire'[k].nonce = writer[w].nonce /\ (WriteFails(w) => ~wire'[k].whole)
    <2>1. wire' \in Seq(FrameType)
      BY WireGrows
    <2>2. Len(wire) \in Nat /\ (Len(wire') = Len(wire) \/ Len(wire') = Len(wire) + 1)
      BY WireGrows
    <2>3. \A j \in 1..Len(wire) : wire'[j] = wire[j]
      BY WireGrows
    <2>4. Len(wire') = Len(wire) + 1 =>
            \E whole \in BOOLEAN : /\ wire'[Len(wire) + 1] = Frame(w, whole)
                                   /\ WriteFails(w) => ~whole
      BY WireGrows
    <2>5. Len(wire') \in Nat
      BY <2>1, DomainOfSeq
    <2>6. k \in 1..Len(wire')
      BY <1>5, <2>1, DomainOfSeq
    <2>7. DOMAIN wire = 1..Len(wire)
      BY <1>r, DomainOfSeq
    <2>8. CASE k \in 1..Len(wire)
      BY <2>3, <2>7, <2>8
    <2>9. CASE k \notin 1..Len(wire)
      <3>1. k = Len(wire) + 1 /\ Len(wire') = Len(wire) + 1
        BY <2>2, <2>5, <2>6, <2>9, NextIndex
      <3>2. PICK whole \in BOOLEAN : wire'[k] = Frame(w, whole) /\ (WriteFails(w) => ~whole)
        BY <2>4, <3>1
      <3> QED
        BY <3>2 DEF Frame
    <2> QED
      BY <2>8, <2>9
  <1> QED
    BY <1>1, <1>2, <1>3, <1>4, <1>5

LEMMA AfterRead ==
    ASSUME TypeOK, Read
    PROVE  /\ UNCHANGED <<writer, sent, nonces, sendNonce>>
           /\ \A k : k \in DOMAIN wire' => \E j \in DOMAIN wire : wire'[k] = wire[j]
           /\ \/ recvNonce' = recvNonce
              \/ /\ recvNonce' = recvNonce + 1
                 /\ \E j \in DOMAIN wire : wire[j].nonce = recvNonce /\ wire[j].whole
  <1>r. wire \in Seq(FrameType)
    BY Types
  <1>1. UNCHANGED <<writer, sent, nonces, sendNonce>>
    BY DEF Read, ReadBuffer, ReadFrame, OpenFails, sendVars
  <1>2. CASE ReadBuffer
    BY <1>1, <1>2 DEF ReadBuffer
  <1>3. CASE ReadFrame \/ OpenFails
    <2>1. wire # << >> /\ wire' = Tail(wire)
      BY <1>3 DEF ReadFrame, OpenFails
    <2>2. /\ wire' \in Seq(FrameType) /\ Head(wire) = wire[1]
          /\ Len(wire) \in Nat \ {0} /\ Len(wire') = Len(wire) - 1
          /\ \A k \in 1..Len(wire') : wire'[k] = wire[k + 1]
      BY <1>r, <2>1, WireShrinks
    <2>3. DOMAIN wire = 1..Len(wire) /\ DOMAIN wire' = 1..Len(wire')
      BY <1>r, <2>2, DomainOfSeq
    <2>4. 1 \in DOMAIN wire
      BY <2>2, <2>3
    <2>5. ASSUME NEW k, k \in DOMAIN wire' PROVE \E j \in DOMAIN wire : wire'[k] = wire[j]
      <3>1. k \in 1..Len(wire')
        BY <2>3, <2>5
      <3>2. k + 1 \in 1..Len(wire)
        BY <2>2, <3>1
      <3> QED
        BY <2>2, <2>3, <3>1, <3>2
    <2>6. OpenFails => recvNonce' = recvNonce
      BY DEF OpenFails
    <2>7. ReadFrame => /\ recvNonce' = recvNonce + 1
                       /\ wire[1].nonce = recvNonce /\ wire[1].whole
      BY <2>2 DEF ReadFrame, Opens
    <2> QED
      BY <1>1, <1>3, <2>4, <2>5, <2>6, <2>7
  <1> QED
    BY <1>2, <1>3 DEF Read

(* The number of nonces that were used, beside the counter. *)
LEMMA HowMany ==
    ASSUME IInv
    PROVE  /\ sendNonce \in Nat /\ Len(nonces) \in Nat /\ recvNonce \in Nat
           /\ sendNonce <= Len(nonces) /\ (~Incr => Len(nonces) = sendNonce)
           /\ recvNonce <= sendNonce
  <1>1. sendNonce \in Nat /\ Len(nonces) \in Nat /\ recvNonce \in Nat
    BY Types DEF IInv
  <1>2. Len(nonces) = sendNonce + (IF Incr THEN 1 ELSE 0)
    BY DEF IInv, Counted
  <1>3. recvNonce <= sendNonce
    BY DEF IInv, Used
  <1> QED
    BY <1>1, <1>2, <1>3

(* The only writer that is beyond Lock. *)
LEMMA Alone ==
    ASSUME IInv, NEW w \in Writers, Busy(w)
    PROVE  \A v \in Writers : v # w => ~Busy(v)
  BY DEF IInv, Exclusive

(* A frame that was lost stays lost. *)
LEMMA LostStays ==
    ASSUME WholeInv, [Next]_vars, NEW n \in Nat, Lost(n)
    PROVE  Lost(n)'
  <1>i. IInv /\ TypeOK /\ HasData
    BY DEF WholeInv, IInv
  <1>l. /\ recvNonce <= n /\ n < Len(nonces)
        /\ \A k \in DOMAIN wire : wire[k].nonce = n => ~wire[k].whole
        /\ \A w \in Writers : writer[w].pc \in {"incr", "write"} => writer[w].nonce # n
    BY DEF Lost
  <1>1. ASSUME NEW w \in Writers, UNCHANGED <<nonces, wire, recvNonce>>,
               \A v \in Writers : v # w => writer'[v] = writer[v],
               writer'[w].pc \in {"incr", "write"} => writer'[w].nonce # n
        PROVE  Lost(n)'
    BY <1>1, <1>l DEF Lost
  <1>2. ASSUME NEW w \in Writers, Call(w) PROVE Lost(n)'
    BY <1>i, <1>1, <1>2, AfterCall
  <1>3. ASSUME NEW w \in Writers, Lock(w) PROVE Lost(n)'
    BY <1>i, <1>1, <1>3, AfterLock
  <1>4. ASSUME NEW w \in Writers, Seal(w) PROVE Lost(n)'
    <2>1. /\ writer[w].pc = "seal" /\ writer'[w].nonce = sendNonce
          /\ \A v \in Writers : v # w => writer'[v] = writer[v]
          /\ UNCHANGED <<wire, recvNonce>>
      BY <1>4, <1>i, AfterSeal
    <2>2. Busy(w)
      BY <2>1 DEF Busy
    <2>3. \A v \in Writers : v # w => ~Busy(v)
      BY <1>i, <2>2, Alone
    <2>4. ~Incr
      BY <2>1, <2>3 DEF Incr, Busy
    <2>5. n < sendNonce
      BY <1>i, <1>l, <2>4, HowMany
    <2>6. nonces \in Seq(Nonces) /\ sendNonce \in Nonces /\ nonces' = Append(nonces, sendNonce)
      BY <1>4, <1>i DEF Seal, TypeOK
    <2>7. Len(nonces') = Len(nonces) + 1
      BY <2>6, OneMore
    <2>8. n < Len(nonces') /\ n # sendNonce
      BY <1>i, <1>l, <2>5, <2>7, HowMany
    <2>9. \A v \in Writers : writer'[v].pc \in {"incr", "write"} => writer'[v].nonce # n
      BY <1>l, <2>1, <2>8
    <2> QED
      BY <1>l, <2>1, <2>8, <2>9 DEF Lost
  <1>5. ASSUME NEW w \in Writers, IncrNonce(w) PROVE Lost(n)'
    <2>1. /\ writer[w].pc = "incr" /\ writer'[w].nonce = writer[w].nonce
          /\ \A v \in Writers : v # w => writer'[v] = writer[v]
          /\ UNCHANGED <<nonces, wire, recvNonce>>
      BY <1>5, <1>i, AfterIncr
    <2> QED
      BY <1>1, <1>l, <2>1
  <1>6. ASSUME NEW w \in Writers, WriteFrame(w) \/ WriteFails(w) PROVE Lost(n)'
    <2>1. /\ writer[w].pc = "write"
          /\ writer'[w] = Idle \/ writer'[w].pc = "seal"
          /\ \A v \in Writers : v # w => writer'[v] = writer[v]
          /\ UNCHANGED <<nonces, recvNonce>>
      BY <1>6, <1>i, AfterWrite
    <2>2. \A k : k \in DOMAIN wire' => \/ k \in DOMAIN wire /\ wire'[k] = wire[k]
                                       \/ wire'[k].nonce = writer[w].nonce
      BY <1>6, <1>i, AfterWrite
    <2>3. writer[w].nonce # n
      BY <1>l, <2>1
    <2>4. ASSUME NEW k, k \in DOMAIN wire', wire'[k].nonce = n PROVE ~wire'[k].whole
      BY <1>l, <2>2, <2>3, <2>4
    <2>5. \A v \in Writers : writer'[v].pc \in {"incr", "write"} => writer'[v].nonce # n
      BY <1>l, <2>1 DEF Idle
    <2> QED
      BY <1>l, <2>1, <2>4, <2>5 DEF Lost
  <1>7. CASE Read
    <2>1. UNCHANGED <<writer, nonces>>
      BY <1>7, <1>i, AfterRead
    <2>2. \A k : k \in DOMAIN wire' => \E j \in DOMAIN wire : wire'[k] = wire[j]
      BY <1>7, <1>i, AfterRead
    <2>3. \/ recvNonce' = recvNonce
          \/ /\ recvNonce' = recvNonce + 1
             /\ \E j \in DOMAIN wire : wire[j].nonce = recvNonce /\ wire[j].whole
      BY <1>7, <1>i, AfterRead
    <2>4. ASSUME NEW k, k \in DOMAIN wire', wire'[k].nonce = n PROVE ~wire'[k].whole
      BY <1>l, <2>2, <2>4
    <2>5. recvNonce' <= n
      <3>1. CASE recvNonce' = recvNonce
        BY <1>l, <3>1
      <3>2. CASE recvNonce' # recvNonce
        <4>1. recvNonce # n
          BY <1>l, <2>3, <3>2
        <4>2. recvNonce' = recvNonce + 1
          BY <2>3, <3>2
        <4>3. recvNonce \in Nat
          BY <1>i, HowMany
        <4> QED
          BY <1>l, <4>1, <4>2, <4>3
      <3> QED
        BY <3>1, <3>2
    <2> QED
      BY <1>l, <2>1, <2>4, <2>5 DEF Lost
  <1>8. (\E w \in Writers : IncrNoncePanics(w)) \/ UNCHANGED vars
          => UNCHANGED <<writer, nonces, wire, recvNonce>>
    BY DEF IncrNoncePanics, vars, sendVars, recvVars
  <1>9. CASE UNCHANGED <<writer, nonces, wire, recvNonce>>
    BY <1>9, <1>l DEF Lost
  <1> QED
    BY <1>2, <1>3, <1>4, <1>5, <1>6, <1>7, <1>8, <1>9 DEF Next, WriteFrames

LEMMA SomeLostStays ==
    ASSUME WholeInv, [Next]_vars, SomeLost
    PROVE  SomeLost'
  <1>1. PICK n \in Nat : Lost(n)
    BY DEF SomeLost
  <1>2. Lost(n)'
    BY <1>1, LostStays
  <1> QED
    BY <1>2 DEF SomeLost

(* What was sealed stays sound as long as nothing more is. *)
LEMMA SoundStays ==
    ASSUME WholeInv, [Next]_vars, UNCHANGED <<sent, nonces>>,
           NEW off \in [Nat -> Nat], Sound(off)
    PROVE  Sound(off)'
  <1>1. ASSUME NEW p \in 1..Len(sent) PROVE Joins(sent, p) \/ Beyond(off, p)'
    <2>1. CASE Joins(sent, p)
      BY <2>1
    <2>2. CASE Beyond(off, p)
      <3>1. PICK n \in Nat : Lost(n) /\ off[n + 1] < p
        BY <2>2 DEF Beyond
      <3>2. Lost(n)'
        BY <3>1, LostStays
      <3> QED
        BY <3>1, <3>2 DEF Beyond
    <2> QED
      BY <2>1, <2>2 DEF Sound
  <1>2. \A j, k \in 0..Len(nonces) : j <= k => off[j] <= off[k]
    BY DEF Sound
  <1> QED
    BY <1>1, <1>2 DEF Sound

(* A writer that does not act. *)
LEMMA FitsStays ==
    ASSUME WholeInv, [Next]_vars, NEW v \in Writers, writer'[v] = writer[v],
           sent' = sent \/ ~Busy(v)
    PROVE  Fits(v)'
  <1>1. Fits(v)
    BY DEF WholeInv
  <1>2. SomeLost => SomeLost'
    BY SomeLostStays
  <1>3. CASE sent' = sent
    BY <1>1, <1>2, <1>3 DEF Fits
  <1>4. CASE ~Busy(v)
    BY <1>1, <1>4 DEF Fits, Busy
  <1> QED
    BY <1>3, <1>4

(* What the writers have left, after each step. *)
WritersInv == (\A v \in Writers : Fits(v) /\ Latest(v)) /\ Quiet

LEMMA CallFits ==
    ASSUME WholeInv, NEW w \in Writers, Call(w)
    PROVE  WritersInv'
  <1>n. [Next]_vars
    BY DEF Next
  <1>i. TypeOK /\ Quiet /\ \A v \in Writers : Latest(v)
    BY DEF WholeInv, IInv
  <1>1. /\ writer[w].pc = "idle" /\ writer'[w].pc = "lock"
        /\ Piece(writer'[w].data) /\ writer'[w].data[1].i = 1
        /\ \A v \in Writers : v # w => writer'[v] = writer[v]
        /\ UNCHANGED <<sent, nonces, wire, recvNonce>>
    BY <1>i, AfterCall
  <1>2. Fits(w)' /\ Latest(w)'
    BY <1>1 DEF Fits, Latest
  <1>3. ASSUME NEW v \in Writers, v # w PROVE Fits(v)' /\ Latest(v)'
    <2>1. Fits(v)'
      BY <1>n, <1>1, <1>3, FitsStays
    <2> QED
      BY <1>i, <1>1, <1>3, <2>1 DEF Latest
  <1>4. \A v \in Writers : Busy(v)' <=> Busy(v)
    BY <1>1 DEF Busy
  <1>5. Quiet'
    BY <1>i, <1>n, <1>1, <1>4, SomeLostStays DEF Quiet
  <1> QED
    BY <1>2, <1>3, <1>5 DEF WritersInv

LEMMA LockFits ==
    ASSUME WholeInv, NEW w \in Writers, Lock(w)
    PROVE  WritersInv'
  <1>n. [Next]_vars
    BY DEF Next
  <1>i. TypeOK /\ Quiet /\ Fits(w) /\ \A v \in Writers : Latest(v)
    BY DEF WholeInv, IInv
  <1>1. /\ writer[w].pc = "lock" /\ writer'[w].pc = "seal"
        /\ writer'[w].data = writer[w].data
        /\ \A v \in Writers : v # w => writer'[v] = writer[v]
        /\ \A v \in Writers : ~Busy(v)
        /\ UNCHANGED <<sent, nonces, wire, recvNonce>>
    BY <1>i, AfterLock
  <1>2. Piece(writer[w].data) /\ writer[w].data[1].i = 1
    BY <1>i, <1>1 DEF Fits
  <1>3. SomeLost \/ Ended(sent)
    BY <1>i, <1>1 DEF Quiet
  <1>4. Ended(sent) => After(sent, writer[w].data[1])
    BY <1>2 DEF Ended, After, Follows
  <1>5. SomeLost' \/ After(sent, writer[w].data[1])
    BY <1>n, <1>3, <1>4, SomeLostStays
  <1>6. Fits(w)' /\ Latest(w)'
    BY <1>1, <1>2, <1>5 DEF Fits, Latest
  <1>7. ASSUME NEW v \in Writers, v # w PROVE Fits(v)' /\ Latest(v)'
    <2>1. Fits(v)'
      BY <1>n, <1>1, <1>7, FitsStays
    <2> QED
      BY <1>i, <1>1, <1>7, <2>1 DEF Latest
  <1>8. Busy(w)'
    BY <1>1 DEF Busy
  <1> QED
    BY <1>6, <1>7, <1>8 DEF WritersInv, Quiet

LEMMA IncrFits ==
    ASSUME WholeInv, NEW w \in Writers, IncrNonce(w)
    PROVE  WritersInv'
  <1>n. [Next]_vars
    BY DEF Next, WriteFrames
  <1>i. TypeOK /\ IInv /\ Fits(w)
    BY DEF WholeInv, IInv
  <1>1. /\ writer[w].pc = "incr" /\ writer'[w].pc = "write"
        /\ writer'[w].data = writer[w].data /\ writer'[w].nonce = writer[w].nonce
        /\ \A v \in Writers : v # w => writer'[v] = writer[v]
        /\ UNCHANGED <<sent, nonces, wire, recvNonce>>
    BY <1>i, AfterIncr
  <1>2. /\ writer[w].nonce = sendNonce /\ recvNonce <= sendNonce
        /\ \A k \in DOMAIN wire : wire[k].nonce < sendNonce
    BY <1>i, <1>1 DEF IInv, Used
  <1>3. Fits(w)' /\ Latest(w)'
    BY <1>i, <1>1, <1>2 DEF Fits, Latest
  <1>4. ASSUME NEW v \in Writers, v # w PROVE Fits(v)' /\ Latest(v)'
    <2>1. Fits(v)'
      BY <1>n, <1>1, <1>4, FitsStays
    <2>2. writer'[v].pc # "write"
      BY <1>i, <1>1, <1>4, Alone DEF Busy
    <2> QED
      BY <2>1, <2>2 DEF Latest
  <1>5. Busy(w)'
    BY <1>1 DEF Busy
  <1> QED
    BY <1>3, <1>4, <1>5 DEF WritersInv, Quiet

LEMMA WriteFits ==
    ASSUME WholeInv, NEW w \in Writers, WriteFrame(w) \/ WriteFails(w)
    PROVE  WritersInv'
  <1>n. [Next]_vars
    BY DEF Next, WriteFrames
  <1>i. TypeOK /\ IInv /\ Fits(w) /\ Latest(w)
    BY DEF WholeInv, IInv
  <1>1. /\ writer[w].pc = "write"
        /\ \/ writer'[w] = Idle /\ (WriteFails(w) \/ writer[w].data = << >>)
           \/ /\ writer'[w].pc = "seal" /\ writer'[w].data = writer[w].data
              /\ writer[w].data # << >>
        /\ \A v \in Writers : v # w => writer'[v] = writer[v]
        /\ UNCHANGED <<sent, nonces, recvNonce>>
    BY <1>i, AfterWrite
  <1>2. \A v \in Writers : v # w => ~Busy(v)
    BY <1>i, <1>1, Alone DEF Busy
  <1>3. ASSUME NEW v \in Writers, v # w PROVE Fits(v)' /\ Latest(v)' /\ ~Busy(v)'
    <2>1. Fits(v)'
      BY <1>n, <1>1, <1>3, FitsStays
    <2>2. ~Busy(v)'
      BY <1>1, <1>2, <1>3 DEF Busy
    <2> QED
      BY <2>1, <2>2 DEF Latest, Busy
  <1>4. /\ Piece(writer[w].data)
        /\ IF writer[w].data = << >> THEN Ended(sent) ELSE After(sent, writer[w].data[1])
    BY <1>i, <1>1 DEF Fits
  <1>5. CASE writer'[w].pc = "seal" /\ writer'[w].data = writer[w].data /\ writer[w].data # << >>
    <2>1. Fits(w)' /\ Latest(w)' /\ Busy(w)'
      BY <1>1, <1>4, <1>5 DEF Fits, Latest, Busy
    <2> QED
      BY <1>3, <2>1 DEF WritersInv, Quiet
  <1>6. CASE writer'[w] = Idle /\ (WriteFails(w) \/ writer[w].data = << >>)
    <2>1. Piece(<< >>)
      BY DEF Piece
    <2>2. Fits(w)' /\ Latest(w)' /\ ~Busy(w)'
      BY <1>6, <2>1 DEF Fits, Latest, Busy, Idle
    <2>3. CASE writer[w].data = << >>
      <3>1. Ended(sent')
        BY <1>1, <1>4, <2>3
      <3> QED
        BY <1>3, <2>2, <3>1 DEF WritersInv, Quiet
    <2>4. CASE WriteFails(w)
      <3> DEFINE n == writer[w].nonce
      <3>1. recvNonce <= n /\ \A k \in DOMAIN wire : wire[k].nonce < n
        BY <1>i, <1>1 DEF Latest
      <3>2. n \in Nat
        BY <1>i, WriterRecord, NonceIsNat DEF WriterType
      <3>3. n < Len(nonces)
        <4>1. n + 1 = sendNonce
          BY <1>i, <1>1 DEF IInv, Used
        <4> QED
          BY <1>i, <3>2, <4>1, HowMany
      <3>4. \A k : k \in DOMAIN wire' => \/ k \in DOMAIN wire /\ wire'[k] = wire[k]
                                         \/ wire'[k].nonce = n /\ ~wire'[k].whole
        BY <1>i, <2>4, AfterWrite
      <3>5. ASSUME NEW v \in Writers PROVE writer'[v].pc \notin {"incr", "write"}
        BY <1>3, <2>2 DEF Busy
      <3>6. \A k \in DOMAIN wire : wire[k].nonce # n
        <4> SUFFICES ASSUME NEW k \in DOMAIN wire, wire[k].nonce = n PROVE FALSE
          OBVIOUS
        <4>1. n < n
          BY <3>1
        <4> QED
          BY <3>2, <4>1
      <3>7. UNCHANGED <<nonces, recvNonce>>
        BY <1>1
      <3>8. PICK m \in Nat : m = n
        BY <3>2
      <3> HIDE DEF n
      <3>9. Lost(m)'
        BY <3>1, <3>3, <3>4, <3>5, <3>6, <3>7, <3>8 DEF Lost
      <3>10. SomeLost'
        BY <3>9 DEF SomeLost
      <3> QED
        BY <1>3, <2>2, <3>10 DEF WritersInv, Quiet
    <2> QED
      BY <1>6, <2>3, <2>4
  <1> QED
    BY <1>1, <1>5, <1>6

LEMMA ReadFits ==
    ASSUME WholeInv, Read
    PROVE  WritersInv'
  <1>n. [Next]_vars
    BY DEF Next
  <1>i. TypeOK /\ IInv /\ Quiet /\ \A v \in Writers : Latest(v)
    BY DEF WholeInv, IInv
  <1>1. UNCHANGED <<writer, sent, nonces>>
    BY <1>i, AfterRead
  <1>2. \A k : k \in DOMAIN wire' => \E j \in DOMAIN wire : wire'[k] = wire[j]
    BY <1>i, AfterRead
  <1>3. \/ recvNonce' = recvNonce
        \/ /\ recvNonce' = recvNonce + 1
           /\ \E j \in DOMAIN wire : wire[j].nonce = recvNonce
    BY <1>i, AfterRead
  <1>4. ASSUME NEW v \in Writers PROVE Fits(v)' /\ Latest(v)'
    <2>1. Fits(v)'
      BY <1>n, <1>1, FitsStays
    <2>2. CASE writer[v].pc = "write"
      <3>1. recvNonce <= writer[v].nonce /\ \A k \in DOMAIN wire : wire[k].nonce < writer[v].nonce
        BY <1>i, <2>2 DEF Latest
      <3>2. writer[v].nonce \in Nat /\ recvNonce \in Nat
        BY <1>i, WriterRecord, NonceIsNat, HowMany DEF WriterType
      <3>3. recvNonce' <= writer[v].nonce
        <4>1. CASE recvNonce' = recvNonce
          BY <3>1, <4>1
        <4>2. CASE recvNonce' # recvNonce
          <5>1. recvNonce < writer[v].nonce /\ recvNonce' = recvNonce + 1
            BY <1>3, <3>1, <4>2
          <5> QED
            BY <3>2, <5>1
        <4> QED
          BY <4>1, <4>2
      <3>4. \A k \in DOMAIN wire' : wire'[k].nonce < writer[v].nonce
        BY <1>2, <3>1
      <3>5. Latest(v)'
        BY <1>1, <3>3, <3>4 DEF Latest
      <3> QED
        BY <2>1, <3>5
    <2>3. CASE writer[v].pc # "write"
      BY <1>1, <2>1, <2>3 DEF Latest
    <2> QED
      BY <2>2, <2>3
  <1>5. Quiet'
    BY <1>i, <1>n, <1>1, SomeLostStays DEF Quiet, Busy
  <1> QED
    BY <1>4, <1>5 DEF WritersInv

LEMMA Before ==
    ASSUME NEW m \in Nat, NEW n \in Nat, n < m
    PROVE  n \in 0..m /\ n + 1 \in 0..m /\ n + 1 \in Nat /\ n + 1 # m + 1
  OBVIOUS

LEMMA SealFits ==
    ASSUME WholeInv, NEW w \in Writers, Seal(w)
    PROVE  WritersInv' /\ \E off \in [Nat -> Nat] : FramesInPlace(off)' /\ Sound(off)'
  <1>n. [Next]_vars
    BY DEF Next, WriteFrames
  <1>i. TypeOK /\ IInv /\ HasData /\ Fits(w)
    BY DEF WholeInv, IInv
  <1>s. StreamInv
    BY DEF WholeInv, StreamInv, Placed
  <1>1. PICK chunk \in Seq(Bytes), c \in 1..Len(writer[w].data) :
          /\ chunk = Front(writer[w].data, DataMaxSize) /\ Len(chunk) = c
          /\ writer[w].pc = "seal" /\ writer'[w].pc = "incr"
          /\ writer'[w].data = Rest(writer[w].data, c)
          /\ writer'[w].nonce = sendNonce
          /\ \A v \in Writers : v # w => writer'[v] = writer[v]
          /\ sent' = sent \o chunk
          /\ UNCHANGED <<wire, recvNonce>>
    BY <1>i, AfterSeal
  <1>2. writer[w].data \in Seq(Bytes)
    BY <1>i, WriterRecord DEF WriterType
  <1>c. c \in Nat /\ 1 <= c /\ c \in 1..c
    BY <1>2, DomainOfSeq
  <1>3. Piece(writer[w].data) /\ (SomeLost \/ After(sent, writer[w].data[1]))
    BY <1>i, <1>1 DEF Fits
  <1>4. /\ chunk[1] = writer[w].data[1]
        /\ \A i \in 1..(c - 1) : Follows(chunk[i], chunk[i + 1])
        /\ Piece(Rest(writer[w].data, c))
        /\ Rest(writer[w].data, c) = << >> => chunk[c].last
        /\ Rest(writer[w].data, c) # << >> => Follows(chunk[c], Rest(writer[w].data, c)[1])
    BY <1>1, <1>2, <1>3, PieceCut
  <1> DEFINE l == Len(sent)
  <1>5. sent \in Seq(Bytes) /\ l \in Nat
    BY <1>i, Types
  <1>6. /\ sent' \in Seq(Bytes) /\ Len(sent') = l + c
        /\ \A i \in 1..l : sent'[i] = sent[i]
        /\ \A i \in 1..c : sent'[l + i] = chunk[i]
    <2>1. sent' = sent \o chunk /\ Len(chunk) = c
      BY <1>1
    <2> QED
      BY <1>5, <2>1, Joined
  <1> HIDE DEF l
  (* What is left fits. *)
  <1>7. sent'[Len(sent')] = chunk[c] /\ Len(sent') # 0
    BY <1>c, <1>5, <1>6
  <1>8. Fits(w)' /\ Latest(w)'
    <2>1. writer'[w].pc = "incr" /\ writer'[w].data = Rest(writer[w].data, c)
      BY <1>1
    <2>2. IF writer'[w].data = << >> THEN Ended(sent') ELSE After(sent', writer'[w].data[1])
      BY <1>4, <1>7, <2>1 DEF Ended, After
    <2> QED
      BY <1>4, <2>1, <2>2 DEF Fits, Latest
  <1>9. Busy(w) /\ Busy(w)'
    BY <1>1 DEF Busy
  <1>10. ASSUME NEW v \in Writers, v # w PROVE Fits(v)' /\ Latest(v)'
    <2>1. writer'[v] = writer[v] /\ ~Busy(v)
      BY <1>i, <1>1, <1>9, <1>10, Alone
    <2>2. Fits(v)'
      BY <1>n, <2>1, FitsStays
    <2> QED
      BY <2>1, <2>2 DEF Latest, Busy
  <1>11. WritersInv'
    BY <1>8, <1>9, <1>10 DEF WritersInv, Quiet
  (* What was sealed is sound. *)
  <1>12. PICK off \in [Nat -> Nat] : FramesInPlace(off) /\ Sound(off)
    BY DEF WholeInv
  <1> DEFINE m == Len(nonces)
  <1>13. m \in Nat /\ Len(nonces') = m + 1
    BY <1>i, <1>s, <1>12, SealKeepsPlaces, HowMany
  <1>14. PICK new \in [Nat -> Nat] : /\ FramesInPlace(new)'
                                     /\ new[m + 1] = Len(sent')
                                     /\ \A k \in Nat : k # m + 1 => new[k] = off[k]
    BY <1>s, <1>12, SealKeepsPlaces
  <1>15. \A k \in 0..m : off[k] <= l
    BY <1>12 DEF FramesInPlace, l
  <1>16. \A j, k \in 0..m : j <= k => off[j] <= off[k]
    BY <1>12 DEF Sound
  <1>17. \A p \in 1..l : Joins(sent, p) \/ Beyond(off, p)
    BY <1>12 DEF Sound, l
  <1>18. ASSUME NEW n \in Nat, Lost(n)
         PROVE  Lost(n)' /\ n \in 0..m /\ n + 1 \in 0..m /\ new[n + 1] = off[n + 1]
    <2>1. Lost(n)'
      BY <1>n, <1>18, LostStays
    <2>2. n < m
      BY <1>18 DEF Lost
    <2>3. n \in 0..m /\ n + 1 \in 0..m /\ n + 1 \in Nat /\ n + 1 # m + 1
      BY <1>13, <2>2, Before
    <2> QED
      BY <1>14, <2>1, <2>3
  <1> HIDE DEF m
  <1>19. ASSUME NEW j \in 0..(m + 1), NEW k \in 0..(m + 1), j <= k
         PROVE  new[j] <= new[k]
    <2>1. ASSUME NEW x \in 0..m
          PROVE  x \in Nat /\ x # m + 1 /\ new[x] = off[x] /\ off[x] \in Nat
      <3>1. x \in Nat /\ x # m + 1
        BY <1>13
      <3> QED
        BY <1>14, <3>1
    <2>2. CASE k \in 0..m
      <3>1. j \in 0..m
        BY <1>13, <1>19, <2>2
      <3> QED
        BY <1>16, <1>19, <2>1, <2>2, <3>1
    <2>3. CASE k = m + 1 /\ j \in 0..m
      <3>1. new[j] = off[j] /\ off[j] \in Nat /\ off[j] <= l
        BY <1>15, <2>1, <2>3
      <3>2. new[k] = l + c
        BY <1>6, <1>14, <2>3
      <3> QED
        BY <1>c, <1>5, <3>1, <3>2
    <2>4. CASE k = m + 1 /\ j = m + 1
      <3>1. new[m + 1] \in Nat
        BY <1>13
      <3> QED
        BY <2>4, <3>1
    <2> QED
      BY <1>13, <2>2, <2>3, <2>4
  <1>20. ASSUME NEW p \in 1..(l + c)
         PROVE  Joins(sent', p) \/ Beyond(new, p)'
    <2>1. ASSUME NEW n \in Nat, Lost(n), off[n + 1] < p PROVE Beyond(new, p)'
      <3>1. Lost(n)' /\ new[n + 1] < p
        BY <1>18, <2>1
      <3> QED
        BY <3>1 DEF Beyond
    <2>2. CASE p \in 1..l
      <3>1. Joins(sent, p) => Joins(sent', p)
        <4>1. sent'[p] = sent[p]
          BY <1>6, <2>2
        <4>2. p # 1 => p - 1 \in 1..l
          BY <1>5, <2>2
        <4>3. p # 1 => sent'[p - 1] = sent[p - 1]
          BY <1>6, <4>2
        <4>4. p = 1 => sent'[1] = sent[1]
          BY <4>1
        <4> QED
          BY <4>1, <4>3, <4>4 DEF Joins
      <3>2. Beyond(off, p) => Beyond(new, p)'
        BY <2>1 DEF Beyond
      <3> QED
        BY <1>17, <2>2, <3>1, <3>2
    <2>3. CASE p = l + 1
      <3>1. CASE SomeLost
        <4>1. PICK n \in Nat : Lost(n)
          BY <3>1 DEF SomeLost
        <4>2. off[n + 1] <= l /\ off[n + 1] \in Nat
          BY <1>15, <1>18, <4>1
        <4>3. off[n + 1] < p
          BY <1>5, <2>3, <4>2
        <4> QED
          BY <2>1, <4>1, <4>3
      <3>2. CASE After(sent, writer[w].data[1])
        <4>1. sent'[p] = chunk[1]
          <5>1. 1 \in 1..c
            BY <1>c
          <5> QED
            BY <1>6, <2>3, <5>1
        <4>2. CASE l = 0
          <5>1. p = 1 /\ chunk[1].i = 1
            BY <1>4, <2>3, <3>2, <4>2 DEF After, l
          <5> QED
            BY <4>1, <5>1 DEF Joins
        <4>3. CASE l # 0
          <5>1. p # 1 /\ p - 1 = l /\ l \in 1..l
            BY <1>5, <2>3, <4>3
          <5>2. Follows(sent[l], chunk[1])
            BY <1>4, <3>2, <4>3 DEF After, l
          <5>3. sent'[p - 1] = sent[l]
            BY <1>6, <5>1
          <5> QED
            BY <4>1, <5>1, <5>2, <5>3 DEF Joins
        <4> QED
          BY <4>2, <4>3
      <3> QED
        BY <1>3, <3>1, <3>2
    <2>4. CASE p \notin 1..(l + 1)
      <3>1. PICK i \in 1..(c - 1) : p = l + (i + 1) /\ p - 1 = l + i
        <4>1. p - l - 1 \in 1..(c - 1)
          BY <1>c, <1>5, <2>4
        <4>2. p = l + ((p - l - 1) + 1) /\ p - 1 = l + (p - l - 1)
          BY <1>5
        <4> QED
          BY <4>1, <4>2
      <3>2. i \in 1..c /\ i + 1 \in 1..c /\ p # 1
        BY <1>c, <1>5, <2>4, <3>1
      <3>3. sent'[p - 1] = chunk[i] /\ sent'[p] = chunk[i + 1]
        BY <1>6, <3>1, <3>2
      <3>4. Follows(sent'[p - 1], sent'[p])
        BY <1>4, <3>3
      <3> QED
        BY <3>2, <3>4 DEF Joins
    <2> QED
      BY <1>5, <2>2, <2>3, <2>4
  <1>21. Sound(new)'
    BY <1>6, <1>13, <1>19, <1>20 DEF Sound
  <1> QED
    BY <1>11, <1>14, <1>21

LEMMA WholeStart == Init => WholeInv
  <1> SUFFICES ASSUME Init PROVE WholeInv
    OBVIOUS
  <1>1. StreamInv
    BY StreamStart
  <1>2. PICK off \in [Nat -> Nat] : FramesInPlace(off)
    BY <1>1 DEF StreamInv, Placed
  <1>3. Len(nonces) = 0 /\ Len(sent) = 0
    BY DEF Init
  <1>4. off[0] \in Nat
    OBVIOUS
  <1>5. Sound(off)
    BY <1>3, <1>4 DEF Sound
  <1>6. \A w \in Writers : Fits(w) /\ Latest(w)
    <2>1. Piece(<< >>)
      BY DEF Piece
    <2> QED
      BY <2>1 DEF Init, Idle, Fits, Latest
  <1>7. Quiet
    BY <1>3 DEF Quiet, Ended
  <1> QED
    BY <1>1, <1>2, <1>5, <1>6, <1>7 DEF WholeInv, StreamInv

LEMMA WholeStep == WholeInv /\ [Next]_vars => WholeInv'
  <1> SUFFICES ASSUME WholeInv, [Next]_vars PROVE WholeInv'
    OBVIOUS
  <1>s. StreamInv
    BY DEF WholeInv, StreamInv, Placed
  <1>1. IInv' /\ HasData' /\ ReadInPlace'
    BY <1>s, StreamStep DEF StreamInv
  <1>2. SUFFICES WritersInv' /\ \E off \in [Nat -> Nat] : FramesInPlace(off)' /\ Sound(off)'
    BY <1>1 DEF WholeInv, WritersInv
  <1>3. PICK off \in [Nat -> Nat] : FramesInPlace(off) /\ Sound(off)
    BY DEF WholeInv
  <1>4. UNCHANGED <<sent, nonces>> => Sound(off)'
    BY <1>3, SoundStays
  <1>5. ASSUME NEW w \in Writers, Seal(w)
        PROVE  WritersInv' /\ \E new \in [Nat -> Nat] : FramesInPlace(new)' /\ Sound(new)'
    BY <1>5, SealFits
  <1>6. ASSUME NEW w \in Writers,
               Call(w) \/ Lock(w) \/ IncrNonce(w) \/ WriteFrame(w) \/ WriteFails(w)
        PROVE  WritersInv' /\ FramesInPlace(off)' /\ Sound(off)'
    <2>1. WritersInv'
      BY <1>6, CallFits, LockFits, IncrFits, WriteFits
    <2>2. FramesInPlace(off)'
      BY <1>s, <1>3, <1>6, WriterKeepsPlaces
    <2>3. UNCHANGED <<sent, nonces>>
      BY <1>6 DEF Call, Lock, IncrNonce, WriteFrame, WriteFails
    <2> QED
      BY <1>4, <2>1, <2>2, <2>3
  <1>7. CASE Read
    <2>1. WritersInv' /\ FramesInPlace(off)'
      BY <1>s, <1>3, <1>7, ReadFits, ReadKeepsPlaces
    <2>2. UNCHANGED <<sent, nonces>>
      BY <1>7 DEF Read, ReadBuffer, ReadFrame, OpenFails, sendVars
    <2> QED
      BY <1>4, <2>1, <2>2
  <1>8. CASE UNCHANGED <<writer, sent, nonces, wire, recvNonce, recvBuffer, received>>
    <2>1. FramesInPlace(off)'
      BY <1>3, <1>8 DEF FramesInPlace
    <2>2. ASSUME NEW v \in Writers PROVE Fits(v)' /\ Latest(v)'
      <3>1. Fits(v)'
        BY <1>8, FitsStays
      <3>2. Latest(v)
        BY DEF WholeInv
      <3> QED
        BY <1>8, <3>1, <3>2 DEF Latest
    <2>3. Quiet'
      BY <1>8, SomeLostStays DEF WholeInv, Quiet, Busy
    <2> QED
      BY <1>4, <1>8, <2>1, <2>2, <2>3 DEF WritersInv
  <1>9. (\E w \in Writers : IncrNoncePanics(w)) \/ UNCHANGED vars
          => UNCHANGED <<writer, sent, nonces, wire, recvNonce, recvBuffer, received>>
    BY DEF IncrNoncePanics, vars, sendVars, recvVars
  <1> QED
    BY <1>5, <1>6, <1>7, <1>8, <1>9 DEF Next, WriteFrames

LEMMA PartOf ==
    ASSUME NEW a \in Nat, NEW b \in Nat, NEW c \in Nat, NEW d \in Nat, a + b = d, d <= c,
           NEW k \in 1..a
    PROVE  k \in 1..c /\ k <= d
  OBVIOUS

LEMMA WholeImplies == WholeInv => CallsArriveWhole
  <1> DEFINE Follow(k) == IF received[k].i > 1
                          THEN k > 1 /\ received[k - 1] = [call |-> received[k].call,
                                                           i |-> received[k].i - 1, last |-> FALSE]
                          ELSE k > 1 => received[k - 1].last
  <1> SUFFICES ASSUME WholeInv, NEW k \in 1..Len(received) PROVE Follow(k)
    <2>1. WholeInv => DOMAIN received = 1..Len(received)
      BY Types, DomainOfSeq DEF WholeInv, IInv
    <2> QED
      BY <2>1 DEF CallsArriveWhole
  <1>i. IInv /\ TypeOK /\ ReadInPlace
    BY DEF WholeInv, IInv
  <1>t. /\ received \in Seq(Bytes) /\ Len(received) \in Nat /\ Len(recvBuffer) \in Nat
        /\ Len(sent) \in Nat
    BY <1>i, Types
  <1>1. PICK off \in [Nat -> Nat] : FramesInPlace(off) /\ Sound(off)
    BY DEF WholeInv
  <1>2. recvNonce \in 0..Len(nonces) /\ Len(nonces) \in Nat
    BY <1>i, HowMany
  <1>3. off[recvNonce] <= Len(sent) /\ off[recvNonce] \in Nat
        /\ Len(received) + Len(recvBuffer) = off[recvNonce]
    BY <1>1, <1>2 DEF FramesInPlace
  <1>5. k \in 1..Len(sent) /\ k <= off[recvNonce]
    BY <1>t, <1>3, PartOf
  <1>6. ~Beyond(off, k)
    <2> SUFFICES ASSUME NEW n \in Nat, Lost(n), off[n + 1] < k PROVE FALSE
      BY DEF Beyond
    <2>1. recvNonce <= n /\ n < Len(nonces)
      BY DEF Lost
    <2>2. n + 1 \in 0..Len(nonces) /\ recvNonce <= n + 1
      BY <1>2, <2>1
    <2>3. off[recvNonce] <= off[n + 1]
      BY <1>1, <1>2, <2>2 DEF Sound
    <2>4. off[n + 1] \in Nat
      BY <2>2
    <2> QED
      BY <1>3, <1>5, <2>3, <2>4
  <1>7. Joins(sent, k)
    BY <1>1, <1>5, <1>6 DEF Sound
  <1>8. received[k] = sent[k]
    BY <1>i DEF ReadInPlace
  <1>9. CASE k = 1
    BY <1>7, <1>8, <1>9 DEF Joins
  <1>10. CASE k # 1
    <2>1. k - 1 \in 1..Len(received) /\ k > 1
      BY <1>t, <1>10
    <2>2. received[k - 1] = sent[k - 1]
      BY <1>i, <2>1 DEF ReadInPlace
    <2>3. Follows(received[k - 1], received[k])
      BY <1>7, <1>8, <1>10, <2>2 DEF Joins
    <2> QED
      BY <2>1, <2>3 DEF Follows
  <1> QED
    BY <1>9, <1>10

(* The bytes of a call of Write are read in one piece, or nothing is read  *)
(* after them (CallsArriveWhole): the mutex keeps other writers out of a   *)
(* call, and after a frame that was not written whole the reader, who      *)
(* waits for its nonce, opens no other.                                    *)
THEOREM CallsArrivingWhole == Spec => []CallsArriveWhole
  BY WholeStart, WholeStep, WholeImplies, PTL DEF Spec
==============================================================================
