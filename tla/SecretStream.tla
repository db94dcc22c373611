----------------------------- MODULE SecretStream -----------------------------
(***************************************************************************)
(* One direction of a SecretConnection (chains/cosmos/conn).  Write cuts   *)
(* its data into frames and seals each with the next nonce, under sendMtx; *)
(* Read opens a frame with the nonce that it expects, returns what its     *)
(* caller has room for and keeps the rest in recvBuffer.                   *)
(*                                                                         *)
(* The connection beneath may fail in any write of a frame, with none of   *)
(* it or a part of it on the wire, and the callers on either side may go   *)
(* on after an error.  A part of a frame puts all that follows out of      *)
(* place.  A frame opens only with the nonce that it was sealed with.      *)
(*                                                                         *)
(* A byte is named by the call that it was written in and its place there. *)
(* Bounds: MaxCalls calls of Write, of at most MaxData bytes.              *)
(***************************************************************************)
EXTENDS Integers, Sequences

CONSTANTS
    Writers,
    DataMaxSize, \* bytes in a frame (1024)
    ReadSize,    \* bytes that the caller of Read has room for
    MaxNonce,    \* the last nonce (2^64 - 1)
    MaxData, MaxCalls

ASSUME SizesAssumption ==
    /\ DataMaxSize \in Nat \ {0} /\ ReadSize \in Nat \ {0} /\ MaxData \in Nat \ {0}
    /\ MaxNonce \in Nat /\ MaxCalls \in Nat

VARIABLES
    calls,      \* calls of Write that have begun
    writer,     \* where each writer is, and the data it has left
    sendMtx,    \* whether the mutex is locked
    sendNonce,
    wire,       \* what was written to the connection and was not read
    recvNonce, recvBuffer,
    misaligned, \* whether the reader is out of step with the frames
    sent,       \* the bytes that were sealed
    nonces,     \* the nonces that they were sealed with
    received,   \* the bytes that Read returned
    ended       \* whether incrNonce has panicked

sendVars == <<calls, writer, sendMtx, sendNonce, sent, nonces, ended>>
recvVars == <<recvNonce, recvBuffer, misaligned, received>>
vars == <<sendVars, wire, recvVars>>

Data(c, n) == [i \in 1..n |-> [call |-> c, i |-> i, last |-> i = n]]
Idle == [pc |-> "idle", data |-> << >>, frame |-> << >>, nonce |-> 0]
Smaller(m, n) == IF m < n THEN m ELSE n
Front(s, n) == SubSeq(s, 1, Smaller(n, Len(s)))
Rest(s, n) == SubSeq(s, n + 1, Len(s))

Init ==
    /\ calls = 0 /\ writer = [w \in Writers |-> Idle]
    /\ sendMtx = FALSE /\ sendNonce = 0
    /\ wire = << >>
    /\ recvNonce = 0 /\ recvBuffer = << >> /\ misaligned = FALSE
    /\ sent = << >> /\ nonces = << >> /\ received = << >>
    /\ ended = FALSE

-------------------------------------------------------------------------------
(* Write *)

At(w, pc) == ~ended /\ writer[w].pc = pc

Call(w) ==
    /\ At(w, "idle") /\ calls < MaxCalls
    /\ calls' = calls + 1
    /\ \E n \in 1..MaxData :
         writer' = [writer EXCEPT ![w] =
           [pc |-> "lock", data |-> Data(calls + 1, n), frame |-> << >>, nonce |-> 0]]
    /\ UNCHANGED <<sendMtx, sendNonce, sent, nonces, ended, wire, recvVars>>

(* Mutant of Lock: the mutex is not waited for. *)
LockAnyway(w) ==
    /\ At(w, "lock")
    /\ sendMtx' = TRUE
    /\ writer' = [writer EXCEPT ![w].pc = "seal"]
    /\ UNCHANGED <<calls, sendNonce, sent, nonces, ended, wire, recvVars>>

Lock(w) ==
    /\ At(w, "lock") /\ ~sendMtx
    /\ sendMtx' = TRUE
    /\ writer' = [writer EXCEPT ![w].pc = "seal"]
    /\ UNCHANGED <<calls, sendNonce, sent, nonces, ended, wire, recvVars>>

(* The next chunk is sealed. *)
Seal(w) ==
    LET chunk == Front(writer[w].data, DataMaxSize) IN
    /\ At(w, "seal")
    /\ writer' = [writer EXCEPT ![w] = [pc |-> "incr", data |-> Rest(@.data, Len(chunk)),
                                        frame |-> chunk, nonce |-> sendNonce]]
    /\ sent' = sent \o chunk
    /\ nonces' = Append(nonces, sendNonce)
    /\ UNCHANGED <<calls, sendMtx, sendNonce, ended, wire, recvVars>>

(* Mutant of IncrNonce: the counter wraps around. *)
IncrNonceWraps(w) ==
    /\ At(w, "incr")
    /\ sendNonce' = (sendNonce + 1) % (MaxNonce + 1)
    /\ writer' = [writer EXCEPT ![w].pc = "write"]
    /\ UNCHANGED <<calls, sendMtx, sent, nonces, ended, wire, recvVars>>

IncrNonce(w) ==
    /\ At(w, "incr") /\ sendNonce < MaxNonce
    /\ sendNonce' = sendNonce + 1
    /\ writer' = [writer EXCEPT ![w].pc = "write"]
    /\ UNCHANGED <<calls, sendMtx, sent, nonces, ended, wire, recvVars>>

(* "can't increase nonce without overflow" *)
IncrNoncePanics(w) ==
    /\ At(w, "incr") /\ sendNonce = MaxNonce
    /\ ended' = TRUE
    /\ UNCHANGED <<calls, writer, sendMtx, sendNonce, sent, nonces, wire, recvVars>>

Frame(w, whole) == [nonce |-> writer[w].nonce, bytes |-> writer[w].frame, whole |-> whole]

(* The frame is written; the mutex is unlocked after the last one. *)
WriteFrame(w) ==
    LET done == writer[w].data = << >> IN
    /\ At(w, "write")
    /\ wire' = Append(wire, Frame(w, TRUE))
    /\ sendMtx' = ~done
    /\ writer' = [writer EXCEPT ![w] = IF done THEN Idle ELSE [@ EXCEPT !.pc = "seal"]]
    /\ UNCHANGED <<calls, sendNonce, sent, nonces, ended, recvVars>>

(* Mutant of WriteFails: the nonce of a frame that was not written is used *)
(* again.                                                                  *)
WriteFailsNonceBack(w) ==
    /\ At(w, "write")
    /\ wire' \in {wire, Append(wire, Frame(w, FALSE))}
    /\ sendNonce' = writer[w].nonce
    /\ sendMtx' = FALSE
    /\ writer' = [writer EXCEPT ![w] = Idle]
    /\ UNCHANGED <<calls, sent, nonces, ended, recvVars>>

(* Mutant of WriteFails: the mutex stays locked. *)
WriteFailsLocked(w) ==
    /\ At(w, "write")
    /\ wire' \in {wire, Append(wire, Frame(w, FALSE))}
    /\ writer' = [writer EXCEPT ![w] = Idle]
    /\ UNCHANGED <<calls, sendMtx, sendNonce, sent, nonces, ended, recvVars>>

(* The write fails: nothing of the frame is on the wire, or a part of it.  *)
WriteFails(w) ==
    /\ At(w, "write")
    /\ wire' \in {wire, Append(wire, Frame(w, FALSE))}
    /\ sendMtx' = FALSE
    /\ writer' = [writer EXCEPT ![w] = Idle]
    /\ UNCHANGED <<calls, sendNonce, sent, nonces, ended, recvVars>>

WriteFrames(w) ==
    Seal(w) \/ IncrNonce(w) \/ IncrNoncePanics(w) \/ WriteFrame(w) \/ WriteFails(w)

-------------------------------------------------------------------------------
(* Read *)

(* What a Read with room for n bytes returns of the bytes it has, and what *)
(* it keeps.                                                               *)
Return(bytes, n) ==
    /\ received' = received \o Front(bytes, n)
    /\ recvBuffer' = Rest(bytes, Smaller(n, Len(bytes)))

ReadBuffer ==
    /\ recvBuffer # << >>
    /\ \E n \in 1..ReadSize : Return(recvBuffer, n)
    /\ UNCHANGED <<recvNonce, misaligned, wire, sendVars>>

Opens(frame) == ~misaligned /\ frame.whole /\ frame.nonce = recvNonce

(* Mutant of ReadFrame: what the caller has no room for is not kept. *)
ReadFrameCuts ==
    /\ recvBuffer = << >> /\ wire # << >> /\ Opens(Head(wire))
    /\ \E n \in 1..ReadSize : received' = received \o Front(Head(wire).bytes, n)
    /\ recvNonce' = recvNonce + 1
    /\ wire' = Tail(wire)
    /\ UNCHANGED <<recvBuffer, misaligned, sendVars>>

(* A frame with the nonce MaxNonce, which would end the reader, is never   *)
(* on the wire.                                                            *)
ReadFrame ==
    /\ recvBuffer = << >> /\ wire # << >> /\ Opens(Head(wire))
    /\ \E n \in 1..ReadSize : Return(Head(wire).bytes, n)
    /\ recvNonce' = recvNonce + 1
    /\ wire' = Tail(wire)
    /\ UNCHANGED <<misaligned, sendVars>>

(* What is read does not open, and the nonce stays.  A part of a frame is  *)
(* read together with the beginning of the next, and from then on so is    *)
(* every frame.                                                            *)
OpenFails ==
    /\ recvBuffer = << >> /\ wire # << >> /\ ~Opens(Head(wire))
    /\ misaligned \/ ~Head(wire).whole => Len(wire) > 1
    /\ misaligned' = (misaligned \/ ~Head(wire).whole)
    /\ wire' = Tail(wire)
    /\ UNCHANGED <<recvNonce, recvBuffer, received, sendVars>>

Read == ReadBuffer \/ ReadFrame \/ OpenFails

Next == (\E w \in Writers : Call(w) \/ Lock(w) \/ WriteFrames(w)) \/ Read

Spec == Init /\ [][Next]_vars

(* The scheduler starves no caller of Write or Read, and the mutex no one  *)
(* who waits for it.                                                       *)
Fairness ==
    /\ \A w \in Writers : SF_vars(Lock(w)) /\ WF_vars(WriteFrames(w))
    /\ WF_vars(Read)
FairSpec == Spec /\ Fairness

-------------------------------------------------------------------------------

Bytes == [call : 1..MaxCalls, i : 1..MaxData, last : BOOLEAN]
Nonces == 0..MaxNonce

(* Every variable has a value of its type; the mutex is locked while a     *)
(* writer is between Lock and the end of its call.                         *)
TypeOK ==
    /\ calls \in 0..MaxCalls
    /\ writer \in [Writers -> [pc : {"idle", "lock", "seal", "incr", "write"},
                               data : Seq(Bytes), frame : Seq(Bytes), nonce : Nonces]]
    /\ sendMtx = \E w \in Writers : writer[w].pc \in {"seal", "incr", "write"}
    /\ sendNonce \in Nonces /\ recvNonce \in Nonces
    /\ wire \in Seq([nonce : Nonces, bytes : Seq(Bytes), whole : BOOLEAN])
    /\ recvBuffer \in Seq(Bytes) /\ sent \in Seq(Bytes) /\ received \in Seq(Bytes)
    /\ nonces \in Seq(Nonces)
    /\ misaligned \in BOOLEAN /\ ended \in BOOLEAN

(* No two frames are sealed with the same nonce, whatever writers call at  *)
(* the same time, whatever writes fail, and at the end of the counter.     *)
NoncesDiffer ==
    \A i, j \in DOMAIN nonces : nonces[i] = nonces[j] => i = j

(* The bytes of a call arrive in one piece, from the first to the last, or *)
(* nothing arrives after them: other writers are never read in between,    *)
(* and after a failed write no later call is read.                         *)
CallsArriveWhole ==
    \A k \in DOMAIN received :
        LET b == received[k] IN
        IF b.i > 1
        THEN k > 1 /\ received[k - 1] = [call |-> b.call, i |-> b.i - 1, last |-> FALSE]
        ELSE k > 1 => received[k - 1].last

(* The connection is the stream of ByteStream: what is read is a prefix of *)
(* what was sealed, through frames, remainders and errors.                 *)
Stream == INSTANCE ByteStream WITH sent <- sent, received <- received
IsByteStream == Stream!Spec

(* Every call of Write returns, whether its frames are written or a write  *)
(* fails, unless the nonces are used up; and what is on the wire is read,  *)
(* but for a part of a frame.                                              *)
CallsReturn ==
    []<>(/\ ended \/ \A w \in Writers : writer[w].pc = "idle"
         /\ recvBuffer = << >>
         /\ wire # << >> => Len(wire) = 1 /\ (misaligned \/ ~wire[1].whole))
===============================================================================
