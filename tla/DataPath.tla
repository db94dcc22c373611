------------------------------- MODULE DataPath -------------------------------
(***************************************************************************)
(* The way of a message through the connectors: recvRoutine and marlinTo   *)
(* (ChannelBuffer), the frames that sendRoutineConnection writes           *)
(* (WireProtocol), the relay network, and the connector that reads them in *)
(* recvRoutineConnection.  A relay also shows a frame's body to its spam   *)
(* filter.                                                                 *)
(*                                                                         *)
(* The relay network, which is external, hands the frames of one connector *)
(* on to the other, in any portions, until a connection is cut, which may  *)
(* happen within a frame.  Both connectors serve the same chain.           *)
(***************************************************************************)
EXTENDS ChannelBuffer, WireProtocol

VARIABLES
    stream,   \* the units that have arrived and were not read
    cut,      \* whether the connection is cut
    reader,   \* where recvRoutineConnection is, and the length it read
    forwarded \* the messages it has sent to marlinFrom

wireVars == <<stream, cut, reader, forwarded>>
pathVars == <<vars, wireVars>>

PathInit ==
    /\ Init
    /\ stream = << >> /\ cut = FALSE
    /\ reader = [pc |-> "length", messageLen |-> 0]
    /\ forwarded = << >>

(* sendRoutineConnection encodes and writes what it has copied. *)
SendFrame ==
    /\ ~cut
    /\ Write("marlinTo")
    /\ stream' = stream \o Encode("chain", Copied("marlinTo"))
    /\ UNCHANGED <<cut, reader, forwarded>>

(* The connection is cut: some of what was not read still arrives. *)
Cut ==
    /\ ~cut /\ cut' = TRUE
    /\ \E n \in 0..Len(stream) : stream' = SubSeq(stream, 1, n)
    /\ UNCHANGED <<vars, reader, forwarded>>

(* ReadFull of the eight bytes of a length. *)
ReadLength ==
    /\ reader.pc = "length" /\ stream # << >>
    /\ reader' = [pc |-> "body",
                  messageLen |-> IF stream[1][1] = "length" THEN stream[1][2] ELSE 0]
    /\ stream' = Tail(stream)
    /\ UNCHANGED <<vars, cut, forwarded>>

(* Mutant of ReadBody: Read, which may come short, instead of ReadFull. *)
ReadBodyShort ==
    /\ reader.pc = "body" /\ Len(stream) >= reader.messageLen
    /\ \E n \in 2..reader.messageLen :
         /\ forwarded' = Append(forwarded, Decode(SubSeq(stream, 1, n)))
         /\ stream' = SubSeq(stream, n + 1, Len(stream))
    /\ reader' = [pc |-> "length", messageLen |-> 0]
    /\ UNCHANGED <<vars, cut>>

(* ReadFull of the body, and the forwarding of the message in it if it is  *)
(* not empty and of the serviced chain.                                    *)
ReadBody ==
    /\ reader.pc = "body" /\ Len(stream) >= reader.messageLen
    /\ LET body == SubSeq(stream, 1, reader.messageLen) IN
       forwarded' = IF Len(body) > 2 /\ body[1] = <<"chain", "chain">>
                    THEN Append(forwarded, Decode(body)) ELSE forwarded
    /\ stream' = SubSeq(stream, reader.messageLen + 1, Len(stream))
    /\ reader' = [pc |-> "length", messageLen |-> 0]
    /\ UNCHANGED <<vars, cut>>

(* ReadFull fails: the routine ends. *)
ReadFails ==
    /\ cut
    /\ \/ reader.pc = "length" /\ stream = << >>
       \/ reader.pc = "body" /\ Len(stream) < reader.messageLen
    /\ reader' = [pc |-> "failed", messageLen |-> 0]
    /\ UNCHANGED <<vars, stream, cut, forwarded>>

recvRoutineConnection == ReadLength \/ ReadBody \/ ReadFails

PathNext ==
    \/ (recvRoutine \/ Take("marlinTo") \/ CopyPacket("marlinTo") \/ sendRoutine)
         /\ UNCHANGED wireVars
    \/ SendFrame \/ Cut
    \/ recvRoutineConnection

PathSpec == PathInit /\ [][PathNext]_pathVars

-------------------------------------------------------------------------------

(* The frames that have been written, each as its message. *)
Frames == written["marlinTo"]

(* The receiving connector never loses step with the frames: what it       *)
(* forwards is, in order, one whole frame each, and a connection that is   *)
(* cut within a frame loses what had not come whole and nothing else.      *)
ForwardedInStep ==
    LET begun == IF reader.pc = "body" THEN 1 ELSE 0
        waiting == Cardinality(Places(stream, "length"))
    IN
    /\ Len(forwarded) <= Len(Frames)
    /\ \A k \in DOMAIN forwarded : forwarded[k].channel = Frames[k].channel
    /\ reader.pc = "length" /\ stream # << >> => stream[1][1] = "length"
    /\ ~cut => Len(forwarded) + begun + waiting = Len(Frames)

(* A spam filter that is shown the body of a frame judges the very message *)
(* that the sending connector wrote.                                       *)
JudgedAsFramed ==
    \A k \in DOMAIN Frames :
        LET m == Frames[k] IN
        DecodeRequest(EncodeRequest(k, Body("chain", m)))
            = [id |-> k, channel |-> m.channel, packets |-> m.packets,
               packets2 |-> m.packets2]

(* "deliver messages recieved from relay to TMCore" (README.md, line 24):  *)
(* what is forwarded has the packets that its frame has.  The code looks   *)
(* for them in the header.                                                 *)
ForwardedAsFramed ==
    \A k \in DOMAIN forwarded :
        /\ forwarded[k].packets = Frames[k].packets
        /\ forwarded[k].packets2 = Frames[k].packets2
===============================================================================
