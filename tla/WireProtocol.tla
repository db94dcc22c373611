----------------------------- MODULE WireProtocol -----------------------------
(***************************************************************************)
(* The Marlin Tendermint Data Transfer Protocol as marlin/marlin.go writes *)
(* and reads it.  A frame is the length of its body and the body: a chain, *)
(* a channel, and a protobuf message with two lists of packets.            *)
(*                                                                         *)
(* Bytes are abstracted to units, a field each; a length counts units.     *)
(***************************************************************************)
EXTENDS Integers, Sequences, FiniteSets

(* A protobuf message with the packets of both lists, in field order. *)
Marshal(packets, packets2) ==
    [i \in DOMAIN packets |-> <<"packets", packets[i]>>]
    \o [i \in DOMAIN packets2 |-> <<"packets2", packets2[i]>>]

(* Where the units of one field are, and the packets of one list in a      *)
(* protobuf message, in their order; what is not a field of it, a header   *)
(* for instance, gives none.                                               *)
Places(units, field) == {i \in DOMAIN units : units[i][1] = field}
Fields(proto, list) ==
    LET at == Places(proto, list)
        Nth(n) == CHOOSE i \in at : Cardinality(at \intersect (1..i)) = n
    IN  [n \in 1..Cardinality(at) |-> proto[Nth(n)][2]]

Body(chain, m) ==
    <<<<"chain", chain>>, <<"channel", m.channel>>>> \o Marshal(m.packets, m.packets2)

(* What sendRoutineConnection writes. *)
Encode(chain, m) ==
    <<<<"length", Len(Marshal(m.packets, m.packets2)) + 2>>>> \o Body(chain, m)

(* What recvRoutineConnection makes of a body: it unmarshals buffer[:2],   *)
(* which is the header, and the second list grows out of the first.        *)
Decode(body) ==
    LET proto == SubSeq(body, 1, 2)
        packets == Fields(proto, "packets")
        second == Fields(proto, "packets2")
    IN [channel |-> body[2][2], packets |-> packets,
        packets2 |-> IF second = << >> THEN << >>
                     ELSE Append(packets, second[Len(second)])]

(* What a gateway writes to ask about a body. *)
EncodeRequest(id, body) == <<<<"id", id>>, <<"length", Len(body)>>>> \o body

(* Mutant of DecodeRequest: the second list as recvRoutineConnection has it. *)
DecodeRequestAppending(request) ==
    LET body == SubSeq(request, 3, request[2][2] + 2)
        proto == SubSeq(body, 3, Len(body))
    IN [id |-> request[1][2], channel |-> body[2][2],
        packets |-> Fields(proto, "packets"),
        packets2 |-> Fields(proto, "packets") \o Fields(proto, "packets2")]

(* What recvRoutineSpamFilter makes of it. *)
DecodeRequest(request) ==
    LET body == SubSeq(request, 3, request[2][2] + 2)
        proto == SubSeq(body, 3, Len(body))
    IN [id |-> request[1][2], channel |-> body[2][2],
        packets |-> Fields(proto, "packets"), packets2 |-> Fields(proto, "packets2")]
===============================================================================
