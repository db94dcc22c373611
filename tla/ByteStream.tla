------------------------------ MODULE ByteStream ------------------------------
(***************************************************************************)
(* What a SecretConnection promises its two ends (chains/cosmos/conn), in  *)
(* one direction: what is read is what was written, from the beginning and *)
(* in order.  A connection that fails may lose the end of what was         *)
(* written, and never a part in the middle.                                *)
(***************************************************************************)
EXTENDS Integers, Sequences

CONSTANTS
    DataMaxSize, \* bytes that one frame carries (1024)
    ReadSize     \* bytes that one Read has room for

VARIABLES
    sent,    \* the bytes that went into frames
    received \* the bytes that Read returned

vars == <<sent, received>>

IsPrefixOf(s, t) == Len(s) <= Len(t) /\ \A i \in DOMAIN s : s[i] = t[i]

Init == sent = << >> /\ received = << >>

(* A frame's worth of bytes is sent. *)
Send ==
    /\ IsPrefixOf(sent, sent')
    /\ Len(sent') - Len(sent) \in 1..DataMaxSize
    /\ UNCHANGED received

(* The reader gets the next bytes. *)
Receive ==
    /\ IsPrefixOf(received, received') /\ IsPrefixOf(received', sent)
    /\ Len(received') - Len(received) \in 1..ReadSize
    /\ UNCHANGED sent

Next == Send \/ Receive

Spec == Init /\ [][Next]_vars
===============================================================================
