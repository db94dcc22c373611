---------------------------- MODULE MCDropOldest ----------------------------
(* DropOldest with two producers and two consumers: marlinFrom has two of   *)
(* the former in dataconnect mode (the Marlin side's receiving routine and  *)
(* the peer's, which reflects NewRoundStep messages), and each channel has  *)
(* two of the latter while a connection is being replaced.  The consumers   *)
(* of marlinTo may put one message back each.                               *)
EXTENDS DropOldest, TLC

(* Producers, and consumers, are interchangeable in every safety property. *)
Symmetry == Permutations(Producers) \union Permutations(Consumers)
=============================================================================
