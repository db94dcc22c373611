--------------------------- MODULE MCChannelBuffer ---------------------------
(* ChannelBuffer on small instances; every definition is that module's. *)
EXTENDS ChannelBuffer
==============================================================================
