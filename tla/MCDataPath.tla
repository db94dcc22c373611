------------------------------ MODULE MCDataPath ------------------------------
(* DataPath, with ChannelBuffer in it, on small instances. *)
EXTENDS DataPath
===============================================================================
