-------------------------- MODULE MCPeerDataConnect --------------------------
(* PeerDataConnect on small instances; every definition is that module's. *)
EXTENDS PeerDataConnect
==============================================================================
