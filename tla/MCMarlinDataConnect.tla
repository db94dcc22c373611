------------------------- MODULE MCMarlinDataConnect -------------------------
(* MarlinDataConnect on small instances; every definition is that module's. *)
EXTENDS MarlinDataConnect
==============================================================================
