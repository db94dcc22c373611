----------------------------- MODULE MCSpamFilter -----------------------------
(* SpamFilter on small instances; every definition is that module's. *)
EXTENDS SpamFilter
===============================================================================
