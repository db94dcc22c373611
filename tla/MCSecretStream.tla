---------------------------- MODULE MCSecretStream ----------------------------
(* SecretStream on small instances; every definition is that module's. *)
EXTENDS SecretStream
===============================================================================
