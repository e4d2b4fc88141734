------------------------------- MODULE MCClient -------------------------------
(* Instances of the client for TLC. *)
EXTENDS ClientLoop
===============================================================================
