-------------------------------- MODULE MCLog --------------------------------
(* Instances of the log for TLC. *)
EXTENDS LogPipeline
===============================================================================
