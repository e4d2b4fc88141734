------------------------------- MODULE MCMotion -------------------------------
(* Instances of the motion detection service for TLC. *)
EXTENDS Motion
===============================================================================
