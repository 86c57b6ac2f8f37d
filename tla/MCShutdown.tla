------------------------------ MODULE MCShutdown ------------------------------
(* TLC instances of Shutdown. *)
EXTENDS Shutdown
===============================================================================
