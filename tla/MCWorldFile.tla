------------------------------ MODULE MCWorldFile ------------------------------
(* TLC instances of WorldFile. *)
EXTENDS WorldFile
===============================================================================
