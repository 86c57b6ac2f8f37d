--------------------------- MODULE MCOutboundBudget ---------------------------
(* TLC instances of OutboundBudget. *)
EXTENDS OutboundBudget
===============================================================================
