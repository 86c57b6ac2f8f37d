---------------------------- MODULE MCSavePipeline ----------------------------
(* TLC instances of SavePipeline. *)
EXTENDS SavePipeline, TLC
===============================================================================
