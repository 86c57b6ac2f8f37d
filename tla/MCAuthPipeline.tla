---------------------------- MODULE MCAuthPipeline ----------------------------
(* TLC instances of AuthPipeline. *)
EXTENDS AuthPipeline, TLC

Symmetry == Permutations(Conns) \cup Permutations(Names) \cup Permutations(Slots)
===============================================================================
