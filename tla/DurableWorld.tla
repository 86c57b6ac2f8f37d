----------------------------- MODULE DurableWorld -----------------------------
(***************************************************************************)
(* What the world file promises: whoever opens it finds a whole world or, at *)
(* a few moments, no file; newer saves replace older ones; and what a save    *)
(* was reported as kept is not lost to a crash or a power cut, unless         *)
(* somebody asks for an older world.                                          *)
(***************************************************************************)
EXTENDS Integers

CONSTANT Absent   \* no file; smaller than every version

VARIABLES
  stored,   \* the version in the file
  kept      \* the newest version a save was reported to have kept

vars == <<stored, kept>>

Promised(v) == v >= kept

Init == stored \in Int /\ stored >= Absent /\ kept = Absent

Replace == stored' > stored /\ UNCHANGED kept

Report == Promised(stored) /\ kept' = stored /\ UNCHANGED stored

PowerCut == stored' \in Absent .. stored /\ Promised(stored') /\ UNCHANGED kept

(* A rollback takes the promise back; from then until the next save anything that was a   *)
(* whole world may be in the file, or nothing.                                             *)
Withdraw == kept' = Absent /\ stored' \in Int /\ stored' >= Absent

Next == Replace \/ Report \/ PowerCut \/ Withdraw

Spec == Init /\ [][Next]_vars
===============================================================================
