------------------------------- MODULE Holdings -------------------------------
(***************************************************************************)
(* Chests, tile entities and dropped items together: everything that the     *)
(* server keeps for the number of a slot while players come and go in it.     *)
(* The handlers of each leave the other two alone; a session that begins or   *)
(* ends touches all three at once.                                           *)
(***************************************************************************)
EXTENDS Chests, TileEntities, DroppedItems

vars == <<seat, chestVars, entityVars, itemVars>>

TypeOK == SeatTypeOK /\ ChestsTypeOK /\ EntitiesTypeOK /\ ItemsTypeOK

Init == SeatInit /\ ChestsInit /\ EntitiesInit /\ ItemsInit

Join(p) == Arrives(p) /\ ItemsArrive(p) /\ UNCHANGED <<chestVars, entityVars>>

Spawn(p) == Enters(p) /\ EntitiesEnter(p) /\ UNCHANGED <<chestVars, itemVars>>

Disconnect(p) == Departs(p) /\ ChestsLeave(p) /\ EntitiesLeave(p) /\ ItemsLeave(p)

UseChests   == \E p \in Players : ChestStep(p) /\ UNCHANGED <<seat, entityVars, itemVars>>
UseEntities == EntityStep /\ UNCHANGED <<seat, chestVars, itemVars>>
UseItems    == ItemStep /\ UNCHANGED <<seat, chestVars, entityVars>>

Next ==
  \/ \E p \in Players : Join(p) \/ Spawn(p) \/ Disconnect(p)
  \/ UseChests \/ UseEntities \/ UseItems

ItemTick == UNCHANGED <<seat, chestVars, entityVars>> /\ Tick

(* The game loop ticks on a timer for as long as the server runs. *)
Spec == Init /\ [][Next]_vars /\ WF_vars(ItemTick)
=============================================================================
