------------------------------- MODULE Sessions -------------------------------
(***************************************************************************)
(* Who sits in the player table, as far as the modules about chests, tile     *)
(* entities and dropped items tell: a slot is empty, its player is still      *)
(* joining, or is in the world.  SlotTable is the table in full.              *)
(***************************************************************************)
EXTENDS Integers, FiniteSets

CONSTANT NumPlayers    \* slots of the player table

ASSUME PlayersAssumption == NumPlayers \in Nat \ {0}

Players == 0 .. NumPlayers - 1

VARIABLE seat          \* for each slot, Player.state, or "gone" when it is empty

Seats == {"gone", "joining", "playing"}
SeatTypeOK == seat \in [Players -> Seats]
SeatInit   == seat = [p \in Players |-> "gone"]

Playing(p) == seat[p] = "playing"

(* Player::is_playing decides who a broadcast is for. *)
InTheWorld == {p \in Players : Playing(p)}

Moves(p, from, to) == seat[p] = from /\ seat' = [seat EXCEPT ![p] = to]

(* finish_join_stream: the join data go out, state TilesSent. *)
Arrives(p) == Moves(p, "gone", "joining")

(* on_player_spawn: in the world from here on. *)
Enters(p)  == Moves(p, "joining", "playing")

(* disconnect *)
Departs(p) == seat[p] # "gone" /\ seat' = [seat EXCEPT ![p] = "gone"]
=============================================================================
