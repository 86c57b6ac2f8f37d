----------------------------- MODULE MCSlotTable -----------------------------
(* TLC instances of SlotTable. *)
EXTENDS SlotTable, TLC

CONSTANTS c1, c2, c3

MCDefaultName(s) == IF s = 0 THEN "Player 0" ELSE "Player 1"

M(id, arg) == [id |-> id, arg |-> arg]

Hello    == {M("Hello", "supported")}
Password == {M("SendPassword", "right"), M("SendPassword", "wrong")}
World    == {M("RequestWorldData", ""), M("SpawnTileData", ""), M("PlayerSpawn", "")}

(* Anything a client may send on its way in under a password, also what is refused. *)
GhostMessages == Hello \cup {M("Hello", "unsupported")} \cup Password
                   \cup {M("SyncPlayer", "Ann"), M("ClientUuid", ""), M("SpawnTileData", ""),
                        M("PlayerSpawn", ""), M("Play", "")}

(* The name, the world and the section stream of a joining client. *)
JoinMessages == Hello \cup World \cup {M("SyncPlayer", "Ann")}

ConnSymmetry == Permutations(Conns)
=============================================================================
