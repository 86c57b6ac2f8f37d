-------------------------------- MODULE Chests --------------------------------
(***************************************************************************)
(* The chests of the world, and which of them each player has open            *)
(* (Player.open_chest).  Asking to open a chest (packet 31) is refused when   *)
(* somebody else has it open; reporting which chest is open (packet 33) is    *)
(* taken at its word.  Edits, quick stacks and crafting from chests look at   *)
(* what is open, breaking and placing do not, and the ids of broken chests    *)
(* are used again.                                                           *)
(*                                                                           *)
(* A chest holds amounts of a few kinds of item.  Its name, its locks and     *)
(* wires, and what is taken from a player's own inventory are left out; the   *)
(* world is in hardmode, where a chest can turn into a mimic.                 *)
(***************************************************************************)
EXTENDS Sessions, SequencesExt

CONSTANTS
  MaxChests,   \* MAX_CHESTS
  Places,      \* tiles a chest can be anchored on
  Kinds,       \* kinds of item
  Key,         \* the kind that is a biome key
  StackMax     \* bound of the model: the room for one kind in a chest

ASSUME ChestsAssumption == /\ MaxChests \in Nat \ {0} /\ StackMax \in Nat \ {0}
                           /\ Places # {} /\ Key \in Kinds /\ IsFiniteSet(Kinds)

VARIABLES
  chests,      \* World.chests: for each id the chest, or NoChest
  open,        \* Player.open_chest, -1 for none
  told         \* history: the open chest was reported by packet 33, not asked for

chestVars == <<chests, open, told>>

ChestIds == 0 .. MaxChests - 1
Contents == [Kinds -> 0 .. StackMax]
Empty    == [k \in Kinds |-> 0]
NoChest  == [at |-> "nowhere", items |-> Empty]

ChestsTypeOK ==
  /\ chests \in [ChestIds -> [at : Places, items : Contents] \cup {NoChest}]
  /\ open \in [Players -> ChestIds \cup {-1}]
  /\ told \in [Players -> BOOLEAN]

ChestsInit ==
  /\ chests = [id \in ChestIds |-> NoChest]
  /\ open = [p \in Players |-> -1]
  /\ told = [p \in Players |-> FALSE]

Exists(id) == id \in ChestIds /\ chests[id] # NoChest
In(id)     == chests[id].items

(* A new Player has nothing open. *)
ChestsLeave(p) ==
  /\ open' = [open EXCEPT ![p] = -1]
  /\ told' = [told EXCEPT ![p] = FALSE]
  /\ UNCHANGED chests

(* Somebody other than p has the chest open, in the world or not. *)
OpenElsewhere_Never(p, id) == FALSE
OpenElsewhere(p, id) == \E q \in Players \ {p} : open[q] = id

(* on_chest_open, packet 31 *)
OnChestOpen(p, id) ==
  /\ Playing(p) /\ Exists(id)
  /\ ~OpenElsewhere(p, id)
  /\ open' = [open EXCEPT ![p] = id]
  /\ told' = [told EXCEPT ![p] = FALSE]
  /\ UNCHANGED chests

(* big_mimic_summon_check: one key and nothing else; the chest is gone with it. *)
BecomesMimic(id) == Exists(id) /\ In(id) = [Empty EXCEPT ![Key] = 1]

(* on_player_chest, packet 33: any id, or -1 to close. *)
OnPlayerChest(p, id) ==
  /\ Playing(p)
  /\ open' = [open EXCEPT ![p] = id]
  /\ told' = [told EXCEPT ![p] = id >= 0 /\ (id = open[p] => @)]
  /\ chests' = IF id = -1 /\ BecomesMimic(open[p])
               THEN [chests EXCEPT ![open[p]] = NoChest] ELSE chests

(* on_chest_item, packet 32: the open chest now holds n of a kind. *)
OnChestItem(p, id, k, n) ==
  /\ Playing(p) /\ Exists(id)
  /\ open[p] = id
  /\ chests' = [chests EXCEPT ![id].items[k] = n]
  /\ UNCHANGED <<open, told>>

(* on_quick_stack with one item of a kind: to a chest that holds some and has    *)
(* room, the nearest, unless somebody else has it open.                          *)
OnQuickStack(p, id, k) ==
  /\ Playing(p) /\ Exists(id)
  /\ In(id)[k] \in 1 .. StackMax - 1
  /\ ~OpenElsewhere(p, id)
  /\ chests' = [chests EXCEPT ![id].items[k] = @ + 1]
  /\ UNCHANGED <<open, told>>

(* can_craft_from_chest *)
Usable(p, id) == Exists(id) /\ ~OpenElsewhere(p, id)

(* chest_stock, of the first n chests that the request names: the usable ones count. *)
Pile(p, id, k) == IF Usable(p, id) THEN In(id)[k] ELSE 0
Stock(p, list, n, k) == SumFunction([i \in 1 .. n |-> Pile(p, list[i], k)])

(* Every entry is covered, not only some of them. *)
Covered(p, list, want) == \A k \in Kinds : Stock(p, list, Len(list), k) >= want[k]

(* consume_from_chests: from the i-th chest, what those before it lack. *)
Taken(p, list, want, i, k) ==
  Max({0, Min({Pile(p, list[i], k), want[k] - Stock(p, list, i - 1, k)})})

Consumed(p, list, want) ==
  [id \in ChestIds |->
     IF Usable(p, id) /\ Contains(list, id)
     THEN [chests[id] EXCEPT !.items = [k \in Kinds |->
             @[k] - Taken(p, list, want, SelectInSeq(list, LAMBDA d : d = id), k)]]
     ELSE chests[id]]

(* on_craft_request for the chests of list, in its order; a client names each once. *)
OnCraftRequest(p, list, want) ==
  /\ Playing(p)
  /\ Covered(p, list, want)
  /\ chests' = Consumed(p, list, want)
  /\ UNCHANGED <<open, told>>

(* on_chest_update: a chest with nothing in it is broken, whoever has it open. *)
Breakable(id) == In(id) = Empty

BreakChest(p, id) ==
  /\ Playing(p) /\ Exists(id) /\ Breakable(id)
  /\ chests' = [chests EXCEPT ![id] = NoChest]
  /\ UNCHANGED <<open, told>>

(* register_chest, add_chest: the lowest id that no chest has; none when every   *)
(* id is taken or something stands there.                                        *)
PlaceChest(p, at) ==
  \E id \in ChestIds :
    /\ Playing(p) /\ ~Exists(id)
    /\ \A d \in ChestIds : ~Exists(d) => id <= d
    /\ \A d \in ChestIds : chests[d].at # at
    /\ chests' = [chests EXCEPT ![id] = [at |-> at, items |-> Empty]]
    /\ UNCHANGED <<open, told>>

Lists == SetToAllKPermutations(ChestIds)

ChestStep(p) ==
  \/ \E id \in ChestIds : OnChestOpen(p, id) \/ BreakChest(p, id)
  \/ \E id \in ChestIds \cup {-1} : OnPlayerChest(p, id)
  \/ \E id \in ChestIds, k \in Kinds : OnQuickStack(p, id, k)
  \/ \E id \in ChestIds, k \in Kinds, n \in 0 .. StackMax : OnChestItem(p, id, k, n)
  \/ \E list \in Lists, want \in Contents : OnCraftRequest(p, list, want)
  \/ \E at \in Places : PlaceChest(p, at)

(* ---- properties ------------------------------------------------------------------- *)

(* What is in a chest that somebody was let into changes, or is lost, only by    *)
(* that player's doing, or by one who reported with packet 33 that it was open   *)
(* for them too (dispatch.rs, on_chest_open and the handlers that look at        *)
(* open_chest).                                                                  *)
NoClobber ==
  [][chests' # chests => \A q \in Players, id \in ChestIds :
       open[q] = id /\ ~told[q] /\ Exists(id) /\ In(id)' # In(id)
         => \E p \in Players : ChestStep(p) /\ (p = q \/ told[p])]_chestVars
=============================================================================
