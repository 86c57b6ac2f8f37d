----------------------------- MODULE DroppedItems -----------------------------
(***************************************************************************)
(* Items lying in the world (ItemStore): a table of slots that are used again *)
(* when it is full, each item reserved for a while for the player it was      *)
(* offered to, or for good when it is a boss's bag.  A client takes an item   *)
(* when the last it heard is that the item is its own, and says so            *)
(* afterwards; by then the reservation may be somebody else's.                *)
(*                                                                           *)
(* Where items lie is left out, so an offer goes to any player or to nobody   *)
(* in range; so is what an item is, so any item may turn out to be one of the *)
(* pickups that are recycled first, and an owner's packets that move its item. *)
(***************************************************************************)
EXTENDS Sessions, FiniteSetsExt

CONSTANTS
  NumItems,          \* MAX_ITEMS
  ReservedSlots,     \* SLOTS_RESERVED_BEFORE_RECYCLING
  ReservationTicks,  \* RESERVATION_TICKS
  Patience,          \* PICKUP_REPLACEMENT_TIME, in ticks
  AgeMax,            \* bound of the model: items older than this count as equally old
  DropMax            \* bound of the model: drops in one run

ASSUME ItemsAssumption == /\ NumItems \in Nat \ {0} /\ ReservationTicks \in Nat \ {0}
                          /\ {ReservedSlots, Patience, AgeMax, DropMax} \subseteq Nat
                          /\ Patience < AgeMax

VARIABLES
  item,      \* ItemStore.slots
  believes,  \* the items each client last heard are its own
  flight,    \* the pickup each client has reported and the server not yet handled
  hands,     \* history: the clients that took the item in the slot; None, some that left
  lapsed,    \* history: a reservation ended while a client counted on it
  drops      \* drops so far

itemVars == <<item, believes, flight, hands, lapsed, drops>>

Idx     == 0 .. NumItems - 1
NoOwner == -1
None    == -1
NoItem  == [lies |-> FALSE, owner |-> NoOwner, reservation |-> 0, instanced |-> FALSE,
            age |-> 0, meant |-> None]

(* WorldItem::new; meant is the player a bag is for, for as long as he stays. *)
Ordinary  == [NoItem EXCEPT !.lies = TRUE]
Thrown(p) == [Ordinary EXCEPT !.owner = p, !.reservation = ReservationTicks]
Bag(p)    == [Ordinary EXCEPT !.owner = p, !.instanced = TRUE, !.meant = p]

ItemsTypeOK ==
  /\ item \in [Idx -> [lies : BOOLEAN, owner : Players \cup {NoOwner},
                       reservation : 0 .. ReservationTicks, instanced : BOOLEAN,
                       age : 0 .. AgeMax, meant : Players \cup {None}]]
  /\ believes \in [Players -> SUBSET Idx]
  /\ flight \in [Players -> Idx \cup {None}]
  /\ hands \in [Idx -> SUBSET (Players \cup {None})]
  /\ lapsed \in [Idx -> BOOLEAN]
  /\ drops \in 0 .. DropMax

ItemsInit ==
  /\ item = [i \in Idx |-> NoItem] /\ drops = 0
  /\ believes = [p \in Players |-> {}] /\ flight = [p \in Players |-> None]
  /\ hands = [i \in Idx |-> {}] /\ lapsed = [i \in Idx |-> FALSE]

Lies(i) == item[i].lies

(* WorldItem::is_reserved *)
IsReserved_IfInstanced(it) == it.instanced
IsReserved_OnATimer(it) == it.owner # NoOwner /\ it.reservation > 0
IsReserved(it) == it.instanced \/ (it.owner # NoOwner /\ it.reservation > 0)

(* A client takes i for its own, or has reported taking it. *)
CountsOn(p, i) == i \in believes[p] \/ flight[p] = i

(* ---- who comes and goes --------------------------------------------------------- *)

(* finish_join_stream: every item with its owner, which is a slot number. *)
ItemsArrive(p) ==
  /\ believes' = [believes EXCEPT ![p] = {i \in Idx : Lies(i) /\ item[i].owner = p}]
  /\ UNCHANGED <<item, flight, hands, lapsed, drops>>

(* disconnect leaves the items alone.  What a client sent before it left has been *)
(* handled by then.                                                              *)
ItemsLeave(p) ==
  /\ flight[p] = None
  /\ believes' = [believes EXCEPT ![p] = {}]
  /\ item' = [i \in Idx |-> IF item[i].meant = p THEN [item[i] EXCEPT !.meant = None]
                            ELSE item[i]]
  /\ hands' = [i \in Idx |-> IF p \in hands[i] THEN (hands[i] \ {p}) \cup {None} ELSE hands[i]]
  /\ UNCHANGED <<flight, lapsed, drops>>

(* ---- drops ----------------------------------------------------------------------- *)

(* pick_slot: the first free slot; the oldest of the pickups that have lain there   *)
(* for long, instead of one of the reserved slots; the oldest item when none is     *)
(* free.                                                                            *)
Oldest(its, S) ==
  {i \in S : \A j \in S : its[j].age < its[i].age \/ (its[j].age = its[i].age /\ i <= j)}

PickSlot(its, pickups) ==
  LET free   == {i \in Idx : ~its[i].lies}
      first  == IF free = {} THEN NumItems ELSE Min(free)
      stale  == {i \in pickups : i < first /\ its[i].age > Patience}
  IN  IF first >= NumItems - ReservedSlots /\ stale # {} THEN Oldest(its, stale)
      ELSE IF free # {} THEN {first}
      ELSE Oldest(its, {i \in Idx : its[i].age > 0})

(* ItemStore::spawn; with no slot the drop is thrown away. *)
Put(its, new, pickups) ==
  [i \in Idx |-> IF i \in PickSlot(its, pickups) THEN new ELSE its[i]]

(* take_item_slot and what is announced: an item whose slot was taken is gone for  *)
(* everybody in the world, and a bag is announced to its owner as his.             *)
Dropped(its) ==
  LET fresh == {i \in Idx : its[i] # item[i]} IN
  /\ drops < DropMax /\ drops' = drops + 1
  /\ item' = its
  /\ believes' = [p \in Players |->
        IF ~Playing(p) THEN believes[p]
        ELSE (believes[p] \ fresh) \cup {i \in fresh : its[i].meant = p}]
  /\ hands' = [i \in Idx |-> IF i \in fresh THEN {} ELSE hands[i]]
  /\ lapsed' = [i \in Idx |->
        IF i \in fresh THEN \E p \in Players : flight[p] = i \/ (i \in believes[p] /\ ~Playing(p))
        ELSE lapsed[i]]
  /\ UNCHANGED flight

(* spawn_item: ore, loot, a heart. *)
SpawnItem(pickups) == Dropped(Put(item, Ordinary, pickups))

(* on_sync_item with a new item: whoever throws it has first claim on it. *)
ThrowItem(p, pickups) == Playing(p) /\ Dropped(Put(item, Thrown(p), pickups))

(* drop_instanced_bag: one for every player in the world, by slot. *)
DropBag(pickups) ==
  /\ InTheWorld # {}
  /\ Dropped(MapThenFoldSet(LAMBDA p, its : Put(its, Bag(p), pickups), item,
                            LAMBDA p : p, Max, InTheWorld))

(* ---- the clients ---------------------------------------------------------------- *)

(* A client takes what it holds to be its own, sees it no more and reports it. *)
Grab(p, i) ==
  /\ Playing(p) /\ Lies(i)
  /\ i \in believes[p] /\ p \notin hands[i] /\ flight[p] = None
  /\ believes' = [believes EXCEPT ![p] = @ \ {i}]
  /\ flight' = [flight EXCEPT ![p] = i]
  /\ hands' = [hands EXCEPT ![i] = @ \cup {p}]
  /\ UNCHANGED <<item, lapsed, drops>>

(* ItemOwner::reserve to everybody in the world: the items of S have owners now. *)
Heard(S, owners) ==
  [p \in Players |-> IF Playing(p)
     THEN (believes[p] \ S) \cup {i \in S : owners[i] = p} ELSE believes[p]]

(* on_item_despawn: only from the slot the item is reserved for. *)
OnItemDespawn(p) ==
  LET i == flight[p] IN
  /\ i # None
  /\ flight' = [flight EXCEPT ![p] = None]
  /\ IF Lies(i) /\ item[i].owner = p
     THEN /\ item' = [item EXCEPT ![i] = NoItem]
          /\ believes' = Heard({i}, [j \in {i} |-> NoOwner])
          /\ hands' = [hands EXCEPT ![i] = {}]
          /\ lapsed' = [lapsed EXCEPT ![i] = FALSE]
     ELSE UNCHANGED <<item, believes, hands, lapsed>>
  /\ UNCHANGED drops

(* on_release_item *)
OnReleaseItem(p, i) ==
  /\ Playing(p) /\ Lies(i)
  /\ item[i].owner = p /\ flight[p] # i
  /\ item' = [item EXCEPT ![i].owner = NoOwner, ![i].reservation = 0, ![i].meant = None]
  /\ believes' = Heard({i}, [j \in {i} |-> NoOwner])
  /\ UNCHANGED <<flight, hands, lapsed, drops>>

(* ---- the tick ------------------------------------------------------------------- *)

(* ItemStore::tick *)
Aged_KeepsOwner(it) == [it EXCEPT !.age = Min({AgeMax, @ + 1}), !.reservation = Max({0, @ - 1})]
Aged(it) ==
  LET left == Max({0, it.reservation - 1}) IN
  [it EXCEPT !.age = Min({AgeMax, @ + 1}), !.reservation = left,
             !.owner = IF left = 0 /\ ~it.instanced THEN NoOwner ELSE @]

(* tick_items: what fell into lava or shimmer is gone, the rest ages, and what is  *)
(* not reserved is offered to a player in range of it, if there is one.            *)
AfterAging(burnt) ==
  [i \in Idx |-> IF ~Lies(i) \/ i \in burnt THEN NoItem ELSE Aged(item[i])]
Free(its) == {i \in Idx : its[i].lies /\ ~IsReserved(its[i])}

TickItems(burnt, offer) ==
  LET aged    == AfterAging(burnt)
      offered == {i \in DOMAIN offer : offer[i] # NoOwner}
      ranOut(i, p) == item[i].owner = p /\ aged[i].owner # p /\ item'[i].owner # p
      lost(i) == \E p \in Players : ranOut(i, p) /\ (i \in believes'[p] \/ flight[p] = i)
  IN  /\ item' = [i \in Idx |-> IF i \in offered
                    THEN [aged[i] EXCEPT !.owner = offer[i], !.reservation = ReservationTicks]
                    ELSE aged[i]]
      /\ believes' = Heard(offered \cup burnt, [i \in offered \cup burnt |->
                                                IF i \in burnt THEN NoOwner ELSE offer[i]])
      /\ hands' = [i \in Idx |-> IF i \in burnt THEN {} ELSE hands[i]]
      /\ lapsed' = [i \in Idx |-> i \notin burnt /\ (lapsed[i] \/ lost(i))]

Burnable == {i \in Idx : Lies(i) /\ ~item[i].instanced}

Tick ==
  /\ \E i \in Idx : Lies(i)
  /\ UNCHANGED <<flight, drops>>
  /\ \E burnt \in {{}} \cup {{i} : i \in Burnable} :
       \E offer \in [Free(AfterAging(burnt)) -> InTheWorld \cup {NoOwner}] :
         TickItems(burnt, offer)

ItemStep ==
  \/ \E pickups \in SUBSET Idx :
       SpawnItem(pickups) \/ DropBag(pickups) \/ \E p \in Players : ThrowItem(p, pickups)
  \/ \E p \in Players : OnItemDespawn(p)
  \/ \E p \in Players, i \in Idx : Grab(p, i) \/ OnReleaseItem(p, i)
  \/ Tick

(* ---- properties ------------------------------------------------------------------- *)

(* An item is taken by one client only, whatever pickups and offers cross each     *)
(* other on the way, unless its reservation ran out under a client that counted    *)
(* on it: the tick says nothing of that to the client (systems.rs, tick_items;     *)
(* dispatch.rs, on_item_despawn).                                                 *)
OneTaker == \A i \in Idx : Cardinality(hands[i]) > 1 => lapsed[i]

(* A boss's bag stays reserved for the player it was dropped for, for as long as   *)
(* he stays and does not give it up, however long it lies there and whoever is     *)
(* near (world/items.rs, is_reserved and tick).                                   *)
BagsAreTheirs == \A i \in Idx : item[i].meant # None => item[i].owner = item[i].meant

(* What was reserved for a player who has left does not stay reserved for the      *)
(* empty slot (world/items.rs, tick), but for the bags.                           *)
HeldByNobody(i) ==
  Lies(i) /\ ~item[i].instanced /\ \E p \in Players : item[i].owner = p /\ seat[p] = "gone"
ReservationsLapse == \A i \in Idx : HeldByNobody(i) ~> ~HeldByNobody(i)
=============================================================================
