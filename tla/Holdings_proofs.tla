--------------------------- MODULE Holdings_proofs ---------------------------
(***************************************************************************)
(* No hold on a tile entity outlives its holder, no chest changes behind the  *)
(* back of who was let into it, an item is taken once and a bag kept for whom  *)
(* it was dropped, for any number of players, chests, items and spots.         *)
(***************************************************************************)
EXTENDS Holdings, LunarEvent, FiniteSetTheorems, TLAPS

HoldsTypeOK == SeatTypeOK /\ anchors \in [Players -> 0 .. EntityMax]

HInv == HoldsTypeOK /\ HoldsAreHonest

LEMMA HoldsInit == Init => HInv
BY EntitiesAssumption
   DEF Init, SeatInit, EntitiesInit, HInv, HoldsTypeOK, SeatTypeOK, Seats, HoldsAreHonest, NoEntity

LEMMA HoldsStep == ASSUME HInv, [Next]_vars PROVE HInv'
<1> USE DEF HInv, HoldsTypeOK, SeatTypeOK, Seats, HoldsAreHonest, Playing, NoEntity
<1>1. CASE UNCHANGED <<seat, anchors>>
  BY <1>1
<1>2. ASSUME NEW p \in Players, Join(p) PROVE HInv'
  BY <1>2 DEF Join, Arrives, Moves, entityVars
<1>3. ASSUME NEW p \in Players, Spawn(p) PROVE HInv'
  BY <1>3 DEF Spawn, Enters, Moves, EntitiesEnter
<1>4. ASSUME NEW p \in Players, Disconnect(p) PROVE HInv'
  BY <1>4, EntitiesAssumption DEF Disconnect, Departs, EntitiesLeave, Freed
<1>5. ASSUME NEW p \in Players, NEW id \in 1 .. EntityMax, Interact(p, id), seat' = seat PROVE HInv'
  BY <1>5 DEF Interact, HeldElsewhere
<1>6. ASSUME NEW p \in Players, Release(p), seat' = seat PROVE HInv'
  BY <1>6, EntitiesAssumption DEF Release
<1>7. CASE UseEntities
  BY <1>1, <1>5, <1>6, <1>7 DEF UseEntities, EntityStep, Request, Build, Dig, TickEntities
<1>8. CASE UseChests \/ UseItems \/ UNCHANGED vars
  BY <1>1, <1>8 DEF UseChests, UseItems, vars, entityVars
<1> QED
  BY <1>2, <1>3, <1>4, <1>7, <1>8 DEF Next

(* A piece of furniture that somebody has open is open for nobody else, and for a player *)
(* who is in the world (dispatch.rs, on_tile_entity_interaction; mod.rs, disconnect).   *)
THEOREM HoldsStayHonest == Spec => []HoldsAreHonest
<1>1. HInv => HoldsAreHonest
  BY DEF HInv
<1> QED
  BY <1>1, HoldsInit, HoldsStep, PTL DEF Spec
-----------------------------------------------------------------------------
(* ---- chests ----------------------------------------------------------------- *)

(* Of two players who have one chest open, one was not let into it but said so.      *)
Shared(p, q) == p # q /\ open[p] = open[q] /\ open[p] # -1
CInv ==
  /\ DOMAIN chests = ChestIds
  /\ open \in [Players -> ChestIds \cup {-1}]
  /\ told \in [Players -> BOOLEAN]
  /\ \A p, q \in Players : Shared(p, q) => told[p] \/ told[q]

LEMMA ChestsInitially == Init => CInv
BY DEF Init, ChestsInit, CInv, Shared, ChestIds

LEMMA ChestStepKeeps ==
  ASSUME CInv, NEW p \in Players, ChestStep(p) PROVE CInv'
<1> USE DEF CInv, Shared
<1>1. ASSUME NEW id \in ChestIds, OnChestOpen(p, id) PROVE CInv'
  <2>1. ASSUME NEW q \in Players, q # p PROVE open[q] # id
    BY <1>1, <2>1 DEF OnChestOpen, OpenElsewhere
  <2> QED
    BY <1>1, <2>1 DEF OnChestOpen
<1>2. ASSUME NEW id \in ChestIds \cup {-1}, OnPlayerChest(p, id) PROVE CInv'
  <2>1. DOMAIN chests' = ChestIds
    BY <1>2 DEF OnPlayerChest
  <2>2. open' = [open EXCEPT ![p] = id]
        /\ told' = [told EXCEPT ![p] = id >= 0 /\ (id = open[p] => told[p])]
    BY <1>2 DEF OnPlayerChest
  <2>3. id # -1 => id >= 0
    BY DEF ChestIds
  <2> QED
    BY <2>1, <2>2, <2>3
<1>3. ASSUME NEW id \in ChestIds, BreakChest(p, id) PROVE CInv'
  BY <1>3 DEF BreakChest
<1>4. ASSUME NEW id \in ChestIds, NEW k \in Kinds, OnQuickStack(p, id, k) PROVE CInv'
  BY <1>4 DEF OnQuickStack
<1>5. ASSUME NEW id \in ChestIds, NEW k \in Kinds, NEW n, OnChestItem(p, id, k, n) PROVE CInv'
  BY <1>5 DEF OnChestItem
<1>6. ASSUME NEW list, NEW want, OnCraftRequest(p, list, want) PROVE CInv'
  BY <1>6 DEF OnCraftRequest, Consumed
<1>7. ASSUME NEW at, PlaceChest(p, at) PROVE CInv'
  BY <1>7 DEF PlaceChest
<1> QED
  BY <1>1, <1>2, <1>3, <1>4, <1>5, <1>6, <1>7 DEF ChestStep

LEMMA ChestsKeep == ASSUME CInv, [Next]_vars PROVE CInv'
<1>1. CASE UNCHANGED chestVars
  BY <1>1 DEF CInv, Shared, chestVars
<1>2. ASSUME NEW p \in Players, Disconnect(p) PROVE CInv'
  BY <1>2 DEF Disconnect, ChestsLeave, CInv, Shared
<1>3. CASE UseChests
  BY <1>3, ChestStepKeeps DEF UseChests
<1> QED
  BY <1>1, <1>2, <1>3 DEF Next, Join, Spawn, UseEntities, UseItems, vars

(* Whoever changes what is in a chest that q was let into is q, or one who reported  *)
(* that it was open for them.                                                         *)
LEMMA OnlyByThoseIn ==
  ASSUME CInv, NEW p \in Players, ChestStep(p), NEW q \in Players, NEW id \in ChestIds,
         open[q] = id, ~told[q], Exists(id), In(id)' # In(id)
  PROVE  p = q \/ told[p]
<1> SUFFICES ASSUME p # q, ~told[p] PROVE FALSE
  OBVIOUS
<1>0. open[p] # id /\ OpenElsewhere(p, id)
  BY DEF CInv, Shared, OpenElsewhere, ChestIds
<1>1. ASSUME NEW d \in ChestIds, OnChestOpen(p, d) PROVE FALSE
  BY <1>1 DEF OnChestOpen, In
<1>2. ASSUME NEW d \in ChestIds \cup {-1}, OnPlayerChest(p, d) PROVE FALSE
  BY <1>0, <1>2 DEF OnPlayerChest, In, CInv
<1>3. ASSUME NEW d \in ChestIds, BreakChest(p, d) PROVE FALSE
  BY <1>3 DEF BreakChest, Breakable, In, NoChest, CInv
<1>4. ASSUME NEW d \in ChestIds, NEW k \in Kinds, OnQuickStack(p, d, k) PROVE FALSE
  BY <1>0, <1>4 DEF OnQuickStack, In, CInv
<1>5. ASSUME NEW d \in ChestIds, NEW k \in Kinds, NEW n, OnChestItem(p, d, k, n) PROVE FALSE
  BY <1>0, <1>5 DEF OnChestItem, In, CInv
<1>6. ASSUME NEW list, NEW want, OnCraftRequest(p, list, want) PROVE FALSE
  <2>1. ~Usable(p, id)
    BY <1>0 DEF Usable
  <2>2. chests'[id] = chests[id]
    BY <1>6, <2>1 DEF OnCraftRequest, Consumed
  <2> QED
    BY <2>2 DEF In
<1>7. ASSUME NEW at, PlaceChest(p, at) PROVE FALSE
  BY <1>7 DEF PlaceChest, In, CInv
<1> QED
  BY <1>1, <1>2, <1>3, <1>4, <1>5, <1>6, <1>7 DEF ChestStep

(* What is in a chest that somebody was let into changes only by that player's doing, or *)
(* by one who reported it open too (dispatch.rs, on_chest_open, can_craft_from_chest).   *)
THEOREM ChestsAreTheirs == Spec => NoClobber
<1>1. CInv /\ [Next]_vars =>
        [chests' # chests => \A q \in Players, id \in ChestIds :
           open[q] = id /\ ~told[q] /\ Exists(id) /\ In(id)' # In(id)
             => \E p \in Players : ChestStep(p) /\ (p = q \/ told[p])]_chestVars
  <2> SUFFICES ASSUME CInv, [Next]_vars, chests' # chests, NEW q \in Players, NEW id \in ChestIds,
                      open[q] = id, ~told[q], Exists(id), In(id)' # In(id)
               PROVE  \E p \in Players : ChestStep(p) /\ (p = q \/ told[p])
    OBVIOUS
  <2>1. PICK p \in Players : ChestStep(p)
    BY DEF Next, Join, Spawn, Disconnect, ChestsLeave, UseChests, UseEntities, UseItems, vars, chestVars
  <2> QED
    BY <2>1, OnlyByThoseIn
<1> QED
  BY <1>1, ChestsInitially, ChestsKeep, PTL DEF Spec, NoClobber

-----------------------------------------------------------------------------
(* ---- dropped items ----------------------------------------------------------- *)

ItemRecord == [lies : BOOLEAN, owner : Players \cup {NoOwner},
               reservation : 0 .. ReservationTicks, instanced : BOOLEAN,
               age : 0 .. AgeMax, meant : Players \cup {None}]

(* A bag that is still meant for a player is reserved for him for good. *)
Meant(it) == it.meant # None => it.instanced /\ it.owner = it.meant

(* As long as no reservation of it lapsed, who counts on an item is its owner, and    *)
(* who took it has said so and not been heard yet.                                     *)
Honest(i) ==
  Lies(i) /\ ~lapsed[i] => /\ \A p \in Players : CountsOn(p, i) => item[i].owner = p
                           /\ \A p \in hands[i] : p \in Players /\ flight[p] = i

GInv ==
  /\ SeatTypeOK /\ ItemsTypeOK
  /\ \A i \in Idx : Meant(item[i]) /\ (~Lies(i) => hands[i] = {}) /\ Honest(i)

(* A set that contains T whenever it contains all smaller sets, contains all finite sets. *)
LEMMA SubsetInduction ==
  ASSUME NEW S, IsFiniteSet(S), NEW G,
         \A T \in SUBSET S : (\A U \in SUBSET T : U # T => U \in G) => T \in G
  PROVE  SUBSET S \subseteq G
<1> DEFINE Bad == {T \in SUBSET S : T \notin G}
<1> SUFFICES ASSUME Bad # {} PROVE FALSE
  OBVIOUS
<1>1. IsWellFoundedOn(StrictSubsetOrdering(S), SUBSET S)
  <2>1. FiniteSubsetsOf(S) = SUBSET S
    BY FS_FiniteSubsetsOfFinite, Zenon
  <2>2. IsWellFoundedOn(StrictSubsetOrdering(S), FiniteSubsetsOf(S))
    BY FS_StrictSubsetOrderingWellFounded, Zenon
  <2> QED
    BY <2>1, <2>2, Zenon
<1>2. ASSUME NEW B, B \subseteq SUBSET S, B # {}
      PROVE  \E T \in B : \A U \in B : ~(<<U, T>> \in StrictSubsetOrdering(S))
  BY <1>1, <1>2, WFMin
<1>3. PICK T \in Bad : \A U \in Bad : ~(<<U, T>> \in StrictSubsetOrdering(S))
  <2>1. Bad \subseteq SUBSET S /\ Bad # {}
    OBVIOUS
  <2> HIDE DEF Bad
  <2> QED
    BY <1>2, <2>1
<1>4. ASSUME NEW U \in SUBSET T, U # T PROVE U \in G
  <2>1. <<U, T>> \in StrictSubsetOrdering(S)
    BY <1>4 DEF StrictSubsetOrdering
  <2> QED
    BY <1>3, <2>1
<1> QED
  BY <1>4

LEMMA MaxIsGreatest ==
  ASSUME NEW S \in SUBSET Int, IsFiniteSet(S), S # {}
  PROVE  Max(S) \in S /\ \A y \in S : y <= Max(S)
<1> DEFINE G == {T \in SUBSET S : T # {} => \E x \in T : \A y \in T : x >= y}
<1>1. ASSUME NEW T \in SUBSET S, \A U \in SUBSET T : U # T => U \in G PROVE T \in G
  <2> SUFFICES ASSUME T # {} PROVE \E x \in T : \A y \in T : x >= y
    OBVIOUS
  <2>1. PICK z \in T : TRUE
    OBVIOUS
  <2>2. T \ {z} \in G
    BY <1>1, <2>1
  <2>3. CASE T \ {z} = {}
    <3>1. \A y \in T : y = z
      BY <2>3
    <3> QED
      BY <2>1, <3>1
  <2>4. CASE T \ {z} # {}
    <3>1. PICK x \in T \ {z} : \A y \in T \ {z} : x >= y
      BY <2>2, <2>4
    <3>2. CASE x >= z
      BY <3>1, <3>2
    <3>3. CASE z >= x
      <4>1. \A y \in T : z >= y
        BY <2>1, <3>1, <3>3
      <4> QED
        BY <2>1, <4>1
    <3> QED
      BY <2>1, <3>1, <3>2, <3>3
  <2> QED
    BY <2>3, <2>4
<1>2. S \in G
  <2> HIDE DEF G
  <2> QED
    BY <1>1, SubsetInduction
<1>3. \E x \in S : \A y \in S : x >= y
  BY <1>2
<1> QED
  BY <1>3 DEF Max

(* Bags are dealt one after the other, to the player with the highest number last. *)
LEMMA BagsAreDealt ==
  ASSUME NEW pickups, DropBag(pickups)
  PROVE  \E deal :
           /\ deal = [s \in SUBSET InTheWorld |->
                        IF s = {} THEN item ELSE Put(deal[s \ {Max(s)}], Bag(Max(s)), pickups)]
           /\ Dropped(deal[InTheWorld])
<1> DEFINE Next1(s, its) == Put(its, Bag(Max(s)), pickups)
           Deals(g, T) == g = [s \in SUBSET T |-> IF s = {} THEN item ELSE Next1(s, g[s \ {Max(s)}])]
           iter == CHOOSE g : Deals(g, InTheWorld)
           G == {T \in SUBSET InTheWorld : \E g : Deals(g, T)}
<1>0. IsFiniteSet(InTheWorld) /\ InTheWorld \in SUBSET Int
  <2>1. IsFiniteSet(Players) /\ InTheWorld \subseteq Players /\ Players \subseteq Int
    BY PlayersAssumption, FS_Interval DEF Players, InTheWorld
  <2> QED
    BY <2>1, FS_Subset
<1>1. Dropped(iter[InTheWorld])
  BY DEF DropBag, MapThenFoldSet
<1>2. ASSUME NEW T \in SUBSET InTheWorld, \A U \in SUBSET T : U # T => U \in G PROVE T \in G
  <2> SUFFICES \E g : Deals(g, T)
    OBVIOUS
  <2> HIDE DEF Next1
  <2>1. CASE T = {}
    <3>1. Deals([s \in SUBSET T |-> item], T)
      BY <2>1
    <3> QED
      BY <3>1
  <2>2. CASE T # {}
    <3> DEFINE x == Max(T)
               U == T \ {x}
    <3>1. x \in T /\ \A s \in SUBSET T : x \in s => Max(s) = x
      <4>1. \A s \in SUBSET T : IsFiniteSet(s) /\ s \in SUBSET Int
        BY <1>0, FS_Subset
      <4>2. x \in T /\ \A y \in T : y <= x
        BY <2>2, <4>1, MaxIsGreatest
      <4>3. ASSUME NEW s \in SUBSET T, x \in s PROVE Max(s) = x
        <5>1. Max(s) \in s /\ x <= Max(s)
          BY <4>1, <4>3, MaxIsGreatest
        <5>2. Max(s) <= x /\ Max(s) \in Int /\ x \in Int
          BY <1>0, <4>2, <5>1
        <5> QED
          BY <5>1, <5>2
      <4> QED
        BY <4>2, <4>3
    <3> HIDE DEF x
    <3>2. PICK h : Deals(h, U)
      <4>1. U \in SUBSET T /\ U # T
        BY <3>1
      <4>2. U \in G
        BY <1>2, <4>1
      <4> QED
        BY <4>2
    <3> DEFINE g == [s \in SUBSET T |-> IF x \notin s THEN h[s] ELSE Next1(s, h[s \ {x}])]
    <3>3. ASSUME NEW s \in SUBSET T
          PROVE  g[s] = IF s = {} THEN item ELSE Next1(s, g[s \ {Max(s)}])
      <4>1. CASE x \notin s
        <5>1. s \in SUBSET U
          BY <4>1
        <5>2. h[s] = IF s = {} THEN item ELSE Next1(s, h[s \ {Max(s)}])
          BY <3>2, <5>1
        <5>3. g[s] = h[s] /\ g[s \ {Max(s)}] = h[s \ {Max(s)}]
          BY <4>1
        <5> QED
          BY <5>2, <5>3
      <4>2. CASE x \in s
        <5>1. Max(s) = x /\ s # {} /\ x \notin s \ {x} /\ s \ {x} \in SUBSET T
          BY <3>1, <4>2
        <5>2. g[s] = Next1(s, h[s \ {x}]) /\ g[s \ {x}] = h[s \ {x}]
          BY <4>2, <5>1
        <5> QED
          BY <5>1, <5>2
      <4> QED
        BY <4>1, <4>2
    <3>4. Deals(g, T)
      <4>1. g = [s \in SUBSET T |-> g[s]]
        OBVIOUS
      <4> HIDE DEF g
      <4> QED
        BY <3>3, <4>1
    <3> QED
      BY <3>4
  <2> QED
    BY <2>1, <2>2
<1>3. InTheWorld \in G
  <2> HIDE DEF G
  <2> QED
    BY <1>0, <1>2, SubsetInduction
<1>4. \E g : Deals(g, InTheWorld)
  BY <1>3
<1>5. Deals(iter, InTheWorld)
  BY <1>4
<1> QED
  BY <1>1, <1>5

(* What lies there after the bags are dealt is what lay there, or one of them. *)
LEMMA DealtAreBags ==
  ASSUME GInv, NEW pickups, DropBag(pickups)
  PROVE  \E its : /\ Dropped(its) /\ its = [i \in Idx |-> its[i]]
                  /\ \A i \in Idx : its[i] = item[i] \/ \E p \in Players : its[i] = Bag(p)
<1>1. PICK deal :
           /\ deal = [s \in SUBSET InTheWorld |->
                        IF s = {} THEN item ELSE Put(deal[s \ {Max(s)}], Bag(Max(s)), pickups)]
           /\ Dropped(deal[InTheWorld])
  BY BagsAreDealt
<1>2. IsFiniteSet(InTheWorld) /\ InTheWorld \subseteq Players /\ Players \in SUBSET Int
  <2>1. IsFiniteSet(Players) /\ InTheWorld \subseteq Players /\ Players \in SUBSET Int
    BY PlayersAssumption, FS_Interval DEF Players, InTheWorld
  <2> QED
    BY <2>1, FS_Subset
<1> DEFINE Good(d) == /\ d = [i \in Idx |-> d[i]]
                      /\ \A i \in Idx : d[i] = item[i] \/ \E p \in Players : d[i] = Bag(p)
           G == {T \in SUBSET InTheWorld : Good(deal[T])}
<1>3. ASSUME NEW T \in SUBSET InTheWorld, \A U \in SUBSET T : U # T => U \in G PROVE T \in G
  <2>1. CASE T = {}
    <3>1. deal[T] = item
      BY <1>1, <2>1
    <3>2. item = [i \in Idx |-> item[i]]
      BY DEF GInv, ItemsTypeOK
    <3> QED
      BY <3>1, <3>2
  <2>2. CASE T # {}
    <3>1. Max(T) \in T
      <4>1. IsFiniteSet(T) /\ T \in SUBSET Int
        BY <1>2, FS_Subset
      <4> QED
        BY <2>2, <4>1, MaxIsGreatest
    <3>2. T \ {Max(T)} \in G /\ Max(T) \in Players
      BY <1>2, <1>3, <3>1
    <3>3. deal[T] = Put(deal[T \ {Max(T)}], Bag(Max(T)), pickups)
      BY <1>1, <2>2
    <3>4. deal[T] = [i \in Idx |-> deal[T][i]]
          /\ \A i \in Idx : deal[T][i] = Bag(Max(T)) \/ deal[T][i] = deal[T \ {Max(T)}][i]
      BY <3>3 DEF Put
    <3> QED
      BY <3>2, <3>4
  <2> QED
    BY <2>1, <2>2
<1>4. InTheWorld \in G
  <2> HIDE DEF G
  <2> QED
    BY <1>2, <1>3, SubsetInduction
<1> QED
  BY <1>1, <1>4

LEMMA MinMaxOfTwo ==
  ASSUME NEW a \in Int, NEW b \in Int
  PROVE  /\ Min({a, b}) = IF a <= b THEN a ELSE b
         /\ Max({a, b}) = IF a >= b THEN a ELSE b
<1>1. \E x \in {a, b} : \A y \in {a, b} : x <= y
  OBVIOUS
<1>2. \E x \in {a, b} : \A y \in {a, b} : x >= y
  OBVIOUS
<1>3. Min({a, b}) \in {a, b} /\ \A y \in {a, b} : Min({a, b}) <= y
  BY <1>1 DEF Min
<1>4. Max({a, b}) \in {a, b} /\ \A y \in {a, b} : Max({a, b}) >= y
  BY <1>2 DEF Max
<1> QED
  BY <1>3, <1>4

LEMMA RecordsMade ==
  /\ NoItem \in ItemRecord /\ ~NoItem.lies /\ NoItem.meant = None
  /\ Ordinary \in ItemRecord /\ Ordinary.lies /\ Ordinary.meant = None
  /\ \A p \in Players :
       /\ Thrown(p) \in ItemRecord /\ Thrown(p).lies /\ Thrown(p).meant = None
       /\ Bag(p) \in ItemRecord /\ Bag(p).lies /\ Bag(p).instanced
       /\ Bag(p).owner = p /\ Bag(p).meant = p
<1>1. 0 \in 0 .. ReservationTicks /\ ReservationTicks \in 0 .. ReservationTicks /\ 0 \in 0 .. AgeMax
  <2>1. ReservationTicks \in Nat /\ AgeMax \in Nat
    BY ItemsAssumption
  <2> QED
    BY <2>1
<1>2. NoItem \in ItemRecord /\ ~NoItem.lies /\ NoItem.meant = None
  BY <1>1 DEF NoItem, ItemRecord
<1>3. ASSUME NEW it \in ItemRecord, NEW l \in BOOLEAN
      PROVE  /\ [it EXCEPT !.lies = l] \in ItemRecord
             /\ [it EXCEPT !.lies = l].lies = l /\ [it EXCEPT !.lies = l].meant = it.meant
  BY DEF ItemRecord
<1>4. Ordinary \in ItemRecord /\ Ordinary.lies /\ Ordinary.meant = None
  <2> HIDE DEF NoItem
  <2> QED
    BY <1>2, <1>3 DEF Ordinary
<1>5. ASSUME NEW p \in Players
      PROVE  /\ Thrown(p) \in ItemRecord /\ Thrown(p).lies /\ Thrown(p).meant = None
             /\ Bag(p) \in ItemRecord /\ Bag(p).lies /\ Bag(p).instanced
             /\ Bag(p).owner = p /\ Bag(p).meant = p
  <2> HIDE DEF Ordinary
  <2>1. Thrown(p) \in ItemRecord /\ Thrown(p).lies /\ Thrown(p).meant = None
    BY <1>1, <1>4 DEF Thrown, ItemRecord
  <2>2. ASSUME NEW it \in ItemRecord, NEW b \in BOOLEAN
        PROVE  LET made == [it EXCEPT !.owner = p, !.instanced = b, !.meant = p] IN
               /\ made \in ItemRecord /\ made.lies = it.lies /\ made.instanced = b
               /\ made.owner = p /\ made.meant = p
    BY DEF ItemRecord
  <2>3. /\ Bag(p) \in ItemRecord /\ Bag(p).lies /\ Bag(p).instanced
        /\ Bag(p).owner = p /\ Bag(p).meant = p
    BY <1>4, <2>2 DEF Bag
  <2> QED
    BY <2>1, <2>3
<1> QED
  BY <1>2, <1>4, <1>5

(* A tick changes age and reservation, and whom it is for only if it ran out. *)
LEMMA AgedStays ==
  ASSUME NEW it \in ItemRecord
  PROVE  /\ Aged(it) \in ItemRecord
         /\ Aged(it).lies = it.lies /\ Aged(it).instanced = it.instanced /\ Aged(it).meant = it.meant
         /\ Aged(it).owner = it.owner \/ (~it.instanced /\ Aged(it).owner = NoOwner)
         /\ ~IsReserved(Aged(it)) => ~it.instanced /\ Aged(it).owner = NoOwner
<1> DEFINE left == Max({0, it.reservation - 1})
           older == Min({AgeMax, it.age + 1})
           whose == IF left = 0 /\ ~it.instanced THEN NoOwner ELSE it.owner
<1>1. left \in 0 .. ReservationTicks /\ older \in 0 .. AgeMax
  <2>1. ReservationTicks \in Nat /\ AgeMax \in Nat
    BY ItemsAssumption
  <2>2. it.reservation \in 0 .. ReservationTicks /\ it.age \in 0 .. AgeMax
    BY DEF ItemRecord
  <2>3. left = IF 0 >= it.reservation - 1 THEN 0 ELSE it.reservation - 1
    BY <2>1, <2>2, MinMaxOfTwo
  <2>4. older = IF AgeMax <= it.age + 1 THEN AgeMax ELSE it.age + 1
    BY <2>1, <2>2, MinMaxOfTwo
  <2> QED
    BY <2>1, <2>2, <2>3, <2>4
<1>2. Aged(it) = [it EXCEPT !.age = older, !.reservation = left, !.owner = whose]
  BY DEF Aged
<1> HIDE DEF left, older
<1>3. Aged(it) = [lies |-> it.lies, owner |-> whose, reservation |-> left,
                  instanced |-> it.instanced, age |-> older, meant |-> it.meant]
  BY <1>2 DEF ItemRecord
<1>4. whose \in Players \cup {NoOwner}
  BY DEF ItemRecord
<1>5. Aged(it) \in ItemRecord
  BY <1>1, <1>3, <1>4 DEF ItemRecord
<1>6. ~IsReserved(Aged(it)) => ~it.instanced /\ whose = NoOwner
  BY <1>1, <1>3 DEF IsReserved
<1> QED
  BY <1>3, <1>5, <1>6

LEMMA GInit == Init => GInv
<1> SUFFICES ASSUME Init PROVE GInv
  OBVIOUS
<1>1. SeatTypeOK
  BY DEF Init, SeatInit, SeatTypeOK, Seats
<1>2. ItemsTypeOK
  BY RecordsMade, ItemsAssumption DEF Init, ItemsInit, ItemsTypeOK, ItemRecord
<1>3. \A i \in Idx : Meant(item[i]) /\ hands[i] = {} /\ ~Lies(i)
  BY RecordsMade DEF Init, ItemsInit, Meant, Lies
<1> QED
  BY <1>1, <1>2, <1>3 DEF GInv, Honest

(* ---- drops ---- *)

LEMMA DroppedKeeps ==
  ASSUME GInv, NEW its, Dropped(its), seat' = seat, its = [i \in Idx |-> its[i]],
         \A i \in Idx : \/ its[i] = item[i]
                        \/ its[i] \in ItemRecord /\ its[i].lies /\ Meant(its[i])
  PROVE  GInv'
<1> USE DEF GInv
<1> DEFINE fresh == {i \in Idx : its[i] # item[i]}
<1>1. /\ item' = its /\ flight' = flight /\ drops < DropMax /\ drops' = drops + 1
      /\ believes' = [p \in Players |->
           IF ~Playing(p) THEN believes[p]
           ELSE (believes[p] \ fresh) \cup {i \in fresh : its[i].meant = p}]
      /\ hands' = [i \in Idx |-> IF i \in fresh THEN {} ELSE hands[i]]
      /\ lapsed' = [i \in Idx |->
           IF i \in fresh THEN \E p \in Players : flight[p] = i \/ (i \in believes[p] /\ ~Playing(p))
           ELSE lapsed[i]]
  BY DEF Dropped
<1>2. /\ item \in [Idx -> ItemRecord] /\ believes \in [Players -> SUBSET Idx]
      /\ flight \in [Players -> Idx \cup {None}]
      /\ hands \in [Idx -> SUBSET (Players \cup {None})] /\ lapsed \in [Idx -> BOOLEAN]
      /\ drops \in 0 .. DropMax
  BY DEF ItemsTypeOK, ItemRecord
<1>3. ItemsTypeOK'
  <2>1. \A i \in Idx : its[i] \in ItemRecord
    BY <1>2
  <2>2. its \in [Idx -> ItemRecord]
    BY <2>1
  <2>3. item' \in [Idx -> ItemRecord]
    BY <1>1, <2>2
  <2>4. believes' \in [Players -> SUBSET Idx] /\ hands' \in [Idx -> SUBSET (Players \cup {None})]
    BY <1>1, <1>2
  <2>5. lapsed' \in [Idx -> BOOLEAN]
    BY <1>1, <1>2
  <2>6. drops' \in 0 .. DropMax
    BY <1>1, <1>2, ItemsAssumption
  <2> QED
    BY <1>1, <1>2, <2>3, <2>4, <2>5, <2>6 DEF ItemsTypeOK, ItemRecord
<1>4. ASSUME NEW i \in Idx PROVE Meant(item'[i]) /\ (~Lies(i)' => hands'[i] = {}) /\ Honest(i)'
  <2>1. CASE i \in fresh
    <3>1. its[i].lies /\ Meant(its[i]) /\ hands'[i] = {}
      BY <1>1, <2>1
    <3>2. ASSUME ~lapsed'[i], NEW p \in Players, CountsOn(p, i)' PROVE its[i].owner = p
      <4>1. flight[p] # i /\ ~(i \in believes[p] /\ ~Playing(p))
        BY <1>1, <2>1, <3>2
      <4>2. i \in believes'[p]
        BY <1>1, <3>2, <4>1 DEF CountsOn
      <4>3. its[i].meant = p
        BY <1>1, <2>1, <4>1, <4>2
      <4> QED
        BY <3>1, <4>3 DEF Meant, Players, None
    <3> QED
      BY <1>1, <3>1, <3>2 DEF Lies, Honest
  <2>2. CASE i \notin fresh
    <3>1. item'[i] = item[i] /\ hands'[i] = hands[i] /\ lapsed'[i] = lapsed[i]
      BY <1>1, <2>2
    <3>2. \A p \in Players : i \in believes'[p] <=> i \in believes[p]
      BY <1>1, <2>2
    <3> QED
      BY <1>1, <3>1, <3>2 DEF Lies, Honest, CountsOn
  <2> QED
    BY <2>1, <2>2
<1>5. SeatTypeOK'
  BY DEF SeatTypeOK
<1> QED
  BY <1>3, <1>4, <1>5

LEMMA DropsKeep ==
  ASSUME GInv, seat' = seat, NEW pickups,
         SpawnItem(pickups) \/ DropBag(pickups) \/ \E p \in Players : ThrowItem(p, pickups)
  PROVE  GInv'
<1>1. ASSUME NEW new \in ItemRecord, new.lies, Meant(new), Dropped(Put(item, new, pickups))
      PROVE  GInv'
  <2> DEFINE its == Put(item, new, pickups)
  <2>1. its = [i \in Idx |-> its[i]] /\ \A i \in Idx : its[i] = item[i] \/ its[i] = new
    BY DEF Put
  <2>2. Dropped(its)
    BY <1>1
  <2> HIDE DEF its
  <2> QED
    BY <1>1, <2>1, <2>2, DroppedKeeps
<1>2. CASE SpawnItem(pickups)
  BY <1>1, <1>2, RecordsMade DEF SpawnItem, Meant
<1>3. CASE \E p \in Players : ThrowItem(p, pickups)
  BY <1>1, <1>3, RecordsMade DEF ThrowItem, Meant
<1>4. CASE DropBag(pickups)
  <2>1. PICK its : /\ Dropped(its) /\ its = [i \in Idx |-> its[i]]
                   /\ \A i \in Idx : its[i] = item[i] \/ \E p \in Players : its[i] = Bag(p)
    BY <1>4, DealtAreBags
  <2>2. \A p \in Players : Bag(p) \in ItemRecord /\ Bag(p).lies /\ Meant(Bag(p))
    BY RecordsMade DEF Meant
  <2> QED
    BY <2>1, <2>2, DroppedKeeps
<1> QED
  BY <1>2, <1>3, <1>4

(* ---- sessions and clients ---- *)

LEMMA GTypes ==
  ASSUME GInv
  PROVE  /\ item \in [Idx -> ItemRecord] /\ believes \in [Players -> SUBSET Idx]
         /\ flight \in [Players -> Idx \cup {None}]
         /\ hands \in [Idx -> SUBSET (Players \cup {None})] /\ lapsed \in [Idx -> BOOLEAN]
         /\ drops \in 0 .. DropMax /\ None \notin Idx /\ NoOwner \notin Players
BY DEF GInv, ItemsTypeOK, ItemRecord, Idx, None, NoOwner, Players

LEMMA ItemsTyped ==
  ASSUME item' \in [Idx -> ItemRecord], believes' \in [Players -> SUBSET Idx],
         flight' \in [Players -> Idx \cup {None}],
         hands' \in [Idx -> SUBSET (Players \cup {None})], lapsed' \in [Idx -> BOOLEAN],
         drops' \in 0 .. DropMax
  PROVE  ItemsTypeOK'
BY DEF ItemsTypeOK, ItemRecord

(* Who joins is told of the items that are reserved for his slot. *)
LEMMA JoinKeepsItems ==
  ASSUME GInv, NEW p \in Players, Join(p) PROVE GInv'
<1> USE DEF GInv
<1>1. /\ item' = item /\ flight' = flight /\ hands' = hands /\ lapsed' = lapsed /\ drops' = drops
      /\ believes' = [believes EXCEPT ![p] = {i \in Idx : Lies(i) /\ item[i].owner = p}]
  BY DEF Join, ItemsArrive
<1>2. SeatTypeOK'
  BY DEF Join, Arrives, Moves, SeatTypeOK, Seats
<1>3. ItemsTypeOK'
  BY <1>1, GTypes, ItemsTyped
<1>4. ASSUME NEW i \in Idx PROVE Honest(i)'
  <2>1. ASSUME NEW q \in Players, CountsOn(q, i)' PROVE CountsOn(q, i) \/ item[i].owner = q
    BY <1>1, <2>1, GTypes DEF CountsOn
  <2> QED
    BY <1>1, <2>1 DEF Honest, Lies
<1> QED
  BY <1>1, <1>2, <1>3, <1>4 DEF Lies

(* Who leaves counts on nothing any more, and has been heard. *)
LEMMA LeaveKeepsItems ==
  ASSUME GInv, NEW p \in Players, Disconnect(p) PROVE GInv'
<1> USE DEF GInv
<1>1. /\ flight' = flight /\ lapsed' = lapsed /\ drops' = drops /\ flight[p] = None
      /\ believes' = [believes EXCEPT ![p] = {}]
      /\ item' = [i \in Idx |-> IF item[i].meant = p THEN [item[i] EXCEPT !.meant = None] ELSE item[i]]
      /\ hands' = [i \in Idx |-> IF p \in hands[i] THEN (hands[i] \ {p}) \cup {None} ELSE hands[i]]
  BY DEF Disconnect, ItemsLeave
<1>2. SeatTypeOK'
  BY DEF Disconnect, Departs, SeatTypeOK, Seats
<1>3. ASSUME NEW i \in Idx
      PROVE  /\ item'[i] \in ItemRecord /\ Meant(item'[i])
             /\ item'[i].lies = item[i].lies /\ item'[i].owner = item[i].owner
  <2>1. item[i] \in ItemRecord
    BY GTypes
  <2>2. CASE item[i].meant = p
    BY <1>1, <2>1, <2>2 DEF ItemRecord, Meant
  <2>3. CASE item[i].meant # p
    BY <1>1, <2>1, <2>3
  <2> QED
    BY <2>2, <2>3
<1>4. ItemsTypeOK'
  <2>1. item' \in [Idx -> ItemRecord]
    BY <1>1, <1>3
  <2>2. hands' \in [Idx -> SUBSET (Players \cup {None})]
    BY <1>1, GTypes
  <2> QED
    BY <1>1, <2>1, <2>2, GTypes, ItemsTyped
<1>5. ASSUME NEW i \in Idx PROVE (~Lies(i)' => hands'[i] = {}) /\ Honest(i)'
  <2>1. Lies(i)' = Lies(i)
    BY <1>3 DEF Lies
  <2>2. CASE p \in hands[i]
    <3>1. Lies(i) /\ lapsed[i]
      BY <1>1, <2>2, GTypes DEF Honest
    <3> QED
      BY <1>1, <2>1, <3>1 DEF Honest
  <2>3. CASE p \notin hands[i]
    <3>1. hands'[i] = hands[i]
      BY <1>1, <2>3
    <3>2. \A q \in Players : CountsOn(q, i)' => CountsOn(q, i)
      BY <1>1, GTypes DEF CountsOn
    <3> QED
      BY <1>1, <1>3, <2>1, <3>1, <3>2 DEF Honest
  <2> QED
    BY <2>2, <2>3
<1> QED
  BY <1>2, <1>3, <1>4, <1>5

LEMMA GrabKeeps ==
  ASSUME GInv, NEW p \in Players, NEW i \in Idx, Grab(p, i), seat' = seat PROVE GInv'
<1> USE DEF GInv
<1>1. /\ item' = item /\ lapsed' = lapsed /\ drops' = drops /\ Lies(i) /\ i \in believes[p]
      /\ flight[p] = None
      /\ believes' = [believes EXCEPT ![p] = believes[p] \ {i}]
      /\ flight' = [flight EXCEPT ![p] = i]
      /\ hands' = [hands EXCEPT ![i] = hands[i] \cup {p}]
  BY DEF Grab
<1>2. ItemsTypeOK'
  BY <1>1, GTypes, ItemsTyped
<1>3. ASSUME NEW j \in Idx PROVE (~Lies(j)' => hands'[j] = {}) /\ Honest(j)'
  <2>1. \A q \in Players : CountsOn(q, j)' => CountsOn(q, j)
    BY <1>1, GTypes DEF CountsOn
  <2>2. \A q \in hands'[j] : q \in hands[j] \/ (q = p /\ j = i)
    BY <1>1, GTypes
  <2>3. \A q \in Players : flight[q] = j => flight'[q] = j
    BY <1>1, GTypes
  <2>4. flight'[p] = i
    BY <1>1, GTypes
  <2>5. ~Lies(j) => hands'[j] = {}
    BY <1>1, GTypes
  <2> QED
    BY <1>1, <2>1, <2>2, <2>3, <2>4, <2>5 DEF Honest, Lies
<1> QED
  BY <1>1, <1>2, <1>3 DEF SeatTypeOK

(* An owner's pickup empties the slot; anybody else's, whose reservation lapsed, does nothing. *)
LEMMA DespawnKeeps ==
  ASSUME GInv, NEW p \in Players, OnItemDespawn(p), seat' = seat PROVE GInv'
<1> USE DEF GInv
<1> DEFINE i == flight[p]
<1>1. /\ i \in Idx /\ drops' = drops /\ flight' = [flight EXCEPT ![p] = None]
      /\ \A q \in Players : flight'[q] = IF q = p THEN None ELSE flight[q]
  BY GTypes DEF OnItemDespawn
<1>2. SeatTypeOK'
  BY DEF SeatTypeOK
<1>3. CASE Lies(i) /\ item[i].owner = p
  <2>1. /\ item' = [item EXCEPT ![i] = NoItem]
        /\ believes' = Heard({i}, [j \in {i} |-> NoOwner])
        /\ hands' = [hands EXCEPT ![i] = {}]
        /\ lapsed' = [lapsed EXCEPT ![i] = FALSE]
    BY <1>3 DEF OnItemDespawn
  <2>2. believes' \in [Players -> SUBSET Idx] /\ \A q \in Players : believes'[q] \subseteq believes[q]
    BY <1>1, <2>1, GTypes DEF Heard
  <2>3. item' \in [Idx -> ItemRecord]
    <3> HIDE DEF NoItem
    <3> QED
      BY <2>1, RecordsMade, GTypes
  <2>4. ItemsTypeOK'
    BY <1>1, <2>1, <2>2, <2>3, GTypes, ItemsTyped
  <2>5. ASSUME NEW j \in Idx PROVE Meant(item'[j]) /\ (~Lies(j)' => hands'[j] = {}) /\ Honest(j)'
    <3>1. CASE j = i
      <4>1. item'[j] = NoItem /\ hands'[j] = {}
        BY <2>1, <3>1, GTypes
      <4> QED
        BY <4>1, RecordsMade DEF Meant, Lies, Honest
    <3>2. CASE j # i
      <4>1. item'[j] = item[j] /\ hands'[j] = hands[j] /\ lapsed'[j] = lapsed[j]
        BY <2>1, <3>2, GTypes
      <4>2. \A q \in Players : CountsOn(q, j)' => CountsOn(q, j)
        BY <1>1, <2>2, GTypes DEF CountsOn
      <4>3. \A q \in Players : flight[q] = j => flight'[q] = j
        BY <1>1, <3>2
      <4> QED
        BY <4>1, <4>2, <4>3 DEF Honest, Lies
    <3> QED
      BY <3>1, <3>2
  <2> QED
    BY <1>2, <2>4, <2>5
<1>4. CASE ~(Lies(i) /\ item[i].owner = p)
  <2>1. item' = item /\ believes' = believes /\ hands' = hands /\ lapsed' = lapsed
    BY <1>4 DEF OnItemDespawn
  <2>2. ItemsTypeOK'
    BY <1>1, <2>1, GTypes, ItemsTyped
  <2>3. ASSUME NEW j \in Idx PROVE Honest(j)'
    <3>1. CASE j = i /\ Lies(i) /\ ~lapsed[i]
      <4>1. CountsOn(p, i)
        BY DEF CountsOn
      <4> QED
        BY <1>1, <1>4, <3>1, <4>1 DEF Honest
    <3>2. CASE j # i
      <4>1. \A q \in Players : CountsOn(q, j)' => CountsOn(q, j)
        BY <1>1, <2>1, GTypes DEF CountsOn
      <4>2. \A q \in Players : flight[q] = j => flight'[q] = j
        BY <1>1, <3>2
      <4> QED
        BY <2>1, <4>1, <4>2 DEF Honest, Lies
    <3> QED
      BY <2>1, <3>1, <3>2 DEF Honest, Lies
  <2> QED
    BY <1>2, <2>1, <2>2, <2>3 DEF Lies
<1> QED
  BY <1>3, <1>4

(* Who gives an item up has not taken it. *)
LEMMA ReleaseKeeps ==
  ASSUME GInv, NEW p \in Players, NEW i \in Idx, OnReleaseItem(p, i), seat' = seat PROVE GInv'
<1> USE DEF GInv
<1> DEFINE new == [item[i] EXCEPT !.owner = NoOwner, !.reservation = 0, !.meant = None]
<1>1. /\ flight' = flight /\ hands' = hands /\ lapsed' = lapsed /\ drops' = drops
      /\ Playing(p) /\ Lies(i) /\ item[i].owner = p /\ flight[p] # i
      /\ believes' = Heard({i}, [j \in {i} |-> NoOwner])
  BY DEF OnReleaseItem
<1>2. item' = [item EXCEPT ![i] = new]
  BY GTypes DEF OnReleaseItem
<1>3. new \in ItemRecord /\ new.lies = item[i].lies /\ Meant(new)
  <2>1. item[i] \in ItemRecord /\ 0 \in 0 .. ReservationTicks
    BY GTypes, ItemsAssumption
  <2> QED
    BY <2>1 DEF ItemRecord, Meant
<1> HIDE DEF new
<1>4. /\ believes' \in [Players -> SUBSET Idx]
      /\ \A q \in Players : believes'[q] \subseteq believes[q] /\ (Playing(q) => i \notin believes'[q])
  <2>1. NoOwner \notin Players
    BY GTypes
  <2> QED
    BY <1>1, <2>1, GTypes DEF Heard
<1>5. item' \in [Idx -> ItemRecord]
  BY <1>2, <1>3, GTypes
<1>6. ItemsTypeOK'
  BY <1>1, <1>4, <1>5, GTypes, ItemsTyped
<1>7. ASSUME NEW j \in Idx PROVE Meant(item'[j]) /\ (~Lies(j)' => hands'[j] = {}) /\ Honest(j)'
  <2>1. CASE j # i
    <3>1. item'[j] = item[j]
      BY <1>2, <2>1, GTypes
    <3>2. \A q \in Players : CountsOn(q, j)' => CountsOn(q, j)
      BY <1>1, <1>4 DEF CountsOn
    <3> QED
      BY <1>1, <3>1, <3>2 DEF Honest, Lies
  <2>2. CASE j = i
    <3>1. item'[i] = new /\ Lies(i)'
      BY <1>1, <1>2, <1>3, GTypes DEF Lies
    <3>2. ASSUME ~lapsed[i], NEW q \in Players, CountsOn(q, i)' PROVE FALSE
      <4>1. CountsOn(q, i)
        BY <1>1, <1>4, <3>2 DEF CountsOn
      <4>2. q = p
        BY <1>1, <3>2, <4>1 DEF Honest
      <4> QED
        BY <1>1, <1>4, <3>2, <4>2 DEF CountsOn
    <3> QED
      BY <1>1, <1>3, <2>2, <3>1, <3>2 DEF Honest
  <2> QED
    BY <2>1, <2>2
<1> QED
  BY <1>6, <1>7 DEF SeatTypeOK

(* ---- the tick ---- *)

(* What ages lies where it lay, and is offered only if it is nobody's. *)
LEMMA AgingStays ==
  ASSUME GInv, NEW burnt \in SUBSET Idx, NEW i \in Idx
  PROVE  /\ AfterAging(burnt)[i] \in ItemRecord /\ Meant(AfterAging(burnt)[i])
         /\ AfterAging(burnt)[i].lies <=> Lies(i) /\ i \notin burnt
         /\ i \in Free(AfterAging(burnt)) =>
              /\ Lies(i) /\ i \notin burnt
              /\ AfterAging(burnt)[i].owner = NoOwner /\ AfterAging(burnt)[i].meant = None
         /\ Lies(i) /\ i \notin burnt =>
              AfterAging(burnt)[i].owner = item[i].owner \/ AfterAging(burnt)[i].owner = NoOwner
<1> USE DEF GInv
<1> DEFINE new == AfterAging(burnt)[i]
<1>1. item[i] \in ItemRecord /\ Meant(item[i])
  BY GTypes
<1>2. CASE ~Lies(i) \/ i \in burnt
  <2>1. new = NoItem
    BY <1>2 DEF AfterAging
  <2>2. new \in ItemRecord /\ ~new.lies /\ new.meant = None
    BY <2>1, RecordsMade
  <2> QED
    BY <1>2, <2>2 DEF Meant, Free
<1>3. CASE Lies(i) /\ i \notin burnt
  <2>1. new = Aged(item[i])
    BY <1>3 DEF AfterAging
  <2>2. /\ new \in ItemRecord
        /\ new.lies = item[i].lies /\ new.instanced = item[i].instanced /\ new.meant = item[i].meant
        /\ new.owner = item[i].owner \/ (~item[i].instanced /\ new.owner = NoOwner)
        /\ ~IsReserved(new) => ~item[i].instanced /\ new.owner = NoOwner
    BY <1>1, <2>1, AgedStays
  <2>3. new.lies
    BY <1>3, <2>2 DEF Lies
  <2>4. Meant(new)
    BY <1>1, <2>2 DEF Meant
  <2>5. i \in Free(AfterAging(burnt)) => new.owner = NoOwner /\ new.meant = None
    BY <1>1, <2>2 DEF Free, Meant
  <2> QED
    BY <1>3, <2>2, <2>3, <2>4, <2>5
<1> QED
  BY <1>2, <1>3

LEMMA TickKeeps ==
  ASSUME GInv, NEW burnt \in SUBSET Idx,
         NEW offer \in [Free(AfterAging(burnt)) -> InTheWorld \cup {NoOwner}],
         TickItems(burnt, offer), flight' = flight, drops' = drops, seat' = seat
  PROVE  GInv'
<1> USE DEF GInv
<1> DEFINE aged == AfterAging(burnt)
           offered == {i \in DOMAIN offer : offer[i] # NoOwner}
           given(i) == [aged[i] EXCEPT !.owner = offer[i], !.reservation = ReservationTicks]
           owners == [i \in offered \cup burnt |-> IF i \in burnt THEN NoOwner ELSE offer[i]]
           ranOut(i, p) == item[i].owner = p /\ aged[i].owner # p /\ item'[i].owner # p
           lost(i) == \E p \in Players : ranOut(i, p) /\ (i \in believes'[p] \/ flight[p] = i)
<1>1. /\ item' = [i \in Idx |-> IF i \in offered THEN given(i) ELSE aged[i]]
      /\ believes' = Heard(offered \cup burnt, owners)
      /\ hands' = [i \in Idx |-> IF i \in burnt THEN {} ELSE hands[i]]
      /\ lapsed' = [i \in Idx |-> i \notin burnt /\ (lapsed[i] \/ lost(i))]
  BY DEF TickItems
<1>2. /\ DOMAIN offer = Free(aged) /\ offered \subseteq Free(aged) /\ Free(aged) \subseteq Idx
      /\ \A i \in offered : offer[i] \in Players
  BY DEF Free, InTheWorld
<1>3. ASSUME NEW i \in Idx
      PROVE  /\ item'[i] \in ItemRecord /\ Meant(item'[i])
             /\ item'[i].lies <=> Lies(i) /\ i \notin burnt
             /\ i \in offered => item'[i].owner = offer[i] /\ aged[i].owner = NoOwner
             /\ i \notin offered => item'[i] = aged[i]
  <2>1. /\ aged[i] \in ItemRecord /\ Meant(aged[i])
        /\ aged[i].lies <=> Lies(i) /\ i \notin burnt
        /\ i \in Free(aged) => aged[i].owner = NoOwner /\ aged[i].meant = None
    BY AgingStays
  <2> HIDE DEF aged
  <2>2. CASE i \in offered
    <3>1. item'[i] = given(i) /\ offer[i] \in Players
      BY <1>1, <1>2, <2>2
    <3>2. ReservationTicks \in 0 .. ReservationTicks
      BY ItemsAssumption
    <3>3. /\ given(i) \in ItemRecord /\ given(i).lies = aged[i].lies
          /\ given(i).owner = offer[i] /\ given(i).meant = aged[i].meant
      BY <2>1, <3>1, <3>2 DEF ItemRecord
    <3> QED
      BY <1>2, <2>1, <2>2, <3>1, <3>3 DEF Meant
  <2>3. CASE i \notin offered
    <3>1. item'[i] = aged[i]
      BY <1>1, <2>3
    <3> QED
      BY <2>1, <2>3, <3>1
  <2> QED
    BY <2>2, <2>3
<1>4. ASSUME NEW p \in Players, NEW i \in Idx, i \in believes'[p], i \notin burnt
      PROVE  \/ i \in offered /\ offer[i] = p
             \/ i \in believes[p] /\ (i \in offered => ~Playing(p))
  <2>1. CASE Playing(p)
    <3>1. believes'[p] = (believes[p] \ (offered \cup burnt))
                           \cup {j \in offered \cup burnt : owners[j] = p}
      BY <1>1, <2>1 DEF Heard
    <3>2. i \in offered => owners[i] = offer[i]
      BY <1>4
    <3> QED
      BY <1>4, <3>1, <3>2
  <2>2. CASE ~Playing(p)
    BY <1>1, <1>4, <2>2 DEF Heard
  <2> QED
    BY <2>1, <2>2
<1>5. ItemsTypeOK'
  <2>1. item' \in [Idx -> ItemRecord]
    BY <1>1, <1>3
  <2>2. believes' \in [Players -> SUBSET Idx]
    BY <1>1, <1>2, GTypes DEF Heard
  <2>3. hands' \in [Idx -> SUBSET (Players \cup {None})] /\ lapsed' \in [Idx -> BOOLEAN]
    BY <1>1, GTypes
  <2> QED
    BY <2>1, <2>2, <2>3, GTypes, ItemsTyped
<1>6. ASSUME NEW i \in Idx PROVE (~Lies(i)' => hands'[i] = {}) /\ Honest(i)'
  <2>1. CASE ~Lies(i) \/ i \in burnt
    <3>1. ~Lies(i)'
      BY <1>3, <2>1 DEF Lies
    <3>2. hands'[i] = {}
      BY <1>1, <2>1
    <3> QED
      BY <3>1, <3>2 DEF Honest
  <2>2. CASE Lies(i) /\ i \notin burnt
    <3>1. Lies(i)' /\ hands'[i] = hands[i] /\ (lapsed'[i] <=> lapsed[i] \/ lost(i))
      BY <1>1, <1>3, <2>2 DEF Lies
    <3>2. ASSUME ~lapsed'[i], NEW p \in Players, CountsOn(p, i)' PROVE item'[i].owner = p
      <4>1. ~lapsed[i] /\ ~lost(i)
        BY <3>1, <3>2
      <4>2. CASE i \in offered /\ offer[i] = p
        BY <1>3, <4>2
      <4>3. CASE \/ flight[p] = i
                 \/ i \in believes'[p] /\ i \in believes[p] /\ (i \in offered => ~Playing(p))
        <5>1. CountsOn(p, i)
          BY <4>3 DEF CountsOn
        <5>2. item[i].owner = p
          BY <2>2, <4>1, <5>1 DEF Honest
        <5>3. ~ranOut(i, p)
          BY <4>1, <4>3
        <5>4. aged[i].owner = p \/ item'[i].owner = p
          BY <5>2, <5>3
        <5>5. NoOwner # p
          BY GTypes
        <5> QED
          BY <1>3, <5>4, <5>5
      <4>4. i \in believes'[p] \/ flight[p] = i
        BY <3>2 DEF CountsOn
      <4> QED
        BY <1>4, <2>2, <4>2, <4>3, <4>4
    <3> QED
      BY <2>2, <3>1, <3>2 DEF Honest
  <2> QED
    BY <2>1, <2>2
<1> QED
  BY <1>3, <1>5, <1>6 DEF SeatTypeOK

(* ---- every step ---- *)

LEMMA ItemStepKeeps == ASSUME GInv, ItemStep, seat' = seat PROVE GInv'
<1>1. CASE \E pickups \in SUBSET Idx :
             SpawnItem(pickups) \/ DropBag(pickups) \/ \E p \in Players : ThrowItem(p, pickups)
  BY <1>1, DropsKeep
<1>2. CASE \E p \in Players : OnItemDespawn(p)
  BY <1>2, DespawnKeeps
<1>3. CASE \E p \in Players, i \in Idx : Grab(p, i) \/ OnReleaseItem(p, i)
  BY <1>3, GrabKeeps, ReleaseKeeps
<1>4. CASE Tick
  <2>1. PICK burnt \in {{}} \cup {{i} : i \in Burnable} :
          \E offer \in [Free(AfterAging(burnt)) -> InTheWorld \cup {NoOwner}] :
            TickItems(burnt, offer)
    BY <1>4 DEF Tick
  <2>2. burnt \in SUBSET Idx
    BY DEF Burnable
  <2> QED
    BY <1>4, <2>1, <2>2, TickKeeps DEF Tick
<1> QED
  BY <1>1, <1>2, <1>3, <1>4 DEF ItemStep

LEMMA GStep == GInv /\ [Next]_vars => GInv'
<1> SUFFICES ASSUME GInv, [Next]_vars PROVE GInv'
  OBVIOUS
<1>1. ASSUME UNCHANGED itemVars, SeatTypeOK' PROVE GInv'
  BY <1>1 DEF GInv, itemVars, ItemsTypeOK, Lies, Honest, CountsOn
<1>2. ASSUME NEW p \in Players, Join(p) \/ Disconnect(p) PROVE GInv'
  BY <1>2, JoinKeepsItems, LeaveKeepsItems
<1>3. ASSUME NEW p \in Players, Spawn(p) PROVE GInv'
  <2>1. SeatTypeOK' /\ UNCHANGED itemVars
    BY <1>3 DEF GInv, Spawn, Enters, Moves, SeatTypeOK, Seats
  <2> QED
    BY <1>1, <2>1
<1>4. CASE UseChests \/ UseEntities
  BY <1>1, <1>4 DEF GInv, UseChests, UseEntities, SeatTypeOK
<1>5. CASE UseItems
  BY <1>5, ItemStepKeeps DEF UseItems
<1>6. CASE UNCHANGED vars
  BY <1>1, <1>6 DEF GInv, vars, SeatTypeOK
<1> QED
  BY <1>2, <1>3, <1>4, <1>5, <1>6 DEF Next

LEMMA GInvariance == Spec => []GInv
BY GInit, GStep, PTL DEF Spec

(* An item is taken by one client only, unless its reservation ran out under one that      *)
(* counted on it (systems.rs, tick_items; dispatch.rs, on_item_despawn; items.rs, spawn).   *)
THEOREM TakenOnce == Spec => []OneTaker
<1>1. GInv => OneTaker
  <2> SUFFICES ASSUME GInv, NEW i \in Idx, ~lapsed[i] PROVE ~(Cardinality(hands[i]) > 1)
    BY DEF OneTaker
  <2>1. \A p \in hands[i] : p = item[i].owner
    BY DEF GInv, Honest, CountsOn
  <2>2. CASE hands[i] = {}
    BY <2>2, FS_EmptySet
  <2>3. CASE hands[i] # {}
    <3>1. hands[i] = {item[i].owner}
      BY <2>1, <2>3
    <3>2. Cardinality(hands[i]) = 1
      BY <3>1, FS_Singleton
    <3> QED
      BY <3>2
  <2> QED
    BY <2>2, <2>3
<1> QED
  BY <1>1, GInvariance, PTL

(* However bags, offers and ticks follow one another, and whoever comes and goes, a bag    *)
(* that its player did not give up is reserved for him (world/items.rs, is_reserved, tick). *)
THEOREM BagsStayTheirs == Spec => []BagsAreTheirs
<1>1. GInv => BagsAreTheirs
  BY DEF GInv, Meant, BagsAreTheirs
<1> QED
  BY <1>1, GInvariance, PTL

(* ---- the lunar event --------------------------------------------------------- *)

(* The history of a world fits what it remembers and which pillars stand in it.   *)
(* Said of the running world and of the one in the file.                           *)
Told(w, standing, t) ==
  /\ t.left = standing
  /\ w.beaten \cup (w.active \ standing) \subseteq t.gone
  /\ standing # {} => w.cultist

(* While pillars stand the tracker says so, and nothing else is under way. *)
Tracked ==
  /\ lunar.up \/ lunar.countdown > 0 \/ moonLord => progress.cultist
  /\ Standing # {} => lunar.up /\ lunar.countdown = 0 /\ ~moonLord

(* The copy of a shield on its pillar is at most late, and the count asks for what  *)
(* of the escort is left.                                                            *)
Shields ==
  \A p \in Standing :
    /\ lunar.shields[p] + towers[p].cleared >= StrengthOf(progress)
    /\ towers[p].seen => towers[p].invulnerable = (towers[p].shield > 0)
    /\ towers[p].seen => towers[p].shield >= lunar.shields[p]

SkyInv ==
  /\ SkyTypeOK
  /\ Told(progress, Standing, tale) /\ Told(saved.world, saved.pillars, saved.tale)
  /\ Tracked
  /\ Shields

USE LunarAssumption, FallenAssumption

(* A shield asks for no more kills than a pillar is made for. *)
LEMMA StrengthIsBounded == ASSUME NEW w \in World PROVE StrengthOf(w) \in 0 .. Strength
<1>1. Strength \div 2 \in 0 .. Strength
  OBVIOUS
<1> QED BY <1>1 DEF StrengthOf

(* Who has just been raised stands. *)
LEMMA RaisedStands == ASSUME NEW n \in Nat PROVE NewTower(n) \in Tower /\ NewTower(n) # Fallen
<1>1. 0 \in 0 .. Strength
  OBVIOUS
<1>2. NewTower(n) \in Tower
  BY <1>1 DEF NewTower, Tower
<1> QED BY <1>2

(* It has no kills to its name, and the count asks for all of them. *)
LEMMA FreshIsEven ==
  ASSUME NEW n \in Nat
  PROVE n + NewTower(n).cleared >= n /\ ~NewTower(n).seen
  BY DEF NewTower

(* It holds of a server that starts, on any of the worlds. *)
LEMMA SkyStarts == SkyInit => SkyInv
<1> SUFFICES ASSUME SkyInit PROVE SkyInv
  OBVIOUS
<1> DEFINE n == StrengthOf(saved.world)
<1>0. ASSUME NEW w \in Worlds
      PROVE /\ w \in [world : World, pillars : SUBSET Pillars, tale : Tale]
            /\ Told(w.world, w.pillars, w.tale)
  <2>1. CASE w = [world |-> FreshWorld, pillars |-> {},
                  tale |-> [gone |-> {}, left |-> {}, came |-> FALSE]]
    BY <2>1 DEF FreshWorld, World, Tale, Told
  <2>2. ASSUME NEW again \in BOOLEAN, NEW left \in (SUBSET Pillars) \ {{}},
               w = [world   |-> [cultist |-> TRUE, moonLord |-> again, apocalypse |-> TRUE,
                                 active |-> left,
                                 beaten |-> IF again THEN Pillars ELSE Pillars \ left],
                    pillars |-> left,
                    tale    |-> [gone |-> IF again THEN Pillars ELSE Pillars \ left,
                                 left |-> left, came |-> again]]
        PROVE /\ w \in [world : World, pillars : SUBSET Pillars, tale : Tale]
              /\ Told(w.world, w.pillars, w.tale)
    BY <2>2 DEF World, Tale, Told
  <2> QED BY <2>1, <2>2 DEF Worlds
<1>1. saved \in [world : World, pillars : SUBSET Pillars, tale : Tale]
  BY <1>0 DEF SkyInit
<1>2. Told(saved.world, saved.pillars, saved.tale)
  BY <1>0 DEF SkyInit
<1>3. n \in Nat
  BY <1>1, StrengthIsBounded
<1>4. SkyTypeOK
  BY <1>1, <1>3, RaisedStands DEF SkyTypeOK, SkyInit, Quiet, AllAt
<1>5. Standing = saved.pillars
  BY <1>1, <1>3, RaisedStands DEF Standing, SkyInit
<1>6. Told(progress, Standing, tale)
  BY <1>2, <1>5 DEF SkyInit
<1>7. Tracked
  BY <1>2, <1>5 DEF SkyInit, Tracked, Told, Quiet
<1>8. Shields
  <2>1. ASSUME NEW p \in saved.pillars
        PROVE p \in Pillars /\ lunar.shields[p] = n /\ towers[p] = NewTower(n)
    BY <1>1, <2>1 DEF SkyInit, AllAt
  <2>2. StrengthOf(progress) = n
    BY DEF SkyInit
  <2> QED BY <1>3, <1>5, <2>1, <2>2, FreshIsEven DEF Shields
<1> QED BY <1>2, <1>4, <1>6, <1>7, <1>8 DEF SkyInv

(* The cultist's death raises pillars only where none stands. *)
LEMMA CultistKeeps == SkyInv /\ KillCultist => SkyInv'
<1> SUFFICES ASSUME SkyInv, KillCultist PROVE SkyInv'
  OBVIOUS
<1> USE DEF SkyInv
<1>1. progress' \in World /\ progress'.cultist /\ StrengthOf(progress') = StrengthOf(progress)
      /\ progress'.active = progress.active /\ progress'.beaten = progress.beaten
  BY DEF KillCultist, SkyTypeOK, World, StrengthOf
<1>2. ~progress.cultist /\ ~lunar.up /\ lunar.countdown = 0 /\ ~moonLord /\ Standing = {}
  BY DEF KillCultist, Tracked, SkyTypeOK
<1> DEFINE n == StrengthOf(progress)
<1>3. n \in Nat
  BY StrengthIsBounded DEF SkyTypeOK
<1>4. PICK raised \in SUBSET Pillars :
        /\ lunar'  = [up |-> TRUE, shields |-> AllAt(n), countdown |-> 0]
        /\ towers' = [p \in Pillars |-> IF p \in raised THEN NewTower(n) ELSE towers[p]]
        /\ tale'   = [tale EXCEPT !.left = raised \cup Standing]
  BY <1>2 DEF KillCultist
<1>5. Standing' = raised
  BY <1>2, <1>3, <1>4, RaisedStands DEF Standing
<1>6. SkyTypeOK'
  BY <1>1, <1>2, <1>3, <1>4, RaisedStands DEF SkyTypeOK, KillCultist, AllAt, Tale
<1>7. Told(progress, Standing, tale)'
  BY <1>1, <1>2, <1>4, <1>5 DEF Told, SkyTypeOK, Tale
<1>8. Tracked'
  BY <1>1, <1>2, <1>4 DEF Tracked, KillCultist
<1>9. Shields'
  BY <1>1, <1>3, <1>4, <1>5 DEF Shields, AllAt, NewTower
<1>10. Told(saved.world, saved.pillars, saved.tale)'
  BY DEF KillCultist
<1> QED BY <1>6, <1>7, <1>8, <1>9, <1>10

(* A kill of an escort lowers the count by one and raises what was cleared by one. *)
LEMMA EscortKeeps == ASSUME NEW p \in Pillars PROVE SkyInv /\ KillEscort(p) => SkyInv'
<1> SUFFICES ASSUME SkyInv, KillEscort(p) PROVE SkyInv'
  OBVIOUS
<1> USE DEF SkyInv
<1>1. lunar' \in [up : BOOLEAN, shields : [Pillars -> Nat], countdown : Nat]
      /\ lunar'.up = lunar.up /\ lunar'.countdown = lunar.countdown
  BY DEF KillEscort, NoteKill, SkyTypeOK
<1>2. towers' \in [Pillars -> {Fallen} \cup Tower] /\ Standing' = Standing
  BY DEF KillEscort, SkyTypeOK, Standing, Tower
<1>3. SkyTypeOK' /\ Tracked' /\ Told(progress, Standing, tale)'
      /\ Told(saved.world, saved.pillars, saved.tale)'
  BY <1>1, <1>2 DEF KillEscort, SkyTypeOK, Tracked, Told
<1>4. StrengthOf(progress') = StrengthOf(progress) /\ StrengthOf(progress) \in 0 .. Strength
  BY StrengthIsBounded DEF KillEscort, SkyTypeOK
<1>5. Shields'
  <2> SUFFICES ASSUME NEW q \in Standing
               PROVE /\ lunar'.shields[q] + towers'[q].cleared >= StrengthOf(progress)
                     /\ towers'[q].seen => towers'[q].invulnerable = (towers'[q].shield > 0)
                     /\ towers'[q].seen => towers'[q].shield >= lunar'.shields[q]
    BY <1>2, <1>4 DEF Shields
  <2>1. towers[q] \in Tower /\ q \in Pillars /\ lunar.up
    BY DEF Standing, SkyTypeOK, Tracked
  <2>2. /\ lunar.shields[q] + towers[q].cleared >= StrengthOf(progress)
        /\ towers[q].seen => towers[q].invulnerable = (towers[q].shield > 0)
        /\ towers[q].seen => towers[q].shield >= lunar.shields[q]
    BY DEF Shields
  <2>3. CASE q # p
    BY <2>1, <2>2, <2>3 DEF KillEscort, NoteKill, SkyTypeOK
  <2>4. CASE q = p
    <3>1. lunar'.shields[q] = IF lunar.shields[q] = 0 THEN 0 ELSE lunar.shields[q] - 1
      BY <2>1, <2>4 DEF KillEscort, NoteKill, SkyTypeOK
    <3>2. towers'[q] = IF towers[q].cleared = Strength THEN towers[q]
                       ELSE [towers[q] EXCEPT !.cleared = @ + 1]
      BY <2>1, <2>4 DEF KillEscort, SkyTypeOK
    <3>3. lunar.shields[q] \in Nat /\ towers[q].cleared \in 0 .. Strength /\ towers[q].shield \in Nat
      BY <2>1 DEF SkyTypeOK, Tower
    <3>4. CASE towers[q].cleared = Strength
      BY <1>4, <2>2, <3>1, <3>2, <3>3, <3>4
    <3>5. CASE towers[q].cleared # Strength
      <4>1. /\ towers'[q].cleared = towers[q].cleared + 1
            /\ towers'[q].seen = towers[q].seen /\ towers'[q].shield = towers[q].shield
            /\ towers'[q].invulnerable = towers[q].invulnerable
        BY <2>1, <3>2, <3>5 DEF Tower
      <4> QED BY <1>4, <2>2, <3>1, <3>3, <4>1
    <3> QED BY <3>4, <3>5
  <2> QED BY <2>3, <2>4
<1> QED BY <1>3, <1>5

(* A pillar that falls is noted in the history as it falls. *)
LEMMA FallKeeps == ASSUME NEW p \in Pillars PROVE SkyInv /\ PillarDies(p) => SkyInv'
<1> SUFFICES ASSUME SkyInv, PillarDies(p) PROVE SkyInv'
  OBVIOUS
<1> USE DEF SkyInv
<1>1. Standing' = Standing \ {p}
  BY DEF PillarDies, Standing, SkyTypeOK
<1>2. SkyTypeOK'
  BY DEF PillarDies, SkyTypeOK, Tale
<1>3. Told(progress, Standing, tale)' /\ Told(saved.world, saved.pillars, saved.tale)'
  BY <1>1 DEF PillarDies, Told, SkyTypeOK, Tale
<1>4. Tracked'
  BY <1>1 DEF PillarDies, Tracked
<1>5. Shields'
  BY <1>1 DEF PillarDies, Shields, SkyTypeOK, Standing
<1> QED BY <1>2, <1>3, <1>4, <1>5

(* The Moon Lord dies only where no pillar stands. *)
LEMMA MoonLordKeeps == SkyInv /\ MoonLordDies => SkyInv'
<1> SUFFICES ASSUME SkyInv, MoonLordDies PROVE SkyInv'
  OBVIOUS
<1> USE DEF SkyInv
<1>1. Standing = {} /\ Standing' = {}
  BY DEF MoonLordDies, Tracked, Standing
<1>2. SkyTypeOK'
  BY DEF MoonLordDies, SkyTypeOK, Quiet, World
<1>3. Told(progress, Standing, tale)' /\ Told(saved.world, saved.pillars, saved.tale)'
  BY <1>1 DEF MoonLordDies, Told, SkyTypeOK, World
<1>4. Tracked' /\ Shields'
  BY <1>1 DEF MoonLordDies, Tracked, Shields, Quiet
<1> QED BY <1>2, <1>3, <1>4

(* What is butchered is noted in the history as well. *)
LEMMA ButcherKeeps == SkyInv /\ Butcher => SkyInv'
<1> SUFFICES ASSUME SkyInv, Butcher PROVE SkyInv'
  OBVIOUS
<1> USE DEF SkyInv
<1>1. Standing' = {} /\ Standing \subseteq Pillars
  BY DEF Butcher, Standing
<1>2. SkyTypeOK'
  BY <1>1 DEF Butcher, SkyTypeOK, Tale
<1>3. Told(progress, Standing, tale)' /\ Told(saved.world, saved.pillars, saved.tale)'
  BY <1>1 DEF Butcher, Told, SkyTypeOK, Tale
<1>4. Tracked' /\ Shields'
  BY <1>1 DEF Butcher, Tracked, Shields
<1> QED BY <1>2, <1>3, <1>4

(* A tick calls him down only if none stands, and brings the copies up to date. *)
LEMMA CountdownKeeps == SkyInv /\ TickLunar => SkyInv'
<1> SUFFICES ASSUME SkyInv, TickLunar PROVE SkyInv'
  OBVIOUS
<1> USE DEF SkyInv
<1>1. Counts \in Nat /\ lunar' \in [up : BOOLEAN, shields : [Pillars -> Nat], countdown : Nat]
      /\ lunar'.shields = lunar.shields
  BY DEF TickLunar, Ticked, Counts, SkyTypeOK
<1>2. \A p \in Pillars :
        IF towers[p] = Fallen THEN towers'[p] = Fallen
        ELSE towers'[p] = Shielded(towers[p], IF Ticked.up THEN lunar.shields[p] ELSE towers[p].shield)
  BY DEF TickLunar
<1>3. ASSUME NEW p \in Standing PROVE towers[p] \in Tower /\ towers'[p] \in Tower
  <2>1. towers[p] \in Tower /\ p \in Pillars
    BY DEF SkyTypeOK, Standing
  <2>2. PICK shield \in Nat : towers'[p] = Shielded(towers[p], shield)
    BY <1>2, <2>1 DEF Standing, SkyTypeOK, Tower
  <2>3. (shield > 0) \in BOOLEAN /\ TRUE \in BOOLEAN
    OBVIOUS
  <2>4. DOMAIN towers[p] = {"shield", "invulnerable", "seen", "cleared"} /\ towers[p].cleared \in 0 .. Strength
    BY <2>1 DEF Tower
  <2>5. towers'[p] = [shield |-> shield, invulnerable |-> shield > 0, seen |-> TRUE,
                      cleared |-> towers[p].cleared]
    BY <2>1, <2>2 DEF Shielded, Tower
  <2> QED BY <2>1, <2>3, <2>4, <2>5 DEF Tower
<1>4. towers' \in [Pillars -> {Fallen} \cup Tower]
  BY <1>2, <1>3 DEF TickLunar, Standing
<1>5. Standing' = Standing
  BY <1>2, <1>3 DEF Standing
<1>6. SkyTypeOK'
  BY <1>1, <1>4 DEF TickLunar, SkyTypeOK, Recorded, World, Tale, Ticked, Standing
<1>7. progress'.cultist = progress.cultist /\ StrengthOf(progress') = StrengthOf(progress)
      /\ progress'.active = Standing /\ progress'.beaten = progress.beaten \cup (progress.active \ Standing)
  BY DEF TickLunar, Recorded, StrengthOf, SkyTypeOK, World
<1>8. Told(progress, Standing, tale)' /\ Told(saved.world, saved.pillars, saved.tale)'
  BY <1>5, <1>7 DEF TickLunar, Told, SkyTypeOK, Tale
<1>9. Tracked'
  <2>1. lunar'.up = (lunar.up /\ ~Called)
        /\ lunar'.countdown = IF Counts > 0 THEN Counts - 1 ELSE 0
    BY DEF TickLunar, Ticked
  <2>2. moonLord' \in BOOLEAN /\ (moonLord' => moonLord \/ Counts = 1)
    BY DEF TickLunar, HeArrives, SkyTypeOK
  <2>3. Counts > 0 => lunar.up \/ lunar.countdown > 0
    BY DEF Counts, Called
  <2>4. lunar'.up \/ lunar'.countdown > 0 \/ moonLord' => progress'.cultist
    BY <1>1, <1>7, <2>1, <2>2, <2>3 DEF Tracked
  <2>5. Standing # {} => Counts = 0 /\ ~Called
    BY DEF Tracked, Counts, Called
  <2>6. Standing # {} => lunar'.up
    BY <2>1, <2>5 DEF Tracked
  <2>7. Standing # {} => lunar'.countdown = 0
    BY <2>1, <2>5
  <2>8. Standing # {} => ~moonLord'
    BY <2>2, <2>5 DEF Tracked
  <2> QED BY <1>5, <2>4, <2>6, <2>7, <2>8 DEF Tracked
<1>10. Shields'
  <2> SUFFICES ASSUME NEW p \in Standing
               PROVE /\ lunar.shields[p] + towers'[p].cleared >= StrengthOf(progress)
                     /\ towers'[p].seen => towers'[p].invulnerable = (towers'[p].shield > 0)
                     /\ towers'[p].seen => towers'[p].shield >= lunar.shields[p]
    BY <1>1, <1>5, <1>7 DEF Shields
  <2>1. Ticked.up /\ p \in Pillars
    BY DEF Tracked, Ticked, Called, Standing
  <2>2. towers'[p] = Shielded(towers[p], lunar.shields[p])
    BY <1>2, <2>1 DEF Standing
  <2>3. /\ towers'[p].cleared = towers[p].cleared /\ towers'[p].shield = lunar.shields[p]
        /\ towers'[p].invulnerable = (lunar.shields[p] > 0) /\ lunar.shields[p] \in Nat
    BY <1>3, <2>1, <2>2 DEF Shielded, Tower, SkyTypeOK
  <2> QED BY <2>3 DEF Shields
<1> QED BY <1>6, <1>8, <1>9, <1>10

(* What a restart puts back is what the file says, at full strength. *)
LEMMA RestartKeeps == SkyInv /\ Restart => SkyInv'
<1> SUFFICES ASSUME SkyInv, Restart PROVE SkyInv'
  OBVIOUS
<1> USE DEF SkyInv
<1> DEFINE n == StrengthOf(saved.world)
<1>1. n \in Nat /\ saved.pillars \subseteq Pillars
  BY StrengthIsBounded DEF SkyTypeOK
<1>2. /\ lunar' = [up |-> saved.pillars # {},
                   shields |-> AllAt(IF saved.pillars = {} THEN 0 ELSE n), countdown |-> 0]
      /\ towers' = [p \in Pillars |-> IF p \in saved.pillars THEN NewTower(n) ELSE Fallen]
  BY DEF Restart, Restored, Quiet
<1>3. Standing' = saved.pillars
  BY <1>1, <1>2, RaisedStands DEF Standing
<1>4. SkyTypeOK'
  BY <1>1, <1>2, RaisedStands DEF Restart, SkyTypeOK, AllAt
<1>5. Told(progress, Standing, tale)' /\ Told(saved.world, saved.pillars, saved.tale)'
  BY <1>3 DEF Restart, Told
<1>6. Tracked'
  <2>0. lunar'.up = (saved.pillars # {}) /\ ~(lunar'.countdown > 0) /\ lunar'.countdown = 0
    BY <1>2
  <2>1. (lunar'.up <=> saved.pillars # {}) /\ ~(lunar'.countdown > 0) /\ lunar'.countdown = 0
    BY <2>0, Zenon
  <2>2. ~moonLord' /\ (saved.pillars # {} => progress'.cultist)
    BY DEF Restart, Told
  <2> QED BY <1>3, <2>1, <2>2, Zenon DEF Tracked
<1>7. Shields'
  <2>1. ASSUME NEW p \in saved.pillars
        PROVE p \in Pillars /\ lunar'.shields[p] = n /\ towers'[p] = NewTower(n)
    BY <1>1, <1>2, <2>1 DEF AllAt
  <2>2. StrengthOf(progress') = n
    BY DEF Restart
  <2> QED BY <1>1, <1>3, <2>1, <2>2, FreshIsEven DEF Shields
<1> QED BY <1>4, <1>5, <1>6, <1>7

(* Every step keeps it. *)
LEMMA SkyStepKeeps == SkyInv /\ [SkyStep]_skyVars => SkyInv'
<1> SUFFICES ASSUME SkyInv, [SkyStep]_skyVars PROVE SkyInv'
  OBVIOUS
<1>1. CASE KillCultist
  BY <1>1, CultistKeeps
<1>2. ASSUME NEW p \in Pillars, KillEscort(p) \/ PillarDies(p) PROVE SkyInv'
  BY <1>2, EscortKeeps, FallKeeps
<1>3. CASE MoonLordDies
  BY <1>3, MoonLordKeeps
<1>4. CASE Butcher
  BY <1>4, ButcherKeeps
<1>5. CASE TickLunar
  BY <1>5, CountdownKeeps
<1>6. CASE Save
  BY <1>6 DEF Save, SkyInv, SkyTypeOK, Told, Tracked, Shields, Standing
<1>7. CASE Restart
  BY <1>7, RestartKeeps
<1>8. CASE UNCHANGED skyVars
  BY <1>8 DEF skyVars, SkyInv, SkyTypeOK, Told, Tracked, Shields, Standing
<1> QED BY <1>1, <1>2, <1>3, <1>4, <1>5, <1>6, <1>7, <1>8 DEF SkyStep

(* It is an invariant of the event. *)
LEMMA SkyInvariance == SkySpec => []SkyInv
  BY SkyStarts, SkyStepKeeps, PTL DEF SkySpec

(* Type correctness of the event. *)
THEOREM SkyTyped == SkySpec => []SkyTypeOK
<1>1. SkyInv => SkyTypeOK
  BY DEF SkyInv
<1> QED BY <1>1, SkyInvariance, PTL

(* However kills, ticks, saves and restarts follow one another, a pillar counts as   *)
(* beaten only if it went down, and the Moon Lord is called only when all of them did *)
(* (systems.rs, tick_lunar and restore_lunar_pillars).                                 *)
THEOREM WonOnlyByFighting == SkySpec => []NothingWonUnfought
<1>1. SkyInv => NothingWonUnfought
  BY DEF SkyInv, Told, Tracked, NothingWonUnfought, SkyTypeOK
<1> QED BY <1>1, SkyInvariance, PTL

(* A pillar that its routine has seen and left open had its escort cleared, whatever   *)
(* the count, its copy and the flag were in between (systems.rs, tick_lunar; lunar.rs, *)
(* note_kill; pillar.rs).                                                                *)
THEOREM OpenedByItsEscort == SkySpec => []OpenOnlyWhenCleared
<1>1. SkyInv => OpenOnlyWhenCleared
  BY StrengthIsBounded DEF SkyInv, Shields, OpenOnlyWhenCleared, SkyTypeOK, Standing, Tower
<1> QED BY <1>1, SkyInvariance, PTL
===============================================================================
