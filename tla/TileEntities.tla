----------------------------- MODULE TileEntities -----------------------------
(***************************************************************************)
(* Furniture that keeps something: mannequins, which one player at a time may *)
(* have open (tile_entity_anchors), and pylons, which are on the travel map   *)
(* of every client.  An entity is made when its tile goes down, or when a     *)
(* client asks for it on a tile that has none, and is taken away by the tick  *)
(* after its tile has gone.  What an entity holds is left out.                *)
(***************************************************************************)
EXTENDS Sessions

CONSTANTS
  Spots,       \* tiles furniture can stand on
  EntityMax    \* bound of the model: tile entities made in one run

ASSUME EntitiesAssumption == Spots # {} /\ EntityMax \in Nat

Furniture == {"doll", "pylon"}
Nothing   == "nothing"
NoEntity  == 0

VARIABLES
  tile,        \* what stands on each spot
  entity,      \* World.tile_entities: for each spot the entity, [id, kind]
  nextEntity,  \* World.next_tile_entity
  anchors,     \* tile_entity_anchors: the entity each slot has open, or NoEntity
  kinds,       \* the keys of pylon_kinds
  travelMap    \* the pylons each client has on its map

entityVars == <<tile, entity, nextEntity, anchors, kinds, travelMap>>

Bare == [id |-> NoEntity, kind |-> Nothing]

EntitiesTypeOK ==
  /\ tile \in [Spots -> Furniture \cup {Nothing}]
  /\ entity \in [Spots -> [id : 1 .. EntityMax, kind : Furniture] \cup {Bare}]
  /\ nextEntity \in 1 .. EntityMax + 1
  /\ anchors \in [Players -> 0 .. EntityMax]
  /\ kinds \subseteq Spots
  /\ travelMap \in [Players -> SUBSET Spots]

EntitiesInit ==
  /\ tile = [s \in Spots |-> Nothing] /\ entity = [s \in Spots |-> Bare]
  /\ nextEntity = 1
  /\ anchors = [p \in Players |-> NoEntity]
  /\ kinds = {} /\ travelMap = [p \in Players |-> {}]

Ids == {entity[s].id : s \in Spots} \ {NoEntity}

(* pylons: the entities whose tile is still there. *)
Pylons == {s \in Spots : entity[s].kind = "pylon" /\ tile[s] = "pylon"}

(* introduce: the newcomer is told every pylon. *)
EntitiesEnter(p) ==
  /\ travelMap' = [travelMap EXCEPT ![p] = Pylons]
  /\ kinds' = kinds \cup Pylons
  /\ UNCHANGED <<tile, entity, nextEntity, anchors>>

(* disconnect: whatever they had open is free again. *)
Freed_Not(p) == anchors
Freed(p) == [anchors EXCEPT ![p] = NoEntity]

EntitiesLeave(p) ==
  /\ anchors' = Freed(p)
  /\ travelMap' = [travelMap EXCEPT ![p] = {}]
  /\ UNCHANGED <<tile, entity, nextEntity, kinds>>

(* share_tile_entity: a pylon goes on the map of everybody in the world. *)
Announced(s, kind) ==
  IF kind # "pylon" THEN UNCHANGED <<kinds, travelMap>>
  ELSE /\ kinds' = kinds \cup {s}
       /\ travelMap' = [p \in Players |-> IF Playing(p) THEN travelMap[p] \cup {s}
                                          ELSE travelMap[p]]

(* add_tile_entity, and on_tile_entity_placed: nothing when one is there. *)
Added(s, kind) ==
  IF entity[s] # Bare THEN UNCHANGED <<entity, nextEntity, kinds, travelMap>>
  ELSE /\ nextEntity <= EntityMax
       /\ entity' = [entity EXCEPT ![s] = [id |-> nextEntity, kind |-> kind]]
       /\ nextEntity' = nextEntity + 1
       /\ Announced(s, kind)

(* on_place_object *)
Build(p, s, kind) ==
  /\ Playing(p) /\ tile[s] = Nothing
  /\ tile' = [tile EXCEPT ![s] = kind]
  /\ Added(s, kind)
  /\ UNCHANGED anchors

(* on_tile_entity_placed: of these two kinds, only a pylon can be asked for. *)
Request(p, s) ==
  /\ Playing(p) /\ tile[s] = "pylon" /\ entity[s] = Bare
  /\ Added(s, "pylon")
  /\ UNCHANGED <<tile, anchors>>

(* The tile goes, however: dug, blown up, or with what it stood on. *)
Dig(s) ==
  /\ tile[s] # Nothing
  /\ tile' = [tile EXCEPT ![s] = Nothing]
  /\ UNCHANGED <<entity, nextEntity, anchors, kinds, travelMap>>

(* on_tile_entity_interaction: one player at a time. *)
HeldElsewhere(p, id) == \E q \in Players \ {p} : anchors[q] = id

Interact(p, id) ==
  /\ Playing(p) /\ id \in Ids
  /\ ~HeldElsewhere(p, id)
  /\ anchors' = [anchors EXCEPT ![p] = id]
  /\ UNCHANGED <<tile, entity, nextEntity, kinds, travelMap>>

Release(p) ==
  /\ Playing(p) /\ anchors[p] # NoEntity
  /\ anchors' = [anchors EXCEPT ![p] = NoEntity]
  /\ UNCHANGED <<tile, entity, nextEntity, kinds, travelMap>>

(* tick_tile_entities: the orphans are removed first and unshared after that,    *)
(* so unshare_tile_entity finds no pylon to take off the maps, nor a kind.       *)
Orphans == {s \in Spots : entity[s] # Bare /\ tile[s] # entity[s].kind}

TickEntities ==
  /\ Orphans # {}
  /\ entity' = [s \in Spots |-> IF s \in Orphans THEN Bare ELSE entity[s]]
  /\ UNCHANGED <<tile, nextEntity, anchors, kinds, travelMap>>

EntityStep ==
  \/ \E p \in Players, s \in Spots : Request(p, s) \/ \E kind \in Furniture : Build(p, s, kind)
  \/ \E s \in Spots : Dig(s)
  \/ \E p \in Players : Release(p) \/ \E id \in 1 .. EntityMax : Interact(p, id)
  \/ TickEntities

(* ---- properties ------------------------------------------------------------------- *)

(* A piece of furniture that somebody has open is open for nobody else, and for   *)
(* a player who is in the world: nobody is locked out by one who has left, nor    *)
(* by whoever sits in that slot now (dispatch.rs, on_tile_entity_interaction;     *)
(* mod.rs, disconnect).                                                          *)
HoldsAreHonest ==
  \A p \in Players : anchors[p] # NoEntity =>
    Playing(p) /\ \A q \in Players \ {p} : anchors[q] # anchors[p]

(* What unshare_tile_entity says of itself (systems.rs:5685): a pylon is taken    *)
(* off the travel map by the same call that takes it out of the world.           *)
MapIsTrue ==
  \A p \in Players, s \in Spots : s \in travelMap[p] => entity[s].kind = "pylon"
=============================================================================
