------------------------------ MODULE MCHoldings ------------------------------
(* The three parts of Holdings share the sessions and nothing else, and the lunar *)
(* event not even those, so a run in which only one of them is in use shows all    *)
(* that a run of them together would show of that part.  Which part it is, is       *)
(* chosen at the start.                                                              *)
EXTENDS Holdings, LunarEvent

VARIABLE focus

MCPlaces == {"cellar", "attic"}
MCSpots  == {"cellar"}
MCKinds  == {"wood", "key"}

MCPillars == {"solar", "vortex", "nebula"}

MCInit ==
  /\ Init /\ SkyInit
  /\ focus \in {"chests", "entities", "items", "sky"}
  /\ focus = "sky" \/ saved.pillars = {}

MCNext ==
  /\ UNCHANGED focus
  /\ \/ /\ focus # "sky" /\ UNCHANGED skyVars
        /\ \/ \E p \in Players : Join(p) \/ Spawn(p) \/ Disconnect(p)
           \/ focus = "chests" /\ UseChests
           \/ focus = "entities" /\ UseEntities
           \/ focus = "items" /\ UseItems
     \/ focus = "sky" /\ SkyStep /\ UNCHANGED vars

MCSpec ==
  /\ MCInit /\ [][MCNext]_<<vars, skyVars, focus>>
  /\ WF_vars(ItemTick)
=============================================================================
