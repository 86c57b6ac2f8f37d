------------------------------ MODULE LunarEvent ------------------------------
(***************************************************************************)
(* The lunar apocalypse (game/lunar.rs and its callers in                      *)
(* game/server/systems.rs).  Killing the Lunatic Cultist raises the pillars;    *)
(* the escort of a pillar has to be cleared before the pillar can be hurt; when *)
(* the last one is gone the sky counts down, and the Moon Lord arrives on one    *)
(* of the players.  The tracker of the event (GameServer::lunar) is not saved:   *)
(* a start puts the pillars of the world file back and builds the tracker from    *)
(* them.  What is beaten is not noted when it happens but read, tick by tick,     *)
(* off who is still standing.                                                      *)
(***************************************************************************)
EXTENDS Integers

CONSTANTS
  Pillars,   \* PILLARS
  Strength,  \* SHIELD_STRENGTH
  Countdown, \* MOON_LORD_COUNTDOWN, in ticks
  Fallen     \* a pillar that is not there

ASSUME LunarAssumption ==
  Strength \in Nat \ {0, 1} /\ Countdown \in Nat \ {0}

(* A pillar among the NPCs, what the world remembers, and the history of a world. *)
Tower == [shield : Nat, invulnerable : BOOLEAN, seen : BOOLEAN, cleared : 0 .. Strength]
World == [cultist : BOOLEAN, moonLord : BOOLEAN, apocalypse : BOOLEAN,
          active : SUBSET Pillars, beaten : SUBSET Pillars]
Tale  == [gone : SUBSET Pillars, left : SUBSET Pillars, came : BOOLEAN]

ASSUME FallenAssumption == Fallen \notin Tower

VARIABLES
  lunar,    \* GameServer::lunar
  towers,   \* the pillar of each kind among the NPCs: its shield, and whether it can be hurt
  moonLord, \* the Moon Lord is among the NPCs
  progress, \* what the world remembers of it
  saved,    \* the world file
  tale      \* history: the pillars that ever went down, those still to, and whether he came

skyVars == <<lunar, towers, moonLord, progress, saved, tale>>

Standing == {p \in Pillars : towers[p] # Fallen}
Quiet == [up |-> FALSE, shields |-> [p \in Pillars |-> 0], countdown |-> 0]
StrengthOf(w) == IF w.moonLord THEN Strength \div 2 ELSE Strength
AllAt(n) == [p \in Pillars |-> n]

(* An NPC is created open to blows; the next tick closes it (style 94). *)
NewTower(shield) == [shield |-> shield, invulnerable |-> FALSE, seen |-> FALSE, cleared |-> 0]

(* ---- the fight ------------------------------------------------------------------ *)

(* The Lunatic Cultist dies, once: the tablet that leads to it does not come back.    *)
(* trigger_lunar_apocalypse raises a pillar as long as the table of NPCs has room.     *)
KillCultist ==
  /\ ~progress.cultist
  /\ progress' = [progress EXCEPT !.cultist = TRUE]
  /\ IF lunar.up \/ lunar.countdown > 0 THEN UNCHANGED <<lunar, towers, tale>>
     ELSE LET n == StrengthOf(progress) IN
          \E raised \in SUBSET Pillars :
            /\ lunar'  = [up |-> TRUE, shields |-> AllAt(n), countdown |-> 0]
            /\ towers' = [p \in Pillars |-> IF p \in raised THEN NewTower(n) ELSE towers[p]]
            /\ tale'   = [tale EXCEPT !.left = raised \cup Standing]
  /\ UNCHANGED <<moonLord, saved>>

(* note_kill: one of the escort of p dies. *)
NoteKill(p) ==
  IF ~lunar.up \/ lunar.shields[p] = 0 THEN lunar ELSE [lunar EXCEPT !.shields[p] = @ - 1]

KillEscort(p) ==
  /\ lunar' = NoteKill(p)
  /\ towers' = IF towers[p] = Fallen \/ towers[p].cleared = Strength THEN towers
               ELSE [towers EXCEPT ![p].cleared = @ + 1]
  /\ UNCHANGED <<moonLord, progress, saved, tale>>

(* npc_died, for a pillar. *)
PillarDies(p) ==
  /\ towers[p] # Fallen /\ ~towers[p].invulnerable
  /\ towers' = [towers EXCEPT ![p] = Fallen]
  /\ tale' = [tale EXCEPT !.gone = @ \cup {p}, !.left = @ \ {p}]
  /\ UNCHANGED <<lunar, moonLord, progress, saved>>

(* npc_died, for the Moon Lord. *)
MoonLordDies ==
  /\ moonLord
  /\ moonLord' = FALSE
  /\ lunar' = Quiet
  /\ progress' = [progress EXCEPT !.moonLord = TRUE, !.apocalypse = FALSE]
  /\ UNCHANGED <<towers, saved, tale>>

(* /butcher removes every NPC that is not a resident. *)
Butcher ==
  /\ towers' = [p \in Pillars |-> Fallen]
  /\ moonLord' = FALSE
  /\ tale' = [tale EXCEPT !.gone = @ \cup Standing, !.left = {}]
  /\ UNCHANGED <<lunar, progress, saved>>

(* ---- one tick --------------------------------------------------------------------- *)

(* LunarState::tick *)
Called == lunar.up /\ Standing = {} /\ ~moonLord
Counts == IF Called THEN Countdown ELSE lunar.countdown
Ticked ==
  [up |-> lunar.up /\ ~Called, shields |-> lunar.shields,
   countdown |-> IF Counts > 0 THEN Counts - 1 ELSE 0]
HeArrives == Counts = 1

(* A pillar carries its shield on itself, and its routine reads it there. *)
Shielded(t, shield) ==
  [t EXCEPT !.shield = shield, !.invulnerable = shield > 0, !.seen = TRUE]

(* What was standing and is not any more has been beaten. *)
Recorded(w, up) ==
  [w EXCEPT !.apocalypse = up, !.beaten = @ \cup (w.active \ Standing), !.active = Standing]

(* tick_lunar, and the routine of each pillar later in the tick.  He comes if anybody *)
(* is alive to come to, and if there is room for him.                                  *)
TickLunar ==
  /\ lunar' = Ticked
  /\ moonLord' \in IF HeArrives THEN {moonLord, TRUE} ELSE {moonLord}
  /\ tale' = [tale EXCEPT !.came = @ \/ moonLord']
  /\ progress' = Recorded(progress, Ticked.up)
  /\ towers' = [p \in Pillars |->
                 IF towers[p] = Fallen THEN Fallen
                 ELSE Shielded(towers[p], IF Ticked.up THEN lunar.shields[p] ELSE towers[p].shield)]
  /\ UNCHANGED saved

(* ---- saving, stopping and starting --------------------------------------------------- *)

(* record_lunar_pillars, and the write of the world, as one step; that a write takes  *)
(* time and may fail is in SavePipeline and WorldFile.                                 *)
Save ==
  /\ saved' = [world |-> progress, pillars |-> Standing, tale |-> tale]
  /\ UNCHANGED <<lunar, towers, moonLord, progress, tale>>

(* restore_lunar_pillars, before the first tick.  Nobody but residents is in the table *)
(* of NPCs by then, so there is room.                                                   *)
Restored_NoPillars(pillars, n) ==
  /\ lunar'  = [Quiet EXCEPT !.up = pillars # {}, !.shields = AllAt(IF pillars = {} THEN 0 ELSE n)]
  /\ towers' = [p \in Pillars |-> Fallen]
Restored_BareShields(pillars, n) ==
  /\ lunar'  = [Quiet EXCEPT !.up = pillars # {}]
  /\ towers' = [p \in Pillars |-> IF p \in pillars THEN NewTower(n) ELSE Fallen]
Restored(pillars, n) ==
  /\ lunar'  = [Quiet EXCEPT !.up = pillars # {}, !.shields = AllAt(IF pillars = {} THEN 0 ELSE n)]
  /\ towers' = [p \in Pillars |-> IF p \in pillars THEN NewTower(n) ELSE Fallen]

(* The process ends, with a save before it or without, and another opens the file. *)
Restart ==
  /\ Restored(saved.pillars, StrengthOf(saved.world))
  /\ moonLord' = FALSE
  /\ progress' = saved.world
  /\ tale' = saved.tale
  /\ UNCHANGED saved

(* ---- the whole system ------------------------------------------------------------------ *)

(* A server starts on a world that has not seen any of this, or on one the original   *)
(* game saved in the middle of an apocalypse, the first or a later one.                *)
FreshWorld == [cultist |-> FALSE, moonLord |-> FALSE, apocalypse |-> FALSE, active |-> {}, beaten |-> {}]
Worlds ==
  {[world |-> FreshWorld, pillars |-> {}, tale |-> [gone |-> {}, left |-> {}, came |-> FALSE]]}
  \cup
  {[world   |-> [cultist |-> TRUE, moonLord |-> again, apocalypse |-> TRUE,
                 active |-> left, beaten |-> IF again THEN Pillars ELSE Pillars \ left],
    pillars |-> left,
    tale    |-> [gone |-> IF again THEN Pillars ELSE Pillars \ left, left |-> left,
                 came |-> again]] : again \in BOOLEAN, left \in (SUBSET Pillars) \ {{}}}

SkyInit ==
  /\ saved \in Worlds
  /\ progress = saved.world /\ tale = saved.tale
  /\ moonLord = FALSE
  /\ LET n == StrengthOf(saved.world) IN
     /\ lunar = IF saved.pillars = {} THEN Quiet
                ELSE [up |-> TRUE, shields |-> AllAt(n), countdown |-> 0]
     /\ towers = [p \in Pillars |-> IF p \in saved.pillars THEN NewTower(n) ELSE Fallen]

SkyStep ==
  \/ KillCultist
  \/ \E p \in Pillars : KillEscort(p) \/ PillarDies(p)
  \/ MoonLordDies
  \/ Butcher
  \/ TickLunar
  \/ Save \/ Restart

SkySpec == SkyInit /\ [][SkyStep]_skyVars

(* ---- properties --------------------------------------------------------------------------- *)

(* Type correctness of the event. *)
SkyTypeOK ==
  /\ lunar \in [up : BOOLEAN, shields : [Pillars -> Nat], countdown : Nat]
  /\ towers \in [Pillars -> {Fallen} \cup Tower]
  /\ moonLord \in BOOLEAN
  /\ progress \in World /\ tale \in Tale
  /\ saved \in [world : World, pillars : SUBSET Pillars, tale : Tale]

(* Nothing is won by a restart.  However saves, kills and starts fall between the     *)
(* ticks, a pillar counts as beaten only if it stood and went down in the history of   *)
(* this very world, and the sky counts down, and he comes, only after every pillar     *)
(* that had come up went down ("when the last one falls the sky counts down").          *)
NothingWonUnfought ==
  /\ progress.beaten \subseteq tale.gone
  /\ (lunar.countdown > 0 \/ moonLord) => tale.left = {}

(* "A pillar cannot be hurt at all while its shield holds": one that its routine has   *)
(* seen and left open had as many of its own escort killed, since it was raised or      *)
(* put back, as its shield asks for.  The count, the copy on the pillar and the flag a   *)
(* blow looks at are three pieces of state, brought together once a tick.               *)
OpenOnlyWhenCleared ==
  \A p \in Standing :
    (towers[p].seen /\ ~towers[p].invulnerable) => towers[p].cleared >= StrengthOf(progress)

(* What the module's doc promises, "and the Moon Lord arrives": with the cultist gone,  *)
(* he has come or is still to come.  It does not hold: see the README.                   *)
StillToCome ==
  progress.cultist => tale.came \/ lunar.up \/ lunar.countdown > 0
===============================================================================
