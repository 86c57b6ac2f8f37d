----------------------------- MODULE SavePipeline -----------------------------
(***************************************************************************)
(* How the game task gets its world to the disk (game/server/mod.rs).  A     *)
(* save is armed (save_world_in_background), the sections of the world       *)
(* marked as changed are copied into a spare buffer a few per tick           *)
(* (tick_snapshot_drain), and when none is left, or after a deadline, the    *)
(* buffer is handed to a blocking thread that writes it                      *)
(* (try_fire_pending_save).  The thread posts its outcome and the buffer      *)
(* down two channels which a later tick polls.  At the end of the game loop   *)
(* the save under way is awaited and the live world written once more.        *)
(*                                                                           *)
(* A copy of the world is modelled by the set of sections in which it is      *)
(* behind the live world: an edit of a section adds it to every copy, the     *)
(* one on the disk included; copying a section takes it out.  The tables that *)
(* every snapshot copies wholesale are never behind and are left out.          *)
(***************************************************************************)
EXTENDS Integers, Sequences, FiniteSets

CONSTANTS
  MaxSection,    \* the sections of the world, 0 .. MaxSection in array order
  DrainPerTick,  \* SNAPSHOT_DRAIN_PER_TICK
  DrainDeadline, \* SNAPSHOT_DRAIN_DEADLINE, in ticks
  Alarm,         \* SAVE_FAILURES_BEFORE_ALARM
  FailuresMax,   \* where the count of failures saturates (u32::MAX in the code)
  Autosaves,     \* autosave_ticks is set
  RollsBack,     \* the operator may roll the world back
  MaxQueued,     \* bound of the model on each of the two channels
  None,          \* no save, no buffer
  Restored       \* what roll_back put in place of the world file

Sections == 0 .. MaxSection
Reasons  == {"autosave", "command"}

ASSUME SectionsAssumption == MaxSection \in Nat
ASSUME DrainAssumption    == DrainPerTick \in Nat \ {0} /\ DrainDeadline \in Nat \ {0}
ASSUME AlarmAssumption    == Alarm \in Nat \ {0} /\ FailuresMax \in Nat /\ Alarm <= FailuresMax
ASSUME NoneAssumption     == /\ None \notin Reasons
                             /\ \A S \in SUBSET Sections : None # S /\ Restored # S
ASSUME SwitchesAssumption == Autosaves \in BOOLEAN /\ RollsBack \in BOOLEAN
ASSUME QueuedAssumption   == MaxQueued \in Nat \ {0}

VARIABLES
  server,   \* the save path's fields of the game task, see Server
  phase,    \* where the game task is: in an event or between two steps of a tick
  stopping, \* GameServer::stopping
  results,  \* save_results: outcomes not yet polled
  returns,  \* world_returns: buffers not yet reclaimed
  main,     \* the world file on the disk
  warned,   \* players have been told that saving fails, and not that it works again
  lastFired, \* history: how far behind the last snapshot was when it was fired
  spilled,  \* history: a save was given a second buffer while the first was in returns
  final     \* history: how the shutdown save went

vars == <<server, phase, stopping, results, returns, main, warned, lastFired, spilled,
          final>>

(* A blocking thread that is writing a snapshot: what it was given, and how far it is. *)
Writer == [at : {"writing", "landed", "reported"}, buffer : SUBSET Sections,
           reason : Reasons, ok : BOOLEAN]

Server ==
  [path     : BOOLEAN,                       \* save_path is Some
   pending  : Reasons \cup {None},           \* pending_save
   waited   : 0 .. DrainDeadline,            \* ticks - pending_save_armed, up to the deadline
   marks    : SUBSET Sections,               \* changed_since_snapshot
   spare    : {None} \cup SUBSET Sections,   \* spare_world
   writers  : Seq(Writer),                   \* the threads spawned and not finished
   reason   : Reasons \cup {None},           \* save_reason
   failures : 0 .. FailuresMax]              \* save_failures

(* ---- arming, draining and firing -------------------------------------------- *)

(* drain_upto walks the flags in array order and stops after cap sections. *)
FirstMarked(marks, cap) == {s \in marks : Cardinality({t \in marks : t < s}) < cap}

(* pre_copy_snapshot_tiles, while a save waits and there is a buffer to copy into. *)
Drain_Forgets(g) ==
  IF g.pending = None \/ g.spare = None THEN g
  ELSE [g EXCEPT !.marks = @ \ FirstMarked(@, DrainPerTick)]
Drain(g) ==
  IF g.pending = None \/ g.spare = None THEN g
  ELSE [g EXCEPT !.spare = @ \ FirstMarked(g.marks, DrainPerTick),
                 !.marks = @ \ FirstMarked(@, DrainPerTick)]

(* Not yet: sections are left, the deadline has not passed, and there is a buffer  *)
(* to go on draining into.                                                          *)
StillDraining_NoDeadline(g) == g.marks # {} /\ g.spare # None
StillDraining(g) == g.marks # {} /\ g.waited < DrainDeadline /\ g.spare # None

Fires(g) == g.pending # None /\ ~StillDraining(g) /\ g.path

(* refresh_snapshot copies what is still marked into the spare buffer; without one, *)
(* snapshot() copies the whole world and leaves the marks alone.                     *)
Snapshot(g) == IF g.spare = None THEN {} ELSE g.spare \ g.marks

Fired(g) ==
  [g EXCEPT !.pending = None, !.reason = g.pending, !.spare = None,
            !.marks = IF g.spare = None THEN g.marks ELSE {},
            !.writers = Append(@, [at |-> "writing", buffer |-> Snapshot(g),
                                   reason |-> g.pending, ok |-> FALSE])]

(* try_fire_pending_save *)
TryFire(g) ==
  IF Fires(g) THEN Fired(g)
  ELSE IF g.pending # None /\ ~StillDraining(g) THEN [g EXCEPT !.pending = None]
  ELSE g

StillSaving_Ignored(g) == FALSE
StillSaving(g) == g.writers # << >>

(* A later request takes over the reason and keeps the deadline. *)
Armed(g, reason) ==
  [g EXCEPT !.pending = reason, !.waited = IF g.pending = None THEN 0 ELSE @]

(* save_world_in_background, up to its call of try_fire_pending_save. *)
Arm(g, reason) == IF ~g.path \/ StillSaving(g) THEN g ELSE Armed(g, reason)

(* The game task tries to fire in state g: what that leaves, and what it shows. *)
FireFrom(g) ==
  /\ server' = TryFire(g)
  /\ lastFired' = IF Fires(g) THEN Snapshot(g) ELSE lastFired
  /\ spilled' = (spilled \/ (Fires(g) /\ g.spare = None /\ returns # << >>))

(* ---- the game task: events ---------------------------------------------------- *)

(* set_tile marks the section it touches. *)
Marked(g, x) == [g EXCEPT !.marks = @ \cup {x}]

Behind(copy, x) == IF copy \in {None, Restored} THEN copy ELSE copy \cup {x}
Outrun(writer, x) == [writer EXCEPT !.buffer = Behind(@, x)]

Edit(x) ==
  /\ phase = "events"
  /\ server' = [Marked(server, x) EXCEPT
                  !.spare = Behind(@, x),
                  !.writers = [i \in DOMAIN @ |-> Outrun(@[i], x)]]
  /\ returns' = [i \in DOMAIN returns |-> Behind(returns[i], x)]
  /\ main' = Behind(main, x)
  /\ UNCHANGED <<phase, stopping, results, warned, lastFired, spilled, final>>

(* /save, the console's save and the panel's. *)
RequestSave ==
  /\ phase = "events"
  /\ FireFrom(Arm(server, "command"))
  /\ UNCHANGED <<phase, stopping, results, returns, main, warned, final>>

(* stop, /off, and the panel's stop. *)
RequestStop ==
  /\ phase = "events" /\ ~stopping
  /\ stopping' = TRUE
  /\ UNCHANGED <<server, phase, results, returns, main, warned, lastFired, spilled, final>>

(* roll_back: a backup takes the place of the world file, and the game stops without *)
(* writing its own world again.  A backup that is missing or unreadable changes      *)
(* nothing.                                                                           *)
RolledBack_KeepsPath(g) == g
RolledBack(g) == [g EXCEPT !.path = FALSE]

RollBack ==
  /\ RollsBack
  /\ phase = "events" /\ server.path
  /\ main' = Restored
  /\ server' = RolledBack(server)
  /\ stopping' = TRUE
  /\ UNCHANGED <<phase, results, returns, warned, lastFired, spilled, final>>

(* ---- the game task: one tick ---------------------------------------------------- *)

(* The autosave, if this is its tick, and then the drain. *)
TickSave ==
  /\ phase = "events"
  /\ \E due \in {FALSE, Autosaves} :
       LET late == [server EXCEPT !.waited = IF server.pending # None /\ @ < DrainDeadline
                                             THEN @ + 1 ELSE @]
           g    == IF due THEN Arm(late, "autosave") ELSE late
           h    == Drain(g) IN
       IF due /\ Fires(g) THEN FireFrom(g) ELSE FireFrom(h)
  /\ phase' = "note"
  /\ UNCHANGED <<stopping, results, returns, main, warned, final>>

NoteSaveSucceeded(failures) == 0
NoteSaveFailed(failures) == IF failures < FailuresMax THEN failures + 1 ELSE failures

(* What the players have been told after an outcome. *)
Told(ok, failures) ==
  IF ok THEN warned /\ ~(failures >= Alarm) ELSE warned \/ NoteSaveFailed(failures) >= Alarm

Noted(g, ok) ==
  [g EXCEPT !.failures = IF ok THEN NoteSaveSucceeded(@) ELSE NoteSaveFailed(@)]

(* note_finished_save polls one outcome. *)
NoteFinishedSave ==
  /\ phase = "note"
  /\ phase' = "reclaim"
  /\ IF results = << >> THEN UNCHANGED <<server, results, warned>>
     ELSE /\ server'  = Noted(server, Head(results).ok)
          /\ warned'  = Told(Head(results).ok, server.failures)
          /\ results' = Tail(results)
  /\ UNCHANGED <<stopping, returns, main, lastFired, spilled, final>>

(* reclaim_snapshot_buffer; the rest of the tick touches nothing here, and the loop *)
(* ends after a tick that finds the server stopping.                                  *)
ReclaimSnapshotBuffer ==
  /\ phase = "reclaim"
  /\ phase' = IF stopping THEN "ending" ELSE "events"
  /\ IF returns = << >> THEN UNCHANGED <<server, returns>>
     ELSE server' = [server EXCEPT !.spare = Head(returns)] /\ returns' = Tail(returns)
  /\ UNCHANGED <<stopping, results, main, warned, lastFired, spilled, final>>

(* The event channel closes, or a handler or the tick panics. *)
LoopBreaks ==
  /\ phase \in {"events", "note", "reclaim"}
  /\ phase' = "ending"
  /\ UNCHANGED <<server, stopping, results, returns, main, warned, lastFired, spilled, final>>

(* The save under way is awaited, and then save_world writes the live world. *)
ShutdownSave_DoesNotWait ==
  /\ phase = "ending"
  /\ phase' = "stopped"
  /\ \/ ~server.path /\ final' = "skipped" /\ UNCHANGED <<server, main, warned>>
     \/ \E ok \in BOOLEAN :
          /\ server.path
          /\ final'  = IF ok THEN "saved" ELSE "failed"
          /\ main'   = IF ok THEN {} ELSE main
          /\ server' = Noted(server, ok)
          /\ warned' = Told(ok, server.failures)
  /\ UNCHANGED <<stopping, results, returns, lastFired, spilled>>
ShutdownSave ==
  /\ phase = "ending" /\ server.writers = << >>
  /\ phase' = "stopped"
  /\ \/ ~server.path /\ final' = "skipped" /\ UNCHANGED <<server, main, warned>>
     \/ \E ok \in BOOLEAN :
          /\ server.path
          /\ final'  = IF ok THEN "saved" ELSE "failed"
          /\ main'   = IF ok THEN {} ELSE main
          /\ server' = Noted(server, ok)
          /\ warned' = Told(ok, server.failures)
  /\ UNCHANGED <<stopping, results, returns, lastFired, spilled>>

(* ---- the blocking thread ----------------------------------------------------------- *)

(* wld_save::save: the rename puts the buffer in place of the world file, or the     *)
(* save fails and the file stays as it was.                                            *)
WriterLands(i) ==
  /\ server.writers[i].at = "writing"
  /\ \E ok \in BOOLEAN :
       /\ server' = [server EXCEPT !.writers[i] = [@ EXCEPT !.at = "landed", !.ok = ok]]
       /\ main'   = IF ok THEN server.writers[i].buffer ELSE main
  /\ UNCHANGED <<phase, stopping, results, returns, warned, lastFired, spilled, final>>

WriterReports(i) ==
  /\ server.writers[i].at = "landed" /\ Len(results) < MaxQueued
  /\ server'  = [server EXCEPT !.writers[i] = [@ EXCEPT !.at = "reported"]]
  /\ results' = Append(results, [ok |-> server.writers[i].ok, reason |-> server.writers[i].reason])
  /\ UNCHANGED <<phase, stopping, returns, main, warned, lastFired, spilled, final>>

(* A thread that is finished is not in the handle's way any more. *)
Finished(i) ==
  server' = [server EXCEPT !.writers = [j \in 1 .. Len(@) - 1 |-> IF j < i THEN @[j] ELSE @[j + 1]]]

(* The buffer goes back, and the thread is finished. *)
WriterReturns(i) ==
  /\ server.writers[i].at = "reported" /\ Len(returns) < MaxQueued
  /\ returns' = Append(returns, server.writers[i].buffer)
  /\ Finished(i)
  /\ UNCHANGED <<phase, stopping, results, main, warned, lastFired, spilled, final>>

(* It panics while it writes: there is no outcome, and the buffer is gone with it. *)
WriterPanics(i) ==
  /\ server.writers[i].at = "writing"
  /\ Finished(i)
  /\ UNCHANGED <<phase, stopping, results, returns, main, warned, lastFired, spilled, final>>

WriterStep ==
  \E i \in DOMAIN server.writers :
    WriterLands(i) \/ WriterReports(i) \/ WriterReturns(i) \/ WriterPanics(i)

(* ---- the whole system ----------------------------------------------------------------- *)

Init ==
  /\ server = [path |-> TRUE, pending |-> None, waited |-> 0, marks |-> {}, spare |-> {},
               writers |-> << >>, reason |-> None, failures |-> 0]
  /\ phase = "events" /\ stopping = FALSE
  /\ results = << >> /\ returns = << >>
  /\ main = {} /\ warned = FALSE /\ lastFired = {} /\ spilled = FALSE
  /\ final = "none"

TickStep == TickSave \/ NoteFinishedSave \/ ReclaimSnapshotBuffer

Next ==
  \/ \E x \in Sections : Edit(x)
  \/ RequestSave \/ RequestStop \/ RollBack
  \/ TickStep
  \/ LoopBreaks
  \/ ShutdownSave
  \/ WriterStep

(* The ticker of the game loop keeps coming round, the loop's end runs to the end,    *)
(* and a blocking thread gets to run.                                                   *)
Fairness == WF_vars(TickStep) /\ WF_vars(ShutdownSave) /\ WF_vars(WriterStep)

Safety == Init /\ [][Next]_vars
Spec   == Safety /\ Fairness

(* ---- properties ------------------------------------------------------------------------- *)

(* Type correctness of the whole state. *)
TypeOK ==
  /\ server \in Server
  /\ phase \in {"events", "note", "reclaim", "ending", "stopped"}
  /\ stopping \in BOOLEAN
  /\ results \in Seq([ok : BOOLEAN, reason : Reasons])
  /\ returns \in Seq(SUBSET Sections)
  /\ main \in {Restored} \cup SUBSET Sections
  /\ warned \in BOOLEAN /\ spilled \in BOOLEAN
  /\ lastFired \in SUBSET Sections
  /\ final \in {"none", "saved", "failed", "skipped"}

(* "One save at a time": two threads never write the same world file.              *)
OneSaveAtATime == Len(server.writers) <= 1

(* What is fired is the live world, however many ticks it was assembled over and    *)
(* whatever was edited meanwhile: the claim of try_fire_pending_save, here for as    *)
(* long as the server has made do with its one buffer.                               *)
FiredIsLive == spilled \/ lastFired = {}

(* The same claim as the doc of try_fire_pending_save makes it, without a condition. *)
FiredIsAlwaysLive == lastFired = {}

(* The shutdown save "has the newer state and must land last": once it has succeeded *)
(* the file is the world as the game left it.                                        *)
FinalSaveIsNewest == final = "saved" => main = {}

(* Once the world has been rolled back and no save is under way, the restored file    *)
(* is not written over.                                                               *)
RollbackIsLast ==
  [][main = Restored /\ server.writers = << >> => main' = Restored]_vars

(* "The in-memory world must not be written over what was just restored." *)
RollbackStands == ~server.path => main = Restored

(* An armed save is fired, or dropped with the game, however fast the world changes   *)
(* and however often another save is asked for.                                        *)
ArmedFires ==
  server.pending # None ~> (server.pending = None \/ phase \in {"ending", "stopped"})
===============================================================================
