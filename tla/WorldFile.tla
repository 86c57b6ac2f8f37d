------------------------------ MODULE WorldFile -------------------------------
(***************************************************************************)
(* The world on the disk (world/wld_save.rs: save, rotate_backups;          *)
(* safe_write.rs: write_and_sync, copy_atomic, sync_parent_dir;             *)
(* game/server/mod.rs: roll_back; config.rs and main.rs: what is loaded at   *)
(* the next start).  A save writes a temporary file, verifies it, shifts the *)
(* backups, copies the world into the first of them, and renames the new     *)
(* world into place.  A rollback renames the world aside and copies a backup  *)
(* over it.  The two can overlap: the save runs on a thread of its own, the   *)
(* rollback on the game task.  Every operation on a directory is a step;      *)
(* every one may fail, and the process or the machine may stop between any    *)
(* two.                                                                      *)
(*                                                                           *)
(* A file holds a version of the world, counted up from one.  A temporary     *)
(* file is known to one thread and is overwritten before it is used, so that   *)
(* it is the contents that thread carries.                                     *)
(***************************************************************************)
EXTENDS Integers

CONSTANTS
  BackupsKept,   \* BACKUPS_KEPT
  Failing,       \* operations of the file system may fail
  MaxRollbacks,  \* bound: rollbacks begun in one run of the model
  MaxVersion     \* bound: the newest version of the world that a run of the model makes

ASSUME BackupsAssumption == BackupsKept \in Nat \ {0}
ASSUME FailingAssumption  == Failing \in BOOLEAN
ASSUME RollbacksAssumption == MaxRollbacks \in Nat
ASSUME VersionAssumption == MaxVersion \in Nat /\ MaxVersion > BackupsKept

Unreadable == -1
Absent     == 0
Contents   == Unreadable .. MaxVersion

(* The files somebody may read later: the world, .bak1 and so on, .before-rollback. *)
Main   == 0
Bak    == 1 .. BackupsKept
Aside  == BackupsKept + 1
Files  == {Main, Aside} \cup Bak

VARIABLES
  disk,       \* the files as every process sees them
  ondisk,     \* of these, the bytes that have reached the disk
  survivors,  \* the directories a power cut may leave: every one since the last sync
  newest,     \* versions of the world made so far
  up,         \* the server is running
  rolled,     \* save_path was cleared by a rollback
  writer,     \* where the save stands
  rollback,   \* where the rollback stands
  acked       \* history: the newest version reported as saved, none once a rollback began

vars == <<disk, ondisk, survivors, newest, up, rolled, writer, rollback, acked>>

(* ---- the file system -------------------------------------------------------------- *)

(* A file is there with its contents, and is also there with what was flushed of them.  *)
Flushed_Not(v) == Unreadable
Flushed(v) == v

Changes(d, o) == disk' = d /\ ondisk' = o /\ survivors' = survivors \cup {o}

Removes(f)      == Changes([disk EXCEPT ![f] = Absent], [ondisk EXCEPT ![f] = Absent])
Renames(f, g)   == Changes([disk EXCEPT ![g] = disk[f], ![f] = Absent],
                           [ondisk EXCEPT ![g] = ondisk[f], ![f] = Absent])
RenamesTemp(v, g) == Changes([disk EXCEPT ![g] = v], [ondisk EXCEPT ![g] = Flushed(v)])
NoChange        == UNCHANGED <<disk, ondisk, survivors>>

(* sync_parent_dir, on a file system that does it. *)
SyncParentDir == {ondisk}

Exists(f) == disk[f] # Absent

(* ---- save -------------------------------------------------------------------------- *)

Nowhere == [f \in Files |-> Absent]
Save(at, v, good) ==
  [at |-> at, version |-> v, good |-> good, n |-> 0, copy |-> Absent,
   before |-> Nowhere, clean |-> TRUE, alone |-> TRUE]   \* the last three are history
NoSave == Save("idle", Absent, TRUE)

Writing(place) == up /\ writer.at = place
Goes(place)    == [writer EXCEPT !.at = place]
Stumbles(w)    == [w EXCEPT !.clean = FALSE]

(* Fired by the game task, unless it is rolling back or has. *)
StartSave ==
  /\ up /\ ~rolled /\ rollback.at = "idle" /\ writer.at = "idle"
  /\ newest < MaxVersion /\ newest' = newest + 1
  /\ \E good \in BOOLEAN :
       writer' = [Save("verify", newest + 1, good) EXCEPT !.before = disk]
  /\ NoChange /\ UNCHANGED <<up, rolled, rollback, acked>>

(* The temporary file could not be written. *)
WriteFails ==
  /\ Writing("verify") /\ Failing
  /\ writer' = NoSave
  /\ NoChange /\ UNCHANGED <<newest, up, rolled, rollback, acked>>

(* Its bytes are parsed before anything else is touched. *)
Trusted_Blindly == TRUE
Trusted == writer.good

Verify ==
  /\ Writing("verify")
  /\ writer' = IF Trusted THEN Goes("rotate") ELSE NoSave
  /\ NoChange /\ UNCHANGED <<newest, up, rolled, rollback, acked>>

(* rotate_backups: remove the oldest, then shift the others from the old end... *)
Shifted(k) == BackupsKept - k   \* the k-th of them to be shifted

AllShifted(k) == k = BackupsKept

Rotate ==
  /\ Writing("rotate")
  /\ \/ ~Exists(Main) /\ writer' = Goes("rename") /\ NoChange
     \/ /\ Exists(Main)
        /\ \/ Removes(BackupsKept) /\ writer' = [Goes("shift") EXCEPT !.n = 1]
           \/ /\ Failing /\ NoChange
              /\ writer' = Stumbles([Goes("shift") EXCEPT !.n = 1])
  /\ UNCHANGED <<newest, up, rolled, rollback, acked>>

Shift ==
  /\ Writing("shift")
  /\ LET n     == Shifted(writer.n)
         moved == [writer EXCEPT !.n = @ + 1] IN
     IF AllShifted(writer.n) THEN writer' = Goes("copy") /\ NoChange
     ELSE \/ ~Exists(n) /\ writer' = moved /\ NoChange
          \/ Exists(n) /\ Renames(n, n + 1) /\ writer' = moved
          \/ Exists(n) /\ Failing /\ writer' = Stumbles(moved) /\ NoChange
  /\ UNCHANGED <<newest, up, rolled, rollback, acked>>

(* ...and copy the world into the first one, through a temporary file.           *)
CopyToBackup ==
  /\ Writing("copy")
  /\ \/ Exists(Main) /\ writer' = [Goes("backup") EXCEPT !.copy = disk[Main]]
     \/ (~Exists(Main) \/ Failing) /\ writer' = Stumbles(Goes("rename"))
  /\ NoChange /\ UNCHANGED <<newest, up, rolled, rollback, acked>>

BacksUp_ByRenaming == Renames(Main, 1)
BacksUp == RenamesTemp(writer.copy, 1)

RenameBackup ==
  /\ Writing("backup")
  /\ \/ BacksUp /\ writer' = Goes("syncbackup")
     \/ Failing /\ NoChange /\ writer' = Stumbles(Goes("rename"))
  /\ UNCHANGED <<newest, up, rolled, rollback, acked>>

SyncBackup ==
  /\ Writing("syncbackup")
  /\ survivors' = SyncParentDir
  /\ writer' = Goes("rename")
  /\ UNCHANGED <<disk, ondisk, newest, up, rolled, rollback, acked>>

RenameIntoPlace ==
  /\ Writing("rename")
  /\ RenamesTemp(IF writer.good THEN writer.version ELSE Unreadable, Main)
  /\ writer' = Goes("sync")
  /\ UNCHANGED <<newest, up, rolled, rollback, acked>>

RenameFails ==
  /\ Writing("rename") /\ Failing
  /\ writer' = NoSave
  /\ NoChange /\ UNCHANGED <<newest, up, rolled, rollback, acked>>

(* The save is reported as good.  A rollback withdraws the promise. *)
SyncIntoPlace ==
  /\ Writing("sync")
  /\ survivors' = SyncParentDir
  /\ acked' = IF writer.alone THEN writer.version ELSE acked
  /\ writer' = NoSave
  /\ UNCHANGED <<disk, ondisk, newest, up, rolled, rollback>>

(* ---- roll_back ----------------------------------------------------------------------- *)

NoRollbackAfter(n) == [at |-> "idle", which |-> 1, checked |-> Absent, old |-> Absent,
                       copy |-> Absent, alone |-> TRUE, begun |-> n]
NoRollback == NoRollbackAfter(rollback.begun)
Rolling(place) == up /\ rollback.at = place
RollsTo(place) == [rollback EXCEPT !.at = place]

(* The backup is there and parses. *)
RollBack(n) ==
  /\ up /\ ~rolled /\ rollback.at = "idle"
  /\ Exists(n) /\ disk[n] # Unreadable
  /\ rollback.begun < MaxRollbacks
  /\ rollback' = [at |-> "aside", which |-> n, checked |-> disk[n], old |-> disk[Main],
                  copy |-> Absent, alone |-> writer.at = "idle", begun |-> rollback.begun + 1]
  /\ writer' = [writer EXCEPT !.alone = writer.at = "idle"]
  /\ NoChange /\ UNCHANGED <<newest, up, rolled, acked>>

SetsAside_Not == NoChange
SetsAside == Renames(Main, Aside)

SetAside ==
  /\ Rolling("aside")
  /\ \/ /\ Exists(Main) /\ SetsAside /\ rollback' = RollsTo("copy") /\ acked' = Absent
     \/ ~Exists(Main) /\ NoChange /\ rollback' = RollsTo("copy") /\ acked' = Absent
     \/ /\ Exists(Main) /\ Failing /\ NoChange
        /\ rollback' = NoRollback /\ UNCHANGED acked
  /\ UNCHANGED <<newest, up, rolled, writer>>

CopyBack ==
  /\ Rolling("copy")
  /\ LET f == rollback.which IN
     \/ Exists(f) /\ rollback' = [RollsTo("restore") EXCEPT !.copy = disk[f]]
     \/ (~Exists(f) \/ Failing) /\ rollback' = RollsTo("undo")
  /\ NoChange /\ UNCHANGED <<newest, up, rolled, writer, acked>>

Restore ==
  /\ Rolling("restore")
  /\ \/ RenamesTemp(rollback.copy, Main) /\ rollback' = RollsTo("sync")
     \/ Failing /\ NoChange /\ rollback' = RollsTo("undo")
  /\ UNCHANGED <<newest, up, rolled, writer, acked>>

(* save_path is cleared: nothing is saved any more, and the server stops. *)
SyncRestored ==
  /\ Rolling("sync")
  /\ survivors' = SyncParentDir
  /\ rolled' = TRUE
  /\ rollback' = RollsTo("done")
  /\ UNCHANGED <<disk, ondisk, newest, up, writer, acked>>

(* What was moved aside is moved back, if that can be done; its error is ignored. *)
Undo ==
  /\ Rolling("undo")
  /\ \/ Exists(Aside) /\ Renames(Aside, Main)
     \/ (~Exists(Aside) \/ Failing) /\ NoChange
  /\ rollback' = NoRollback
  /\ UNCHANGED <<newest, up, rolled, writer, acked>>

(* ---- stopping and starting ------------------------------------------------------------- *)

(* The process ends, on purpose or not. *)
Exit ==
  /\ up /\ up' = FALSE
  /\ writer' = NoSave /\ rollback' = NoRollback /\ rolled' = FALSE
  /\ NoChange /\ UNCHANGED <<newest, acked>>

PowerCut ==
  /\ \E d \in survivors : disk' = d /\ ondisk' = d /\ survivors' = {d}
  /\ up' = FALSE
  /\ writer' = NoSave /\ rollback' = NoRollback /\ rolled' = FALSE
  /\ UNCHANGED <<newest, acked>>

(* resume_from_save_target, and the load; a world that does not load keeps the server down. *)
(* Without a file a world is generated, if only save_file is configured.                     *)
Start ==
  /\ ~up
  /\ ~Exists(Main) \/ disk[Main] # Unreadable
  /\ up' = TRUE
  /\ NoChange /\ UNCHANGED <<newest, rolled, writer, rollback, acked>>

(* ---- the whole system ------------------------------------------------------------------- *)

SaveStep ==
  WriteFails \/ Verify \/ Rotate \/ Shift \/ CopyToBackup \/ RenameBackup \/ SyncBackup
    \/ RenameIntoPlace \/ RenameFails \/ SyncIntoPlace
RollbackStep == SetAside \/ CopyBack \/ Restore \/ SyncRestored \/ Undo

(* Nothing is on the disk yet, or the world and as many backups as it was saved over. *)
Init ==
  /\ newest = BackupsKept + 1
  /\ \E n \in -1 .. BackupsKept :
       disk = [f \in Files |-> IF f <= n THEN newest - f ELSE Absent]
  /\ ondisk = disk /\ survivors = {disk}
  /\ up = FALSE /\ rolled = FALSE /\ writer = NoSave /\ rollback = NoRollbackAfter(0)
  /\ acked = Absent

Next ==
  \/ StartSave \/ SaveStep
  \/ \E n \in Bak : RollBack(n)
  \/ RollbackStep
  \/ Exit \/ PowerCut \/ Start

Spec == Init /\ [][Next]_vars

(* ---- properties ------------------------------------------------------------------------------ *)

Writers ==
  [at : {"idle", "verify", "rotate", "shift", "copy", "backup", "syncbackup", "rename", "sync"},
   version : 0 .. MaxVersion, good : BOOLEAN, n : 0 .. BackupsKept, copy : Contents,
   before : [Files -> Contents], clean : BOOLEAN, alone : BOOLEAN]
Rollbacks ==
  [at : {"idle", "aside", "copy", "restore", "sync", "undo", "done"}, which : Bak,
   checked : Contents, old : Contents, copy : Contents, alone : BOOLEAN,
   begun : 0 .. MaxRollbacks]

(* Type correctness of the whole state. *)
TypeOK ==
  /\ disk \in [Files -> Contents] /\ ondisk \in [Files -> Contents]
  /\ survivors \subseteq [Files -> Contents] /\ ondisk \in survivors
  /\ newest \in 0 .. MaxVersion /\ acked \in 0 .. MaxVersion
  /\ up \in BOOLEAN /\ rolled \in BOOLEAN
  /\ writer \in Writers /\ rollback \in Rollbacks

(* Whatever fails, and wherever the process or the machine stops, the world, every backup   *)
(* and the file set aside are whole worlds ("without ever leaving it as a prefix"), and the   *)
(* world is the one of the last save that was reported as good, or a newer one.                *)
WholeAndNewest ==
  \A d \in survivors \cup {disk} : d[Main] >= acked /\ \A f \in Files : d[f] # Unreadable

(* What a save costs, as it ends.  One that fails leaves the world as it was, and one that      *)
(* fails before it is verified leaves every file ("rotating first would push a healthy world     *)
(* out of the chain").  One that gets as far as the last rename has shifted every backup by one    *)
(* if no step of the rotation failed, whether or not it then goes into place: it costs the oldest    *)
(* backup and no other, and none when there was no world to back up.                                *)
BackupsSurvive ==
  [][writer.at # "idle" /\ writer'.at = "idle" /\ up' /\ writer.alone =>
       /\ writer.at # "sync" => disk'[Main] = writer.before[Main]
       /\ writer.at = "verify" => disk' = writer.before
       /\ writer.at # "verify" /\ writer.clean /\ writer.before[Main] # Absent =>
            /\ disk'[1] = writer.before[Main]
            /\ \A n \in 1 .. BackupsKept - 1 : disk'[n + 1] = writer.before[n]
       /\ writer.before[Main] = Absent => \A n \in Bak : disk'[n] = writer.before[n]]_vars

(* "A failure anywhere costs nothing that was already there": what was in a file before a save  *)
(* that failed, with no other failure in it, is in some file afterwards.                          *)
FailureCostsNothing ==
  [][writer.at \notin {"idle", "sync"} /\ writer'.at = "idle" /\ up' /\ writer.alone /\ writer.clean =>
       \A f \in Files : writer.before[f] \in {Absent} \cup {disk'[g] : g \in Files}]_vars

(* At every moment of a rollback that no save overlaps, if the process ends there or an error of   *)
(* it is being undone, the world it replaces is in its place or beside it, and the backup that was   *)
(* checked is where it was; once it is done, the backup is the world and the old world is beside it,   *)
(* also after a power cut.                                                                            *)
RollbackReversible ==
  rollback.at # "idle" /\ rollback.alone =>
    /\ disk[rollback.which] = rollback.checked
    /\ rollback.old # Absent => \E f \in {Main, Aside} : disk[f] = rollback.old
    /\ rollback.at = "done" =>
         \A d \in survivors \cup {disk} :
           d[Main] = rollback.checked /\ (rollback.old # Absent => d[Aside] = rollback.old)

(* The world on the disk behaves as DurableWorld says. *)
Durable == INSTANCE DurableWorld WITH stored <- disk[Main], kept <- acked
ImplementsDurableWorld == Durable!Spec

(* "Nothing is there the first time, so generation happens exactly once." *)
GeneratedOnce == [][~up /\ up' /\ ~Exists(Main) => \A f \in Files : ~Exists(f)]_vars
===============================================================================
