--------------------------- MODULE WorldFile_proofs ---------------------------
(***************************************************************************)
(* Proofs about WorldFile, for every number of backups, versions and         *)
(* rollbacks: what a file holds, what a failed save and a rollback leave,     *)
(* and that the world on the disk is DurableWorld.                            *)
(*                                                                           *)
(* The argument: a writer that is alone has the directory to itself, so that  *)
(* what it has done to the files since it began (Shifts) and what a rollback   *)
(* has (Reverses) can be followed step by step; the version being written is   *)
(* newer than every file until it is renamed into place (Fresh); and a promise *)
(* is withdrawn before a rollback touches what was promised (Apart, Keeps).     *)
(***************************************************************************)
EXTENDS WorldFile, TLAPS

Rotating == {"shift", "copy", "backup", "syncbackup"}
Unplaced == Rotating \cup {"verify", "rotate", "rename"}

(* All files are whole worlds, on the disk as in memory; so is what is carried. *)
Sound ==
  /\ disk = ondisk
  /\ \A d \in survivors : \A f \in Files : d[f] \in 0 .. newest
  /\ writer.copy \in 0 .. newest /\ rollback.copy \in 0 .. newest
  /\ acked <= newest
  /\ writer.at \notin {"idle", "verify"} => writer.good
  /\ writer.at = "shift" => writer.n \in 1 .. BackupsKept

(* What is being written is newer than everything there is, until it is in place. *)
Fresh ==
  /\ writer.at # "idle" => writer.version = newest
  /\ writer.at \in Unplaced =>
       /\ \A d \in survivors : \A f \in Files : d[f] < newest
       /\ rollback.copy < newest /\ writer.copy < newest

(* A save that a rollback overlaps knows it, and the other way round; and a rollback *)
(* that has moved a file has withdrawn what was promised.                              *)
Apart ==
  /\ rollback.at # "idle" /\ writer.at # "idle" => ~writer.alone /\ ~rollback.alone
  /\ rollback.at \notin {"idle", "aside"} => acked = Absent

(* No directory a power cut may leave has less than was promised; or, while there is a *)
(* promise, a newer world than the present.                                             *)
Keeps ==
  /\ \A d \in survivors : acked <= d[Main] /\ (acked # Absent => d[Main] <= disk[Main])
  /\ writer.at = "sync" /\ writer.alone => disk[Main] = writer.version

(* How far a rollback that has the files to itself has come. *)
Replaced(d) == rollback.old # Absent => d[Aside] = rollback.old

Reverses ==
  rollback.alone /\ rollback.at # "idle" =>
    /\ disk[rollback.which] = rollback.checked
    /\ rollback.at = "aside" => disk[Main] = rollback.old
    /\ rollback.at # "aside" => Replaced(disk)
    /\ rollback.at = "restore" => rollback.copy = rollback.checked
    /\ rollback.at = "sync" => disk[Main] = rollback.checked
    /\ rollback.at = "done" =>
         \A d \in survivors : d[Main] = rollback.checked /\ Replaced(d)

(* How far a save that has the files to itself has come: with n backups shifted, those *)
(* above have moved up by one, the place between is free, and the others are as before. *)
(* Without a world to back up it does not touch them.                                    *)
ShiftedFrom(d, b, m) == \A n \in m .. BackupsKept - 1 : d[n + 1] = b[n]

BackedUp == ShiftedFrom(disk, writer.before, 1) /\ disk[1] = writer.before[Main]
AsBefore == \A n \in Bak : disk[n] = writer.before[n]

Shifts ==
  writer.alone =>
    /\ writer.at \in {"verify", "rotate"} => disk = writer.before
    /\ writer.at \in Unplaced => disk[Main] = writer.before[Main]
    /\ writer.at = "shift" /\ writer.clean =>
         /\ ShiftedFrom(disk, writer.before, BackupsKept - writer.n + 1)
         /\ disk[BackupsKept - writer.n + 1] = Absent
         /\ \A n \in 1 .. BackupsKept - writer.n : disk[n] = writer.before[n]
    /\ writer.at = "backup" => writer.copy = writer.before[Main]
    /\ writer.at \in {"copy", "backup"} /\ writer.clean => ShiftedFrom(disk, writer.before, 1)
    /\ writer.at = "syncbackup" /\ writer.clean => BackedUp
    /\ writer.at \in {"rename", "sync"} /\ writer.clean /\ writer.before[Main] # Absent => BackedUp
    /\ writer.at \in Rotating => writer.before[Main] # Absent
    /\ writer.at \in {"rename", "sync"} /\ writer.before[Main] = Absent => AsBefore

IInv == TypeOK /\ Sound /\ Fresh /\ Apart /\ Keeps /\ Reverses /\ Shifts

USE BackupsAssumption, FailingAssumption, RollbacksAssumption, VersionAssumption
USE DEF Main, Absent

(* ---- the files ------------------------------------------------------------------- *)

LEMMA FilesApart ==
  /\ Main \in Files /\ Aside \in Files /\ Main # Aside /\ 1 \in Bak /\ BackupsKept \in Bak
  /\ \A n \in Bak : n \in Files /\ n # Main /\ n # Aside /\ n \in Nat
  /\ \A n \in 1 .. BackupsKept - 1 : n \in Bak /\ n + 1 \in Bak
BY DEF Files, Aside, Bak

LEMMA ContentsHold == 0 .. MaxVersion \subseteq Contents /\ Absent \in Contents
BY DEF Contents, Unreadable

LEMMA Removed ==
  ASSUME TypeOK, disk = ondisk, NEW f \in Files, Removes(f)
  PROVE  /\ disk' \in [Files -> Contents] /\ ondisk' = disk' /\ survivors' = survivors \cup {disk'}
         /\ disk'[f] = Absent /\ \A h \in Files : h # f => disk'[h] = disk[h]
BY ContentsHold DEF Removes, Changes, TypeOK

LEMMA Renamed ==
  ASSUME TypeOK, disk = ondisk, NEW f \in Files, NEW g \in Files, f # g, Renames(f, g)
  PROVE  /\ disk' \in [Files -> Contents] /\ ondisk' = disk' /\ survivors' = survivors \cup {disk'}
         /\ disk'[f] = Absent /\ disk'[g] = disk[f]
         /\ \A h \in Files : h # f /\ h # g => disk'[h] = disk[h]
BY ContentsHold DEF Renames, Changes, TypeOK

LEMMA TempRenamed ==
  ASSUME TypeOK, disk = ondisk, NEW v \in Contents, NEW g \in Files, RenamesTemp(v, g)
  PROVE  /\ disk' \in [Files -> Contents] /\ ondisk' = disk' /\ survivors' = survivors \cup {disk'}
         /\ disk'[g] = v /\ \A h \in Files : h # g => disk'[h] = disk[h]
BY DEF RenamesTemp, Flushed, Changes, TypeOK

(* ---- what every step of a save has in common ---------------------------------------- *)

LEMMA NoSaveHas ==
  /\ NoSave \in Writers /\ NoSave.at = "idle" /\ NoSave.copy = 0 /\ NoSave.alone
BY ContentsHold DEF NoSave, Save, Nowhere, Writers

LEMMA NoRollbackHas ==
  ASSUME TypeOK
  PROVE  NoRollback \in Rollbacks /\ NoRollback.at = "idle" /\ NoRollback.copy = 0 /\ NoRollback.alone
BY ContentsHold, FilesApart DEF NoRollback, NoRollbackAfter, Rollbacks, TypeOK

LEMMA InitHolds == Init => IInv
<1> SUFFICES ASSUME Init PROVE IInv
  OBVIOUS
<1>1. newest = BackupsKept + 1 /\ newest \in 0 .. MaxVersion
  BY DEF Init
<1>2. disk \in [Files -> 0 .. newest]
  BY <1>1 DEF Init, Files, Aside, Bak
<1>3. /\ writer \in Writers /\ writer.at = "idle" /\ writer.copy = 0 /\ writer.alone
  BY NoSaveHas DEF Init
<1>4. /\ rollback \in Rollbacks /\ rollback.at = "idle" /\ rollback.copy = 0
  BY ContentsHold, FilesApart DEF Init, NoRollbackAfter, Rollbacks
<1>5. TypeOK
  <2>1. 0 .. newest \subseteq Contents
    BY <1>1, ContentsHold
  <2>2. disk \in [Files -> Contents]
    BY <1>2, <2>1
  <2>3. /\ ondisk = disk /\ survivors = {disk} /\ acked = 0
        /\ up \in BOOLEAN /\ rolled \in BOOLEAN
    BY DEF Init
  <2> QED BY <1>1, <1>3, <1>4, <2>2, <2>3 DEF TypeOK
<1>6. Sound
  BY <1>1, <1>2, <1>3, <1>4 DEF Init, Sound
<1>7. Fresh /\ Apart
  BY <1>3, <1>4 DEF Init, Fresh, Apart, Unplaced, Rotating
<1>8. Keeps
  BY <1>2, <1>3, FilesApart DEF Init, Keeps
<1>9. Reverses /\ Shifts
  BY <1>3, <1>4 DEF Reverses, Shifts, Unplaced, Rotating
<1> QED BY <1>5, <1>6, <1>7, <1>8, <1>9 DEF IInv

(* While a save is under way a rollback does not have the files to itself. *)
LEMMA Overlaps ==
  ASSUME IInv, writer.at # "idle", rollback' = rollback
  PROVE  Reverses'
BY DEF IInv, Apart, Reverses

(* What the updates of the two records leave alone. *)
Same(w) ==
  /\ w.version = writer.version /\ w.good = writer.good /\ w.before = writer.before
  /\ w.alone = writer.alone

LEMMA Going ==
  ASSUME writer \in Writers, NEW place \in Unplaced \cup {"sync"}
  PROVE  /\ Goes(place) \in Writers /\ Same(Goes(place)) /\ Goes(place).at = place
         /\ Goes(place).n = writer.n /\ Goes(place).copy = writer.copy
         /\ Goes(place).clean = writer.clean
BY DEF Goes, Writers, Unplaced, Rotating, Same

LEMMA Counting ==
  ASSUME NEW w \in Writers, Same(w), NEW k \in 0 .. BackupsKept
  PROVE  LET x == [w EXCEPT !.n = k] IN
         /\ x \in Writers /\ Same(x) /\ x.at = w.at /\ x.n = k /\ x.copy = w.copy
         /\ x.clean = w.clean
BY DEF Writers, Same

LEMMA Stumbling ==
  ASSUME NEW w \in Writers, Same(w)
  PROVE  /\ Stumbles(w) \in Writers /\ Same(Stumbles(w)) /\ Stumbles(w).at = w.at
         /\ Stumbles(w).n = w.n /\ Stumbles(w).copy = w.copy /\ Stumbles(w).clean = FALSE
BY DEF Writers, Same, Stumbles

LEMMA GoingOnWithout ==
  ASSUME writer \in Writers, NEW place \in Unplaced
  PROVE  LET x == Stumbles(Goes(place)) IN
         /\ x \in Writers /\ Same(x) /\ x.at = place /\ x.copy = writer.copy /\ x.clean = FALSE
<1> DEFINE w == Goes(place)
<1>1. w \in Writers /\ Same(w) /\ w.at = place /\ w.copy = writer.copy
  BY Going
<1> HIDE DEF w
<1> QED BY <1>1, Stumbling DEF w

LEMMA Carrying ==
  ASSUME NEW w \in Writers, Same(w), NEW v \in Contents
  PROVE  LET x == [w EXCEPT !.copy = v] IN
         /\ x \in Writers /\ Same(x) /\ x.at = w.at /\ x.n = w.n /\ x.copy = v
         /\ x.clean = w.clean
BY DEF Writers, Same

LEMMA RollsOn ==
  ASSUME rollback \in Rollbacks, NEW place \in {"copy", "restore", "sync", "undo", "done"}
  PROVE  LET r == RollsTo(place) IN
         /\ r \in Rollbacks /\ r.at = place /\ r.which = rollback.which
         /\ r.checked = rollback.checked /\ r.old = rollback.old /\ r.copy = rollback.copy
         /\ r.alone = rollback.alone /\ r.begun = rollback.begun
BY DEF RollsTo, Rollbacks

(* What is on the disk is a directory a power cut may leave; no file there is torn. *)
LEMMA Present ==
  ASSUME TypeOK, Sound
  PROVE  /\ disk \in survivors /\ newest \in Nat /\ acked \in Nat
         /\ \A f \in Files : disk[f] \in 0 .. newest
         /\ \A d \in survivors : \A f \in Files : d[f] \in 0 .. newest
         /\ \A v \in 0 .. newest : v \in Contents /\ v \in Nat
BY ContentsHold DEF TypeOK, Sound, Contents, Unreadable

(* A step of a save that changes no file. *)
LEMMA SavePauses ==
  ASSUME IInv, writer.at # "idle", writer' \in Writers,
         UNCHANGED <<disk, ondisk>>, survivors' \in {survivors, {ondisk}},
         UNCHANGED <<newest, up, rolled, rollback, acked>>,
         writer'.at = "idle" \/ writer'.alone = writer.alone,
         writer'.at # "idle" => writer'.version = writer.version,
         writer'.at \in Unplaced => writer.at \in Unplaced,
         writer'.copy \in 0 .. newest, writer'.at \in Unplaced => writer'.copy < newest,
         writer'.at \notin {"idle", "verify"} => writer'.good,
         writer'.at = "shift" => writer'.n \in 1 .. BackupsKept,
         writer'.at # "sync", Shifts'
  PROVE  IInv'
<1> survivors' \subseteq survivors /\ ondisk \in survivors'
  BY DEF IInv, TypeOK
<1>1. TypeOK'
  BY DEF IInv, TypeOK
<1>2. Sound'
  BY DEF IInv, Sound
<1>3. Fresh'
  BY DEF IInv, Fresh
<1>4. Apart'
  BY DEF IInv, Apart
<1>5. Keeps'
  BY DEF IInv, Keeps
<1>6. Reverses'
  BY Overlaps
<1> QED BY <1>1, <1>2, <1>3, <1>4, <1>5, <1>6 DEF IInv

(* A step of a save that changes a backup. *)
LEMMA SaveShifts ==
  ASSUME IInv, writer.at \in Unplaced, writer' \in Writers, writer'.at \in Unplaced,
         UNCHANGED <<newest, up, rolled, rollback, acked>>,
         writer'.alone = writer.alone, writer'.version = writer.version, writer'.copy = writer.copy,
         writer'.at \notin {"idle", "verify"} => writer'.good,
         writer'.at = "shift" => writer'.n \in 1 .. BackupsKept,
         disk' \in [Files -> Contents], ondisk' = disk', survivors' = survivors \cup {disk'},
         disk'[Main] = disk[Main], \A f \in Files : disk'[f] \in 0 .. newest /\ disk'[f] < newest,
         Shifts'
  PROVE  IInv'
<1>1. TypeOK'
  BY DEF IInv, TypeOK
<1>2. Sound'
  BY DEF IInv, Sound
<1>3. Fresh'
  BY DEF IInv, Fresh, Unplaced, Rotating
<1>4. Apart'
  BY DEF IInv, Apart, Unplaced, Rotating
<1>5. Keeps'
  <2>1. acked <= disk[Main] /\ disk[Main] \in Int
    BY FilesApart DEF IInv, Keeps, Sound, TypeOK, Contents
  <2> QED BY <2>1 DEF IInv, Keeps, Unplaced, Rotating
<1>6. Reverses'
  BY Overlaps DEF Unplaced, Rotating
<1> QED BY <1>1, <1>2, <1>3, <1>4, <1>5, <1>6 DEF IInv

(* ---- each step keeps the invariant ---------------------------------------------------- *)

LEMMA StartSaveKeeps == IInv /\ StartSave => IInv'
<1> SUFFICES ASSUME IInv, StartSave PROVE IInv'
  OBVIOUS
<1>1. PICK good \in BOOLEAN :
        writer' = [Save("verify", newest + 1, good) EXCEPT !.before = disk]
  BY DEF StartSave
<1>2. newest \in 0 .. MaxVersion /\ newest' = newest + 1 /\ newest' \in 0 .. MaxVersion
  BY DEF StartSave, IInv, TypeOK
<1>3. /\ writer' \in Writers /\ writer'.at = "verify" /\ writer'.version = newest'
      /\ writer'.copy = 0 /\ writer'.before = disk /\ writer'.alone
  <2>1. writer' = [at |-> "verify", version |-> newest + 1, good |-> good, n |-> 0,
                   copy |-> 0, before |-> disk, clean |-> TRUE, alone |-> TRUE]
    BY <1>1 DEF Save, Nowhere
  <2>2. disk \in [Files -> Contents]
    BY DEF IInv, TypeOK
  <2> QED BY <1>2, <2>1, <2>2, ContentsHold DEF Writers
<1>4. NoChange /\ UNCHANGED <<up, rolled, rollback, acked>> /\ rollback.at = "idle"
  BY DEF StartSave
<1>5. TypeOK'
  BY <1>2, <1>3, <1>4 DEF IInv, TypeOK, NoChange
<1>6. \A d \in survivors : \A f \in Files : d[f] \in 0 .. newest' /\ d[f] < newest'
  BY <1>2 DEF IInv, Sound
<1>7. Sound'
  BY <1>2, <1>3, <1>4, <1>6 DEF IInv, TypeOK, Sound, NoChange
<1>8. Fresh'
  BY <1>2, <1>3, <1>4, <1>6 DEF IInv, Sound, Fresh, NoChange
<1>9. Apart' /\ Keeps' /\ Reverses'
  BY <1>3, <1>4 DEF IInv, Apart, Keeps, Reverses, Replaced, NoChange
<1>10. Shifts'
  BY <1>3, <1>4 DEF Shifts, Rotating, NoChange
<1> QED BY <1>5, <1>7, <1>8, <1>9, <1>10 DEF IInv

LEMMA GivesUpKeeps ==
  ASSUME IInv, writer.at # "idle", writer' = NoSave, NoChange,
         UNCHANGED <<newest, up, rolled, rollback, acked>>
  PROVE  IInv'
<1>1. Shifts'
  BY NoSaveHas DEF Shifts, Unplaced, Rotating
<1> QED BY <1>1, NoSaveHas, SavePauses DEF NoChange, IInv, TypeOK, Unplaced, Rotating

LEMMA VerifyKeeps == IInv /\ Verify => IInv'
<1> SUFFICES ASSUME IInv, Verify PROVE IInv'
  OBVIOUS
<1>1. NoChange /\ UNCHANGED <<newest, up, rolled, rollback, acked>> /\ writer.at = "verify"
  BY DEF Verify, Writing
<1>2. CASE ~writer.good
  BY <1>1, <1>2, GivesUpKeeps DEF Verify, Trusted
<1>3. CASE writer.good
  <2>1. writer' = [writer EXCEPT !.at = "rotate"] /\ writer \in Writers
    BY <1>3 DEF Verify, Trusted, Goes, IInv, TypeOK
  <2>2. /\ writer' \in Writers /\ writer'.at = "rotate" /\ writer'.alone = writer.alone
        /\ writer'.version = writer.version /\ writer'.copy = writer.copy /\ writer'.good
        /\ writer'.before = writer.before
    BY <1>3, <2>1 DEF Writers, Unplaced, Rotating
  <2>3. Shifts'
    BY <1>1, <2>2 DEF IInv, Shifts, NoChange, Unplaced, Rotating
  <2> QED BY <1>1, <2>2, <2>3, SavePauses DEF NoChange, IInv, Sound, Fresh, Unplaced, Rotating
<1> QED BY <1>2, <1>3

LEMMA RotateKeeps == IInv /\ Rotate => IInv'
<1> SUFFICES ASSUME IInv, Rotate PROVE IInv'
  OBVIOUS
<1>1. UNCHANGED <<newest, up, rolled, rollback, acked>> /\ writer.at = "rotate" /\ writer \in Writers
  BY DEF Rotate, Writing, IInv, TypeOK
<1>2. CASE ~Exists(Main) /\ writer' = Goes("rename") /\ NoChange
  <2>1. /\ writer' \in Writers /\ writer'.at = "rename" /\ writer'.alone = writer.alone
        /\ writer'.version = writer.version /\ writer'.copy = writer.copy
        /\ writer'.good = writer.good /\ writer'.before = writer.before
    BY <1>1, <1>2 DEF Writers, Unplaced, Rotating, Goes
  <2>2. Shifts'
    BY <1>1, <1>2, <2>1, FilesApart DEF IInv, Shifts, NoChange, Unplaced, Rotating, Exists, AsBefore
  <2> QED BY <1>1, <1>2, <2>1, <2>2, SavePauses DEF NoChange, IInv, Sound, Fresh, Unplaced, Rotating
<1>3. CASE Exists(Main) /\ NoChange /\ writer' = Stumbles([Goes("shift") EXCEPT !.n = 1])
  <2>1. /\ writer' \in Writers /\ writer'.at = "shift" /\ writer'.alone = writer.alone
        /\ writer'.version = writer.version /\ writer'.copy = writer.copy
        /\ writer'.good = writer.good /\ writer'.before = writer.before
        /\ writer'.n = 1 /\ writer'.clean = FALSE
    <3>1. 1 \in 0 .. BackupsKept
      OBVIOUS
    <3> DEFINE w == [Goes("shift") EXCEPT !.n = 1]
    <3>2. /\ w \in Writers /\ Same(w) /\ w.at = "shift" /\ w.copy = writer.copy /\ w.n = 1
      BY <1>1, <3>1, Going, Counting DEF Unplaced, Rotating
    <3>3. writer' = Stumbles(w)
      BY <1>3
    <3> HIDE DEF w
    <3> QED BY <3>2, <3>3, Stumbling DEF Same
  <2>2. Shifts'
    BY <1>1, <1>3, <2>1 DEF IInv, Shifts, NoChange, Unplaced, Rotating, Exists
  <2> QED BY <1>1, <1>3, <2>1, <2>2, SavePauses DEF NoChange, IInv, Sound, Fresh, Unplaced, Rotating
<1>4. CASE Exists(Main) /\ Removes(BackupsKept) /\ writer' = [Goes("shift") EXCEPT !.n = 1]
  <2>1. /\ writer' \in Writers /\ writer'.at = "shift" /\ writer'.alone = writer.alone
        /\ writer'.version = writer.version /\ writer'.copy = writer.copy
        /\ writer'.good = writer.good /\ writer'.before = writer.before
        /\ writer'.n = 1
    <3>1. 1 \in 0 .. BackupsKept
      OBVIOUS
    <3> QED BY <1>1, <1>4, <3>1, Going, Counting DEF Unplaced, Rotating, Same
  <2>2. /\ disk' \in [Files -> Contents] /\ ondisk' = disk' /\ survivors' = survivors \cup {disk'}
        /\ disk'[BackupsKept] = Absent
        /\ \A h \in Files : h # BackupsKept => disk'[h] = disk[h]
    BY <1>4, FilesApart, Removed DEF IInv, Sound
  <2>3. disk'[Main] = disk[Main]
    BY <2>2, FilesApart
  <2>4. \A f \in Files : disk[f] \in 0 .. newest /\ disk[f] < newest
    BY <1>1, Present DEF IInv, Fresh, Unplaced, Rotating
  <2>5. \A f \in Files : disk'[f] \in 0 .. newest /\ disk'[f] < newest
    BY <2>2, <2>4, FilesApart, Present DEF IInv
  <2>6. Shifts'
    <3>1. ShiftedFrom(disk', writer'.before, BackupsKept)
      BY DEF ShiftedFrom
    <3>2. writer.alone => \A n \in 1 .. BackupsKept - 1 : disk'[n] = writer.before[n]
      BY <1>1, <2>2, FilesApart DEF IInv, Shifts
    <3>3. writer.alone => writer.before[Main] # Absent
      BY <1>1, <1>4 DEF IInv, Shifts, Unplaced, Rotating, Exists
    <3> QED BY <1>1, <2>1, <2>2, <2>3, <3>1, <3>2, <3>3 DEF IInv, Shifts, Unplaced, Rotating
  <2> QED BY <1>1, <2>1, <2>2, <2>3, <2>5, <2>6, SaveShifts DEF IInv, Sound, Unplaced, Rotating
<1> QED BY <1>2, <1>3, <1>4 DEF Rotate

LEMMA ShiftKeeps == IInv /\ Shift => IInv'
<1> SUFFICES ASSUME IInv, Shift PROVE IInv'
  OBVIOUS
<1> DEFINE k == writer.n
           n == Shifted(writer.n)
           moved == [writer EXCEPT !.n = @ + 1]
<1>1. /\ UNCHANGED <<newest, up, rolled, rollback, acked>> /\ writer.at = "shift" /\ writer \in Writers
      /\ k \in 1 .. BackupsKept
  BY DEF Shift, Writing, IInv, TypeOK, Sound
<1>2. CASE AllShifted(writer.n)
  <2>1. writer' = Goes("copy") /\ NoChange /\ k = BackupsKept
    BY <1>2 DEF Shift, AllShifted
  <2>2. /\ writer' \in Writers /\ writer'.at = "copy" /\ writer'.alone = writer.alone
        /\ writer'.version = writer.version /\ writer'.copy = writer.copy
        /\ writer'.good = writer.good /\ writer'.before = writer.before
        /\ writer'.clean = writer.clean
    BY <1>1, <2>1 DEF Writers, Unplaced, Rotating, Goes
  <2>3. Shifts'
    <3>1. BackupsKept - k + 1 = 1
      BY <2>1
    <3> QED BY <1>1, <2>1, <2>2, <3>1 DEF IInv, Shifts, NoChange, Unplaced, Rotating, ShiftedFrom
  <2> QED BY <1>1, <2>1, <2>2, <2>3, SavePauses DEF NoChange, IInv, Sound, Fresh, Unplaced, Rotating
<1>3. CASE ~AllShifted(writer.n)
  <2>1. k \in 1 .. BackupsKept - 1 /\ n \in 1 .. BackupsKept - 1 /\ n = BackupsKept - k
    BY <1>1, <1>3 DEF AllShifted, Shifted
  <2>2. n \in Files /\ n + 1 \in Files /\ n # Main /\ n + 1 # Main /\ n # n + 1
    BY <2>1, FilesApart
  <2>3. /\ moved \in Writers /\ moved.at = "shift" /\ moved.alone = writer.alone
        /\ moved.version = writer.version /\ moved.copy = writer.copy
        /\ moved.good = writer.good /\ moved.before = writer.before
        /\ moved.n = k + 1 /\ moved.clean = writer.clean /\ moved.n \in 1 .. BackupsKept
    BY <1>1, <2>1 DEF Writers
  <2> HIDE DEF moved, n
  <2>4. CASE ~Exists(n) /\ writer' = moved /\ NoChange
    <3>1. Shifts'
      <4>1. BackupsKept - writer'.n = n - 1 /\ BackupsKept - k + 1 = n + 1
        BY <2>1, <2>3, <2>4
      <4>2. ASSUME writer.alone, writer.clean
            PROVE  /\ ShiftedFrom(disk', writer'.before, n) /\ disk'[n] = Absent
                   /\ \A m \in 1 .. n - 1 : disk'[m] = writer'.before[m]
        <5>1. /\ ShiftedFrom(disk, writer.before, n + 1) /\ disk[n + 1] = Absent
              /\ \A m \in 1 .. n : disk[m] = writer.before[m]
          BY <1>1, <2>1, <4>1, <4>2 DEF IInv, Shifts
        <5>2. disk[n + 1] = writer.before[n]
          BY <2>1, <2>4, <5>1 DEF Exists
        <5>3. ShiftedFrom(disk, writer.before, n)
          BY <2>1, <5>1, <5>2 DEF ShiftedFrom
        <5>4. disk' = disk /\ writer'.before = writer.before
          BY <2>3, <2>4 DEF NoChange, Same
        <5>5. ShiftedFrom(disk', writer'.before, n)
          BY <5>3, <5>4 DEF ShiftedFrom
        <5> QED BY <2>1, <2>4, <5>1, <5>4, <5>5 DEF Exists
      <4>3. BackupsKept - writer'.n + 1 = n
        BY <2>1, <2>3, <2>4
      <4>4. writer.alone /\ writer.clean => ShiftedFrom(disk', writer'.before, BackupsKept - writer'.n + 1)
        BY <4>2, <4>3 DEF ShiftedFrom
      <4>5. disk'[Main] = disk[Main] /\ writer'.before = writer.before /\ writer'.at = "shift"
            /\ writer'.alone = writer.alone /\ writer'.clean = writer.clean
        BY <2>3, <2>4 DEF NoChange
      <4>6. writer.alone => disk[Main] = writer.before[Main] /\ writer.before[Main] # Absent
        BY <1>1 DEF IInv, Shifts, Unplaced, Rotating
      <4> QED BY <4>1, <4>2, <4>3, <4>4, <4>5, <4>6 DEF Shifts, Rotating
    <3> QED BY <1>1, <2>3, <2>4, <3>1, SavePauses DEF NoChange, IInv, Sound, Fresh, Unplaced, Rotating
  <2>5. CASE Exists(n) /\ Renames(n, n + 1) /\ writer' = moved
    <3>1. /\ disk' \in [Files -> Contents] /\ ondisk' = disk' /\ survivors' = survivors \cup {disk'}
          /\ disk'[n] = Absent /\ disk'[n + 1] = disk[n]
          /\ \A h \in Files : h # n /\ h # n + 1 => disk'[h] = disk[h]
      BY <2>2, <2>5, Renamed DEF IInv, Sound
    <3>2. disk'[Main] = disk[Main]
      BY <2>2, <3>1, FilesApart
    <3>3. \A f \in Files : disk[f] \in 0 .. newest /\ disk[f] < newest
      BY <1>1, Present DEF IInv, Fresh, Unplaced, Rotating
    <3>4. \A f \in Files : disk'[f] \in 0 .. newest /\ disk'[f] < newest
      BY <2>2, <3>1, <3>3, Present DEF IInv
    <3>5. Shifts'
      <4>1. BackupsKept - writer'.n = n - 1 /\ BackupsKept - k + 1 = n + 1
        BY <2>1, <2>3, <2>5
      <4>2. ASSUME writer.alone, writer.clean
            PROVE  /\ ShiftedFrom(disk', writer'.before, n) /\ disk'[n] = Absent
                   /\ \A m \in 1 .. n - 1 : disk'[m] = writer'.before[m]
        <5>1. /\ ShiftedFrom(disk, writer.before, n + 1)
              /\ \A m \in 1 .. n : disk[m] = writer.before[m]
          BY <1>1, <2>1, <4>1, <4>2 DEF IInv, Shifts
        <5>2. disk'[n + 1] = writer.before[n]
          BY <2>1, <3>1, <5>1
        <5>3. \A m \in n + 1 .. BackupsKept - 1 : disk'[m + 1] = writer.before[m]
          <6> SUFFICES ASSUME NEW m \in n + 1 .. BackupsKept - 1
                       PROVE  disk'[m + 1] = writer.before[m]
            OBVIOUS
          <6>1. m + 1 \in Files /\ m + 1 # n /\ m + 1 # n + 1
            BY <2>1, FilesApart
          <6> QED BY <3>1, <5>1, <6>1 DEF ShiftedFrom
        <5>4. ShiftedFrom(disk', writer'.before, n)
          <6>1. \A m \in n .. BackupsKept - 1 : disk'[m + 1] = writer.before[m]
            BY <2>1, <5>2, <5>3
          <6> QED BY <2>3, <2>5, <6>1 DEF ShiftedFrom
        <5>5. \A m \in 1 .. n - 1 : disk'[m] = writer.before[m]
          <6> SUFFICES ASSUME NEW m \in 1 .. n - 1 PROVE disk'[m] = writer.before[m]
            OBVIOUS
          <6>1. m \in Files /\ m # n /\ m # n + 1
            BY <2>1, FilesApart
          <6> QED BY <2>1, <3>1, <5>1, <6>1
        <5> QED BY <2>3, <2>5, <3>1, <5>4, <5>5
      <4>3. BackupsKept - writer'.n + 1 = n
        BY <2>1, <2>3, <2>5
      <4>4. writer.alone /\ writer.clean => ShiftedFrom(disk', writer'.before, BackupsKept - writer'.n + 1)
        BY <4>2, <4>3 DEF ShiftedFrom
      <4>5. disk'[Main] = disk[Main] /\ writer'.before = writer.before /\ writer'.at = "shift"
            /\ writer'.alone = writer.alone /\ writer'.clean = writer.clean
        BY <2>3, <2>5, <3>2
      <4>6. writer.alone => disk[Main] = writer.before[Main] /\ writer.before[Main] # Absent
        BY <1>1 DEF IInv, Shifts, Unplaced, Rotating
      <4> QED BY <4>1, <4>2, <4>3, <4>4, <4>5, <4>6 DEF Shifts, Rotating
    <3> QED BY <1>1, <2>3, <2>5, <3>1, <3>2, <3>4, <3>5, SaveShifts DEF IInv, Sound, Unplaced, Rotating
  <2>6. CASE writer' = Stumbles(moved) /\ NoChange
    <3>1. /\ writer' \in Writers /\ writer'.at = "shift" /\ writer'.alone = writer.alone
          /\ writer'.version = writer.version /\ writer'.copy = writer.copy
          /\ writer'.good = writer.good /\ writer'.before = writer.before
          /\ writer'.n = k + 1 /\ writer'.clean = FALSE
      BY <2>3, <2>6 DEF Writers, Stumbles
    <3>2. Shifts'
      BY <1>1, <2>6, <3>1 DEF IInv, Shifts, NoChange, Unplaced, Rotating
    <3> QED BY <1>1, <2>1, <2>6, <3>1, <3>2, SavePauses DEF NoChange, IInv, Sound, Fresh, Unplaced, Rotating
  <2> QED BY <1>3, <2>4, <2>5, <2>6 DEF Shift, n, moved
<1> QED BY <1>2, <1>3

LEMMA CopyToBackupKeeps == IInv /\ CopyToBackup => IInv'
<1> SUFFICES ASSUME IInv, CopyToBackup PROVE IInv'
  OBVIOUS
<1>1. /\ NoChange /\ UNCHANGED <<newest, up, rolled, rollback, acked>> /\ writer.at = "copy"
      /\ writer \in Writers
  BY DEF CopyToBackup, Writing, IInv, TypeOK
<1>2. disk[Main] \in 0 .. newest /\ disk[Main] < newest /\ disk[Main] \in Contents
  BY <1>1, FilesApart, Present DEF IInv, Fresh, Unplaced, Rotating
<1>3. CASE writer' = [Goes("backup") EXCEPT !.copy = disk[Main]]
  <2>1. /\ writer' \in Writers /\ Same(writer') /\ writer'.at = "backup"
        /\ writer'.copy = disk[Main] /\ writer'.clean = writer.clean
    BY <1>1, <1>2, <1>3, Going, Carrying DEF Unplaced, Rotating
  <2>2. Shifts'
    BY <1>1, <2>1 DEF IInv, Shifts, NoChange, Unplaced, Rotating, Same
  <2> QED BY <1>1, <1>2, <2>1, <2>2, SavePauses DEF NoChange, IInv, Sound, Unplaced, Rotating, Same
<1>4. CASE writer' = Stumbles(Goes("rename"))
  <2>1. /\ writer' \in Writers /\ Same(writer') /\ writer'.at = "rename"
        /\ writer'.copy = writer.copy /\ writer'.clean = FALSE
    BY <1>1, <1>4, GoingOnWithout DEF Unplaced, Rotating
  <2>2. Shifts'
    BY <1>1, <2>1 DEF IInv, Shifts, NoChange, Unplaced, Rotating, Same
  <2> QED BY <1>1, <2>1, <2>2, SavePauses DEF NoChange, IInv, Sound, Fresh, Unplaced, Rotating, Same
<1> QED BY <1>3, <1>4 DEF CopyToBackup

LEMMA RenameBackupKeeps == IInv /\ RenameBackup => IInv'
<1> SUFFICES ASSUME IInv, RenameBackup PROVE IInv'
  OBVIOUS
<1>1. /\ UNCHANGED <<newest, up, rolled, rollback, acked>> /\ writer.at = "backup"
      /\ writer \in Writers
  BY DEF RenameBackup, Writing, IInv, TypeOK
<1>2. CASE RenamesTemp(writer.copy, 1) /\ writer' = Goes("syncbackup")
  <2>1. /\ writer' \in Writers /\ Same(writer') /\ writer'.at = "syncbackup"
        /\ writer'.copy = writer.copy /\ writer'.clean = writer.clean
    BY <1>1, <1>2, Going DEF Unplaced, Rotating
  <2>2. writer.copy \in 0 .. newest /\ writer.copy < newest /\ writer.copy \in Contents
    BY <1>1, Present DEF IInv, Sound, Fresh, Unplaced, Rotating
  <2>3. /\ disk' \in [Files -> Contents] /\ ondisk' = disk' /\ survivors' = survivors \cup {disk'}
        /\ disk'[1] = writer.copy /\ \A h \in Files : h # 1 => disk'[h] = disk[h]
    BY <1>2, <2>2, FilesApart, TempRenamed DEF IInv, Sound
  <2>4. disk'[Main] = disk[Main]
    BY <2>3, FilesApart
  <2>5. \A f \in Files : disk'[f] \in 0 .. newest /\ disk'[f] < newest
    BY <1>1, <2>2, <2>3, Present DEF IInv, Fresh, Unplaced, Rotating
  <2>6. Shifts'
    <3>1. ASSUME ShiftedFrom(disk, writer.before, 1)
          PROVE  ShiftedFrom(disk', writer'.before, 1)
      <4> SUFFICES ASSUME NEW n \in 1 .. BackupsKept - 1
                   PROVE  disk'[n + 1] = writer.before[n]
        BY <2>1 DEF ShiftedFrom, Same
      <4>1. n + 1 \in Files /\ n + 1 # 1
        BY FilesApart
      <4> QED BY <2>3, <3>1, <4>1 DEF ShiftedFrom
    <3>2. writer.alone => /\ disk[Main] = writer.before[Main] /\ writer.copy = writer.before[Main]
                          /\ writer.before[Main] # Absent
      BY <1>1 DEF IInv, Shifts, Unplaced, Rotating
    <3>3. writer.alone /\ writer.clean => ShiftedFrom(disk, writer.before, 1)
      BY <1>1 DEF IInv, Shifts
    <3> QED BY <2>1, <2>3, <2>4, <3>1, <3>2, <3>3 DEF Shifts, Same, BackedUp, Rotating
  <2> QED BY <1>1, <2>1, <2>3, <2>4, <2>5, <2>6, SaveShifts DEF IInv, Sound, Unplaced, Rotating, Same
<1>3. CASE NoChange /\ writer' = Stumbles(Goes("rename"))
  <2>1. /\ writer' \in Writers /\ Same(writer') /\ writer'.at = "rename"
        /\ writer'.copy = writer.copy /\ writer'.clean = FALSE
    BY <1>1, <1>3, GoingOnWithout DEF Unplaced, Rotating
  <2>2. Shifts'
    BY <1>1, <1>3, <2>1 DEF IInv, Shifts, NoChange, Unplaced, Rotating, Same
  <2> QED BY <1>1, <1>3, <2>1, <2>2, SavePauses DEF NoChange, IInv, Sound, Fresh, Unplaced, Rotating, Same
<1> QED BY <1>2, <1>3 DEF RenameBackup, BacksUp

LEMMA SyncBackupKeeps == IInv /\ SyncBackup => IInv'
<1> SUFFICES ASSUME IInv, SyncBackup PROVE IInv'
  OBVIOUS
<1>1. /\ UNCHANGED <<disk, ondisk, newest, up, rolled, rollback, acked>>
      /\ writer.at = "syncbackup" /\ writer \in Writers /\ survivors' = {ondisk}
      /\ writer' = Goes("rename")
  BY DEF SyncBackup, SyncParentDir, Writing, IInv, TypeOK
<1>2. /\ writer' \in Writers /\ Same(writer') /\ writer'.at = "rename"
      /\ writer'.copy = writer.copy /\ writer'.clean = writer.clean
  BY <1>1, Going DEF Unplaced, Rotating
<1>3. Shifts'
  BY <1>1, <1>2 DEF IInv, Shifts, Unplaced, Rotating, Same, BackedUp
<1> QED BY <1>1, <1>2, <1>3, SavePauses DEF IInv, Sound, Fresh, Unplaced, Rotating, Same

LEMMA RenameIntoPlaceKeeps == IInv /\ RenameIntoPlace => IInv'
<1> SUFFICES ASSUME IInv, RenameIntoPlace PROVE IInv'
  OBVIOUS
<1>1. /\ UNCHANGED <<newest, up, rolled, rollback, acked>> /\ writer.at = "rename"
      /\ writer \in Writers /\ writer' = Goes("sync") /\ writer.good
      /\ writer.version = newest /\ RenamesTemp(newest, Main)
  BY DEF RenameIntoPlace, Writing, IInv, TypeOK, Sound, Fresh
<1>2. /\ writer' \in Writers /\ Same(writer') /\ writer'.at = "sync"
      /\ writer'.copy = writer.copy /\ writer'.clean = writer.clean
  BY <1>1, Going
<1>3. /\ newest \in Nat /\ newest \in Contents /\ acked <= newest /\ acked \in Nat
      /\ \A d \in survivors : \A f \in Files : d[f] \in 0 .. newest
  BY Present DEF IInv, Sound
<1>4. /\ disk' \in [Files -> Contents] /\ ondisk' = disk' /\ survivors' = survivors \cup {disk'}
      /\ disk'[Main] = newest /\ \A h \in Files : h # Main => disk'[h] = disk[h]
  BY <1>1, <1>3, FilesApart, TempRenamed DEF IInv, Sound
<1>5. TypeOK'
  BY <1>1, <1>2, <1>4 DEF IInv, TypeOK
<1>6. Sound'
  <2>1. \A f \in Files : disk'[f] \in 0 .. newest
    BY <1>3, <1>4, Present DEF IInv
  <2> QED BY <1>1, <1>2, <1>3, <1>4, <2>1 DEF IInv, Sound, Same
<1>7. Fresh'
  BY <1>1, <1>2 DEF Fresh, Unplaced, Rotating, Same
<1>8. Apart'
  BY <1>1, <1>2 DEF IInv, Apart, Same
<1>9. Keeps'
  BY <1>1, <1>2, <1>3, <1>4, FilesApart DEF IInv, Keeps, Same
<1>10. Reverses'
  BY <1>1, Overlaps
<1>11. Shifts'
  <2>1. ASSUME BackedUp PROVE ShiftedFrom(disk', writer'.before, 1) /\ disk'[1] = writer.before[Main]
    <3>1. \A n \in 1 .. BackupsKept - 1 : disk'[n + 1] = disk[n + 1]
      BY <1>4, FilesApart
    <3> QED BY <1>2, <1>4, <2>1, <3>1, FilesApart DEF BackedUp, ShiftedFrom, Same
  <2>2. AsBefore => \A n \in Bak : disk'[n] = writer'.before[n]
    BY <1>2, <1>4, FilesApart DEF AsBefore, Same
  <2> QED BY <1>1, <1>2, <2>1, <2>2 DEF IInv, Shifts, Unplaced, Rotating, Same, BackedUp, AsBefore
<1> QED BY <1>5, <1>6, <1>7, <1>8, <1>9, <1>10, <1>11 DEF IInv

LEMMA SyncIntoPlaceKeeps == IInv /\ SyncIntoPlace => IInv'
<1> SUFFICES ASSUME IInv, SyncIntoPlace PROVE IInv'
  OBVIOUS
<1>1. /\ UNCHANGED <<disk, ondisk, newest, up, rolled, rollback>> /\ writer.at = "sync"
      /\ survivors' = {ondisk} /\ writer' = NoSave /\ writer.version = newest
      /\ acked' = IF writer.alone THEN newest ELSE acked
  BY DEF SyncIntoPlace, SyncParentDir, Writing, IInv, Fresh
<1>2. /\ disk = ondisk /\ disk \in survivors /\ newest \in Nat
      /\ \A f \in Files : disk[f] \in 0 .. newest
  BY Present DEF IInv, Sound
<1>3. TypeOK'
  BY <1>1, <1>2, NoSaveHas DEF IInv, TypeOK
<1>4. Sound'
  BY <1>1, <1>2, NoSaveHas DEF IInv, Sound
<1>5. Fresh' /\ Apart'
  BY <1>1, NoSaveHas DEF IInv, Fresh, Apart, Unplaced, Rotating
<1>6. Keeps'
  BY <1>1, <1>2, NoSaveHas, FilesApart DEF IInv, Keeps
<1>7. Reverses' /\ Shifts'
  BY <1>1, NoSaveHas, Overlaps DEF Shifts, Unplaced, Rotating
<1> QED BY <1>3, <1>4, <1>5, <1>6, <1>7 DEF IInv

(* ---- each step of a rollback keeps the invariant -------------------------------------- *)

LEMMA RollBackKeeps == ASSUME IInv, NEW n \in Bak, RollBack(n) PROVE IInv'
<1>1. /\ NoChange /\ UNCHANGED <<newest, up, rolled, acked>> /\ rollback.at = "idle"
      /\ disk[n] # Absent /\ rollback.begun < MaxRollbacks
      /\ writer' = [writer EXCEPT !.alone = writer.at = "idle"]
  BY DEF RollBack, Exists
<1>2. /\ rollback' \in Rollbacks /\ rollback'.at = "aside" /\ rollback'.which = n
      /\ rollback'.checked = disk[n] /\ rollback'.old = disk[Main] /\ rollback'.copy = 0
      /\ rollback'.alone = (writer.at = "idle")
  <2>1. rollback.begun + 1 \in 0 .. MaxRollbacks
    BY <1>1 DEF IInv, TypeOK, Rollbacks
  <2>2. disk[n] \in Contents /\ disk[Main] \in Contents
    BY FilesApart, Present DEF IInv
  <2>3. rollback' = [at |-> "aside", which |-> n, checked |-> disk[n], old |-> disk[Main],
                     copy |-> 0, alone |-> writer.at = "idle", begun |-> rollback.begun + 1]
    BY DEF RollBack
  <2> QED BY <2>1, <2>2, <2>3, ContentsHold DEF Rollbacks
<1>3. /\ writer' \in Writers /\ writer'.at = writer.at /\ writer'.version = writer.version
      /\ writer'.good = writer.good /\ writer'.n = writer.n /\ writer'.copy = writer.copy
      /\ writer'.alone = (writer.at = "idle")
  BY <1>1 DEF IInv, TypeOK, Writers
<1>4. TypeOK'
  BY <1>1, <1>2, <1>3 DEF IInv, TypeOK, NoChange
<1>5. Sound'
  BY <1>1, <1>2, <1>3, Present DEF IInv, Sound, NoChange
<1>6. Fresh'
  <2>1. writer.at \in Unplaced => 0 < newest
    BY FilesApart, Present DEF IInv, Fresh
  <2> QED BY <1>1, <1>2, <1>3, <2>1 DEF IInv, Fresh, NoChange
<1>7. Apart' /\ Keeps' /\ Reverses'
  BY <1>1, <1>2, <1>3 DEF IInv, Apart, Keeps, Reverses, NoChange
<1>8. Shifts'
  BY <1>3 DEF Shifts, Unplaced, Rotating
<1> QED BY <1>4, <1>5, <1>6, <1>7, <1>8 DEF IInv

(* What every later step of a rollback has in common: no save has the files to itself, and *)
(* nothing is promised.                                                                      *)
LEMMA RollbackSteps ==
  ASSUME IInv, rollback.at # "idle", TypeOK', newest' = newest, writer' = writer,
         rollback'.at = "idle" \/ rollback'.alone = rollback.alone,
         rollback'.copy \in 0 .. newest, writer.at \in Unplaced => rollback'.copy < newest,
         ondisk' = disk', survivors' \subseteq survivors \cup {disk'},
         \A f \in Files : disk'[f] \in 0 .. newest /\ (writer.at \in Unplaced => disk'[f] < newest),
         acked' = Absent \/ (NoChange /\ acked' = acked /\ rollback'.at = "idle"),
         Reverses'
  PROVE  IInv'
<1>1. newest \in Nat /\ acked \in Nat /\ newest <= MaxVersion
  BY Present DEF IInv, TypeOK
<1>2. writer.alone => writer.at = "idle"
  BY DEF IInv, Apart
<1>3. \A d \in survivors' : \A f \in Files :
        d[f] \in 0 .. newest /\ (writer.at \in Unplaced => d[f] < newest)
  BY DEF IInv, Sound, Fresh
<1>5. Sound'
  BY <1>1, <1>3 DEF IInv, Sound
<1>6. Fresh' /\ Apart'
  BY <1>3 DEF IInv, Fresh, Apart
<1>7. Keeps'
  BY <1>2, <1>3, FilesApart DEF IInv, Keeps, NoChange
<1>8. Shifts'
  BY <1>2 DEF Shifts, Unplaced, Rotating
<1> QED BY <1>5, <1>6, <1>7, <1>8 DEF IInv

LEMMA RollbackPauses ==
  ASSUME IInv, rollback.at # "idle", rollback' \in Rollbacks, NoChange,
         newest' = newest, up' = up, rolled' = rolled, writer' = writer,
         rollback'.at = "idle" \/ rollback'.alone = rollback.alone,
         rollback'.copy \in 0 .. newest, writer.at \in Unplaced => rollback'.copy < newest,
         acked' = Absent \/ (acked' = acked /\ rollback'.at = "idle"),
         Reverses'
  PROVE  IInv'
<1>1. acked' \in 0 .. MaxVersion
  BY DEF IInv, TypeOK
<1>2. TypeOK'
  BY <1>1 DEF IInv, TypeOK, NoChange
<1>3. ondisk' = disk' /\ survivors' \subseteq survivors \cup {disk'}
  BY DEF IInv, Sound, NoChange
<1>4. \A f \in Files :
        disk'[f] \in 0 .. newest /\ (writer.at \in Unplaced => disk'[f] < newest)
  BY Present DEF IInv, Fresh, NoChange
<1> QED BY <1>2, <1>3, <1>4, RollbackSteps

LEMMA RollbackRenames ==
  ASSUME IInv, rollback.at # "idle", rollback' \in Rollbacks,
         newest' = newest, up' = up, rolled' = rolled, writer' = writer,
         rollback'.at = "idle" \/ rollback'.alone = rollback.alone,
         rollback'.copy \in 0 .. newest, writer.at \in Unplaced => rollback'.copy < newest,
         disk' \in [Files -> Contents], ondisk' = disk', survivors' = survivors \cup {disk'},
         \A f \in Files : disk'[f] \in 0 .. newest /\ (writer.at \in Unplaced => disk'[f] < newest),
         acked' = Absent, Reverses'
  PROVE  IInv'
<1>1. TypeOK'
  BY DEF IInv, TypeOK
<1> QED BY <1>1, RollbackSteps

LEMMA SetAsideKeeps == IInv /\ SetAside => IInv'
<1> SUFFICES ASSUME IInv, SetAside PROVE IInv'
  OBVIOUS
<1>1. /\ UNCHANGED <<newest, up, rolled, writer>> /\ rollback.at = "aside"
      /\ rollback \in Rollbacks /\ rollback.which \in Bak /\ rollback.copy \in 0 .. newest
      /\ writer.at \in Unplaced => rollback.copy < newest
  BY DEF SetAside, Rolling, IInv, TypeOK, Rollbacks, Sound, Fresh
<1>2. \A f \in Files : disk[f] \in 0 .. newest /\ (writer.at \in Unplaced => disk[f] < newest)
  BY Present DEF IInv, Fresh
<1>3. /\ disk \in survivors /\ disk = ondisk /\ disk \in [Files -> Contents]
      /\ newest \in Nat /\ rolled \in BOOLEAN
  BY Present DEF IInv, TypeOK, Sound
<1>4. rollback.alone => disk[rollback.which] = rollback.checked /\ disk[Main] = rollback.old
  BY <1>1 DEF IInv, Reverses
<1>5. RollsTo("copy") \in Rollbacks
  BY <1>1, RollsOn
<1>6. CASE Renames(Main, Aside) /\ rollback' = RollsTo("copy") /\ acked' = Absent
  <2>1. /\ disk' \in [Files -> Contents] /\ ondisk' = disk' /\ survivors' = survivors \cup {disk'}
        /\ disk'[Main] = Absent /\ disk'[Aside] = disk[Main]
        /\ \A h \in Files : h # Main /\ h # Aside => disk'[h] = disk[h]
    BY <1>3, <1>6, FilesApart, Renamed DEF IInv
  <2>2. Reverses'
    BY <1>1, <1>4, <1>6, <2>1, FilesApart, RollsOn DEF Reverses, Replaced
  <2>3. \A f \in Files :
          disk'[f] \in 0 .. newest /\ (writer.at \in Unplaced => disk'[f] < newest)
    BY <1>2, <1>3, <2>1, FilesApart
  <2> QED BY <1>1, <1>5, <1>6, <2>1, <2>2, <2>3, RollsOn, RollbackRenames
<1>7. CASE ~Exists(Main) /\ NoChange /\ rollback' = RollsTo("copy") /\ acked' = Absent
  <2>1. Reverses'
    BY <1>1, <1>4, <1>7, RollsOn DEF Reverses, Replaced, Exists, NoChange
  <2> QED BY <1>1, <1>5, <1>7, <2>1, RollsOn, RollbackPauses
<1>8. CASE NoChange /\ rollback' = NoRollback /\ UNCHANGED acked
  <2>1. Reverses'
    BY <1>8, NoRollbackHas DEF IInv, Reverses
  <2>2. 0 \in 0 .. newest /\ (writer.at \in Unplaced => 0 < newest)
    BY <1>2, <1>3, FilesApart
  <2> QED BY <1>1, <1>8, <2>1, <2>2, NoRollbackHas, RollbackPauses DEF IInv
<1> QED BY <1>6, <1>7, <1>8 DEF SetAside, SetsAside

LEMMA CopyBackKeeps == IInv /\ CopyBack => IInv'
<1> SUFFICES ASSUME IInv, CopyBack PROVE IInv'
  OBVIOUS
<1> DEFINE f == rollback.which
<1>1. /\ NoChange /\ UNCHANGED <<newest, up, rolled, writer, acked>> /\ rollback.at = "copy"
      /\ rollback \in Rollbacks /\ f \in Bak /\ rollback.copy \in 0 .. newest
      /\ writer.at \in Unplaced => rollback.copy < newest
  BY DEF CopyBack, Rolling, IInv, TypeOK, Rollbacks, Sound, Fresh
<1>2. \A h \in Files : disk[h] \in 0 .. newest /\ (writer.at \in Unplaced => disk[h] < newest)
  BY Present DEF IInv, Fresh
<1>3. /\ disk \in survivors /\ disk = ondisk /\ disk \in [Files -> Contents]
      /\ newest \in Nat /\ rolled \in BOOLEAN /\ acked = Absent
  BY <1>1, Present DEF IInv, TypeOK, Sound, Apart
<1>4. rollback.alone => disk[f] = rollback.checked /\ Replaced(disk)
  BY <1>1 DEF IInv, Reverses
<1>5. CASE rollback' = [RollsTo("restore") EXCEPT !.copy = disk[f]]
  <2> DEFINE r == RollsTo("restore")
  <2>1. /\ r \in Rollbacks /\ r.at = "restore" /\ r.which = f /\ r.checked = rollback.checked
        /\ r.old = rollback.old /\ r.alone = rollback.alone
    BY <1>1, RollsOn
  <2>2. disk[f] \in 0 .. newest /\ disk[f] \in Contents /\ (writer.at \in Unplaced => disk[f] < newest)
    BY <1>1, <1>2, FilesApart, Present DEF IInv
  <2>3. rollback' = [r EXCEPT !.copy = disk[f]]
    BY <1>5
  <2> HIDE DEF r
  <2>4. /\ rollback' \in Rollbacks /\ rollback'.at = "restore" /\ rollback'.copy = disk[f]
        /\ rollback'.which = f
        /\ rollback'.checked = rollback.checked /\ rollback'.old = rollback.old
        /\ rollback'.alone = rollback.alone
    BY <2>1, <2>2, <2>3 DEF Rollbacks
  <2>5. Reverses'
    BY <1>1, <1>4, <2>4 DEF Reverses, Replaced, NoChange
  <2> QED BY <1>1, <1>3, <2>2, <2>4, <2>5, RollbackPauses
<1>6. CASE rollback' = RollsTo("undo")
  <2>1. /\ rollback' \in Rollbacks /\ rollback'.at = "undo" /\ rollback'.copy = rollback.copy
        /\ rollback'.alone = rollback.alone /\ rollback'.which = rollback.which
        /\ rollback'.checked = rollback.checked /\ rollback'.old = rollback.old
    BY <1>1, <1>6, RollsOn
  <2>2. Reverses'
    BY <1>1, <1>4, <2>1 DEF Reverses, Replaced, NoChange
  <2> QED BY <1>1, <1>3, <2>1, <2>2, RollbackPauses
<1> QED BY <1>5, <1>6 DEF CopyBack

LEMMA RestoreKeeps == IInv /\ Restore => IInv'
<1> SUFFICES ASSUME IInv, Restore PROVE IInv'
  OBVIOUS
<1>1. /\ UNCHANGED <<newest, up, rolled, writer, acked>> /\ rollback.at = "restore"
      /\ rollback \in Rollbacks /\ rollback.which \in Bak /\ rollback.copy \in 0 .. newest
      /\ writer.at \in Unplaced => rollback.copy < newest
  BY DEF Restore, Rolling, IInv, TypeOK, Rollbacks, Sound, Fresh
<1>2. \A h \in Files : disk[h] \in 0 .. newest /\ (writer.at \in Unplaced => disk[h] < newest)
  BY Present DEF IInv, Fresh
<1>3. /\ disk \in survivors /\ disk = ondisk /\ disk \in [Files -> Contents]
      /\ newest \in Nat /\ rolled \in BOOLEAN /\ acked = Absent /\ rollback.copy \in Contents
  BY <1>1, Present DEF IInv, TypeOK, Sound, Apart
<1>4. rollback.alone => /\ disk[rollback.which] = rollback.checked /\ Replaced(disk)
                        /\ rollback.copy = rollback.checked
  BY <1>1 DEF IInv, Reverses
<1>5. CASE RenamesTemp(rollback.copy, Main) /\ rollback' = RollsTo("sync")
  <2>1. /\ disk' \in [Files -> Contents] /\ ondisk' = disk' /\ survivors' = survivors \cup {disk'}
        /\ disk'[Main] = rollback.copy /\ \A h \in Files : h # Main => disk'[h] = disk[h]
    BY <1>3, <1>5, FilesApart, TempRenamed DEF IInv
  <2>2. /\ rollback' \in Rollbacks /\ rollback'.at = "sync" /\ rollback'.copy = rollback.copy
        /\ rollback'.alone = rollback.alone /\ rollback'.checked = rollback.checked
        /\ rollback'.old = rollback.old /\ rollback'.which = rollback.which
    BY <1>1, <1>5, RollsOn
  <2>3. Reverses'
    BY <1>1, <1>4, <2>1, <2>2, FilesApart DEF Reverses, Replaced
  <2>4. \A f \in Files :
          disk'[f] \in 0 .. newest /\ (writer.at \in Unplaced => disk'[f] < newest)
    BY <1>1, <1>2, <2>1
  <2> QED BY <1>1, <1>3, <2>1, <2>2, <2>3, <2>4, RollbackRenames
<1>6. CASE NoChange /\ rollback' = RollsTo("undo")
  <2>1. /\ rollback' \in Rollbacks /\ rollback'.at = "undo" /\ rollback'.copy = rollback.copy
        /\ rollback'.alone = rollback.alone /\ rollback'.which = rollback.which
        /\ rollback'.checked = rollback.checked /\ rollback'.old = rollback.old
    BY <1>1, <1>6, RollsOn
  <2>2. Reverses'
    BY <1>4, <1>6, <2>1 DEF Reverses, Replaced, NoChange
  <2> QED BY <1>1, <1>3, <1>6, <2>1, <2>2, RollbackPauses
<1> QED BY <1>5, <1>6 DEF Restore

LEMMA SyncRestoredKeeps == IInv /\ SyncRestored => IInv'
<1> SUFFICES ASSUME IInv, SyncRestored PROVE IInv'
  OBVIOUS
<1>1. /\ UNCHANGED <<disk, ondisk, newest, up, writer, acked>> /\ rollback.at = "sync"
      /\ rollback \in Rollbacks /\ rollback.copy \in 0 .. newest
      /\ writer.at \in Unplaced => rollback.copy < newest
      /\ survivors' = {ondisk} /\ rolled' = TRUE /\ rollback' = RollsTo("done")
  BY DEF SyncRestored, SyncParentDir, Rolling, IInv, TypeOK, Sound, Fresh
<1>2. \A h \in Files : disk'[h] \in 0 .. newest /\ (writer.at \in Unplaced => disk'[h] < newest)
  BY <1>1, Present DEF IInv, Fresh
<1>3. disk = ondisk /\ disk \in [Files -> Contents] /\ acked = Absent
  BY <1>1 DEF IInv, TypeOK, Sound, Apart
<1>4. rollback.alone => /\ disk[rollback.which] = rollback.checked /\ Replaced(disk)
                        /\ disk[Main] = rollback.checked
  BY <1>1 DEF IInv, Reverses
<1>5. /\ rollback' \in Rollbacks /\ rollback'.at = "done" /\ rollback'.copy = rollback.copy
      /\ rollback'.alone = rollback.alone /\ rollback'.checked = rollback.checked
      /\ rollback'.old = rollback.old /\ rollback'.which = rollback.which
  BY <1>1, RollsOn
<1>6. Reverses'
  BY <1>1, <1>3, <1>4, <1>5 DEF Reverses, Replaced
<1>7. TypeOK' /\ ondisk' = disk' /\ survivors' \subseteq survivors \cup {disk'}
  BY <1>1, <1>3, <1>5 DEF IInv, TypeOK
<1> QED BY <1>1, <1>2, <1>3, <1>5, <1>6, <1>7, RollbackSteps

LEMMA UndoKeeps == IInv /\ Undo => IInv'
<1> SUFFICES ASSUME IInv, Undo PROVE IInv'
  OBVIOUS
<1>1. /\ UNCHANGED <<newest, up, rolled, writer, acked>> /\ rollback.at = "undo"
      /\ rollback' = NoRollback
  BY DEF Undo, Rolling
<1>2. \A h \in Files : disk[h] \in 0 .. newest /\ (writer.at \in Unplaced => disk[h] < newest)
  BY Present DEF IInv, Fresh
<1>3. /\ disk \in survivors /\ disk = ondisk /\ disk \in [Files -> Contents]
      /\ newest \in Nat /\ rolled \in BOOLEAN /\ acked = Absent
      /\ writer.at \in Unplaced => 0 < newest
  BY <1>1, <1>2, FilesApart, Present DEF IInv, TypeOK, Sound, Apart
<1>4. /\ rollback' \in Rollbacks /\ rollback'.at = "idle" /\ rollback'.copy = 0
  BY <1>1, NoRollbackHas DEF IInv
<1>5. Reverses'
  BY <1>4 DEF Reverses
<1>6. CASE Renames(Aside, Main)
  <2>1. /\ disk' \in [Files -> Contents] /\ ondisk' = disk' /\ survivors' = survivors \cup {disk'}
        /\ disk'[Aside] = Absent /\ disk'[Main] = disk[Aside]
        /\ \A h \in Files : h # Aside /\ h # Main => disk'[h] = disk[h]
    BY <1>3, <1>6, FilesApart, Renamed DEF IInv
  <2>2. \A f \in Files :
          disk'[f] \in 0 .. newest /\ (writer.at \in Unplaced => disk'[f] < newest)
    BY <1>2, <1>3, <2>1, FilesApart
  <2> QED BY <1>1, <1>3, <1>4, <1>5, <2>1, <2>2, RollbackRenames
<1>7. CASE NoChange
  BY <1>1, <1>3, <1>4, <1>5, <1>7, RollbackPauses
<1> QED BY <1>6, <1>7 DEF Undo

(* ---- stopping, starting, and the whole ---------------------------------------------------- *)

LEMMA StopKeeps ==
  ASSUME IInv, up' = FALSE, rolled' = FALSE, writer' = NoSave, rollback' = NoRollback,
         UNCHANGED <<newest, acked>>,
         NEW d \in survivors, disk' = d, ondisk' = d, survivors' \subseteq survivors, d \in survivors',
         \A e \in survivors' : e[Main] <= d[Main] \/ acked = Absent
  PROVE  IInv'
<1>1. /\ writer' \in Writers /\ writer'.at = "idle" /\ writer'.copy = 0
      /\ rollback' \in Rollbacks /\ rollback'.at = "idle" /\ rollback'.copy = 0
  BY NoSaveHas, NoRollbackHas DEF IInv
<1>2. TypeOK'
  BY <1>1 DEF IInv, TypeOK
<1>3. Sound'
  BY <1>1, Present DEF IInv, Sound
<1>4. Fresh' /\ Apart' /\ Reverses' /\ Shifts'
  BY <1>1 DEF Fresh, Apart, Reverses, Shifts, Unplaced, Rotating
<1>5. Keeps'
  BY <1>1 DEF IInv, Keeps
<1> QED BY <1>2, <1>3, <1>4, <1>5 DEF IInv

LEMMA NextKeeps == IInv /\ [Next]_vars => IInv'
<1> SUFFICES ASSUME IInv, [Next]_vars PROVE IInv'
  OBVIOUS
<1>1. CASE StartSave
  BY <1>1, StartSaveKeeps
<1>2. CASE WriteFails
  BY <1>2, GivesUpKeeps DEF WriteFails, Writing
<1>3. CASE Verify
  BY <1>3, VerifyKeeps
<1>4. CASE Rotate
  BY <1>4, RotateKeeps
<1>5. CASE Shift
  BY <1>5, ShiftKeeps
<1>6. CASE CopyToBackup
  BY <1>6, CopyToBackupKeeps
<1>7. CASE RenameBackup
  BY <1>7, RenameBackupKeeps
<1>8. CASE SyncBackup
  BY <1>8, SyncBackupKeeps
<1>9. CASE RenameIntoPlace
  BY <1>9, RenameIntoPlaceKeeps
<1>10. CASE RenameFails
  BY <1>10, GivesUpKeeps DEF RenameFails, Writing
<1>11. CASE SyncIntoPlace
  BY <1>11, SyncIntoPlaceKeeps
<1>12. CASE \E n \in Bak : RollBack(n)
  BY <1>12, RollBackKeeps
<1>13. CASE RollbackStep
  BY <1>13, SetAsideKeeps, CopyBackKeeps, RestoreKeeps, SyncRestoredKeeps, UndoKeeps DEF RollbackStep
<1>14. CASE Exit
  BY <1>14, Present, StopKeeps DEF Exit, NoChange, IInv, Sound, Keeps
<1>15. CASE PowerCut
  <2>1. PICK d \in survivors : disk' = d /\ ondisk' = d /\ survivors' = {d}
    BY <1>15 DEF PowerCut
  <2>2. d[Main] <= d[Main]
    BY FilesApart, Present DEF IInv
  <2> QED BY <1>15, <2>1, <2>2, StopKeeps DEF PowerCut
<1>16. CASE Start
  <2>1. UNCHANGED <<disk, ondisk, survivors, newest, rolled, writer, rollback, acked>> /\ up' = TRUE
    BY <1>16 DEF Start, NoChange
  <2>2. TypeOK' /\ Sound' /\ Fresh' /\ Apart' /\ Keeps' /\ Reverses' /\ Shifts'
    BY <2>1 DEF IInv, TypeOK, Sound, Fresh, Apart, Keeps, Reverses, Replaced, Shifts, BackedUp, AsBefore
  <2> QED BY <2>2 DEF IInv
<1>17. CASE UNCHANGED vars
  <2>1. TypeOK' /\ Sound' /\ Fresh' /\ Apart' /\ Keeps' /\ Reverses' /\ Shifts'
    BY <1>17 DEF vars, IInv, TypeOK, Sound, Fresh, Apart, Keeps, Reverses, Replaced, Shifts, BackedUp, AsBefore
  <2> QED BY <2>1 DEF IInv
<1> QED BY <1>1, <1>2, <1>3, <1>4, <1>5, <1>6, <1>7, <1>8, <1>9, <1>10, <1>11, <1>12, <1>13,
           <1>14, <1>15, <1>16, <1>17 DEF Next, SaveStep

LEMMA Invariant == Spec => []IInv
BY InitHolds, NextKeeps, PTL DEF Spec

(* Every variable keeps to its type. *)
THEOREM FilesTyped == Spec => []TypeOK
<1>1. IInv => TypeOK
  BY DEF IInv
<1> QED BY <1>1, Invariant, PTL

(* Whatever fails, and wherever the process or the machine stops, every file is a whole world *)
(* and the world is what was last reported as saved, or newer.                                  *)
THEOREM NothingTornOrLost == Spec => []WholeAndNewest
<1>1. IInv => WholeAndNewest
  BY Present, FilesApart DEF IInv, Keeps, WholeAndNewest, Unreadable
<1> QED BY <1>1, Invariant, PTL

(* A rollback that no save overlapped can be reversed, also after a power cut. *)
THEOREM RollbacksReverse == Spec => []RollbackReversible
<1>1. IInv => RollbackReversible
  BY Present DEF IInv, Reverses, Replaced, RollbackReversible
<1> QED BY <1>1, Invariant, PTL

(* ---- what a save does to the files, as a step ------------------------------------------ *)

(* Where a save that goes on is next. *)
LEMMA GoesOn ==
  ASSUME IInv, Rotate \/ Shift \/ CopyToBackup \/ RenameBackup \/ SyncBackup \/ RenameIntoPlace
  PROVE  writer'.at # "idle"
<1>1. writer \in Writers /\ writer.at # "idle"
  BY DEF IInv, TypeOK, Rotate, Shift, CopyToBackup, RenameBackup, SyncBackup, RenameIntoPlace, Writing
<1>2. \A place \in Unplaced \cup {"sync"} : Goes(place) \in Writers /\ Goes(place).at = place
  BY <1>1, Going
<1>3. CASE Rotate
  <2>1. \/ writer' = Goes("rename") \/ writer' = [Goes("shift") EXCEPT !.n = 1]
        \/ writer' = [[Goes("shift") EXCEPT !.n = 1] EXCEPT !.clean = FALSE]
    BY <1>3 DEF Rotate, Stumbles
  <2> QED BY <1>2, <2>1 DEF Unplaced, Rotating, Writers
<1>4. CASE Shift
  <2>1. \/ writer' = Goes("copy") \/ writer' = [writer EXCEPT !.n = @ + 1]
        \/ writer' = [[writer EXCEPT !.n = @ + 1] EXCEPT !.clean = FALSE]
    BY <1>4 DEF Shift, Stumbles
  <2> QED BY <1>1, <1>2, <2>1 DEF Unplaced, Rotating, Writers
<1>5. CASE CopyToBackup
  <2>1. \/ writer' = [Goes("backup") EXCEPT !.copy = disk[Main]]
        \/ writer' = [Goes("rename") EXCEPT !.clean = FALSE]
    BY <1>5 DEF CopyToBackup, Stumbles
  <2> QED BY <1>2, <2>1 DEF Unplaced, Rotating, Writers
<1>6. CASE RenameBackup
  <2>1. writer' = Goes("syncbackup") \/ writer' = [Goes("rename") EXCEPT !.clean = FALSE]
    BY <1>6 DEF RenameBackup, Stumbles
  <2> QED BY <1>2, <2>1 DEF Unplaced, Rotating, Writers
<1>7. CASE SyncBackup \/ RenameIntoPlace
  <2>1. writer' = Goes("rename") \/ writer' = Goes("sync")
    BY <1>7 DEF SyncBackup, RenameIntoPlace
  <2> QED BY <1>2, <2>1 DEF Unplaced, Rotating
<1> QED BY <1>3, <1>4, <1>5, <1>6, <1>7

LEMMA SavesSurvive ==
  ASSUME IInv, [Next]_vars, writer.at # "idle", writer'.at = "idle", up', writer.alone
  PROVE  /\ writer.at # "sync" => disk'[Main] = writer.before[Main]
         /\ writer.at = "verify" => disk' = writer.before
         /\ writer.at # "verify" /\ writer.clean /\ writer.before[Main] # Absent =>
              /\ disk'[1] = writer.before[Main]
              /\ \A n \in 1 .. BackupsKept - 1 : disk'[n + 1] = writer.before[n]
         /\ writer.before[Main] = Absent => \A n \in Bak : disk'[n] = writer.before[n]
<1>1. WriteFails \/ Verify \/ RenameFails \/ SyncIntoPlace
  <2>1. ~UNCHANGED vars /\ ~RollbackStep /\ ~Start
    BY DEF vars, RollbackStep, SetAside, CopyBack, Restore, SyncRestored, Undo, Start
  <2>2. ~StartSave /\ ~Exit /\ ~PowerCut
    BY DEF StartSave, Exit, PowerCut
  <2>3. ASSUME NEW n \in Bak PROVE ~RollBack(n)
    BY DEF RollBack, IInv, TypeOK, Writers
  <2> QED BY <2>1, <2>2, <2>3, GoesOn DEF Next, SaveStep
<1>2. disk' = disk
  BY <1>1 DEF WriteFails, Verify, RenameFails, SyncIntoPlace, NoChange
<1>3. writer.at \in {"verify", "rename", "sync"}
  BY <1>1 DEF WriteFails, Verify, RenameFails, SyncIntoPlace, Writing
<1> QED BY <1>2, <1>3 DEF IInv, Shifts, Unplaced, BackedUp, ShiftedFrom, AsBefore

(* A save that fails leaves the world, and until it is verified all files, as they were; one   *)
(* that gets as far as the last rename has shifted every backup by one unless a step of the       *)
(* rotation failed, and has touched none when there was no world to back up.                       *)
THEOREM SavesKeepBackups == Spec => BackupsSurvive
<1> DEFINE A ==
      writer.at # "idle" /\ writer'.at = "idle" /\ up' /\ writer.alone =>
        /\ writer.at # "sync" => disk'[Main] = writer.before[Main]
        /\ writer.at = "verify" => disk' = writer.before
        /\ writer.at # "verify" /\ writer.clean /\ writer.before[Main] # Absent =>
             /\ disk'[1] = writer.before[Main]
             /\ \A n \in 1 .. BackupsKept - 1 : disk'[n + 1] = writer.before[n]
        /\ writer.before[Main] = Absent => \A n \in Bak : disk'[n] = writer.before[n]
<1>1. IInv /\ [Next]_vars => [A]_vars
  BY SavesSurvive
<1>2. IInv /\ [][Next]_vars /\ []IInv => [][A]_vars
  BY <1>1, PTL
<1> QED BY <1>2, Invariant, PTL DEF Spec, BackupsSurvive

(* ---- the world on the disk is DurableWorld ------------------------------------------------ *)

LEMMA MainStays ==
  ASSUME IInv, Rotate \/ Shift \/ RenameBackup
  PROVE  disk'[Main] = disk[Main] /\ acked' = acked
<1>1. acked' = acked
  BY DEF Rotate, Shift, RenameBackup
<1>2. CASE NoChange
  BY <1>1, <1>2 DEF NoChange
<1>3. CASE Rotate /\ ~NoChange
  BY <1>1, <1>3, FilesApart, Removed DEF IInv, Sound, Rotate
<1>4. CASE Shift /\ ~NoChange
  <2> DEFINE n == Shifted(writer.n)
  <2>1. Renames(n, n + 1) /\ writer.n \in 1 .. BackupsKept /\ writer.n # BackupsKept
    BY <1>4 DEF Shift, Writing, AllShifted, IInv, Sound
  <2>2. n \in 1 .. BackupsKept - 1
    BY <2>1 DEF Shifted
  <2>3. n \in Files /\ n + 1 \in Files /\ n # Main /\ n + 1 # Main /\ n # n + 1
    BY <2>2, FilesApart
  <2> HIDE DEF n
  <2> QED BY <1>1, <2>1, <2>3, FilesApart, Renamed DEF IInv, Sound
<1>5. CASE RenameBackup /\ ~NoChange
  <2>1. writer.copy \in Contents
    BY DEF IInv, TypeOK, Writers
  <2> QED BY <1>1, <1>5, <2>1, FilesApart, TempRenamed DEF IInv, Sound, RenameBackup, BacksUp
<1> QED BY <1>2, <1>3, <1>4, <1>5

LEMMA StepImplements == IInv /\ IInv' /\ [Next]_vars => [Durable!Next]_(Durable!vars)
<1> SUFFICES ASSUME IInv, IInv', [Next]_vars
             PROVE  Durable!Next \/ (disk'[Main] = disk[Main] /\ acked' = acked)
  BY DEF Durable!vars
<1>1. /\ disk[Main] \in Nat /\ acked \in Nat /\ acked <= disk[Main]
      /\ disk'[Main] \in Nat /\ acked' \in Nat
  <2>1. IInv => disk[Main] \in Nat /\ acked \in Nat /\ acked <= disk[Main]
    BY Present, FilesApart DEF IInv, Keeps
  <2>2. (disk[Main] \in Nat /\ acked \in Nat)'
    BY FilesApart DEF IInv, TypeOK, Sound
  <2> QED BY <2>1, <2>2
<1>2. ASSUME acked' = Absent PROVE Durable!Withdraw
  BY <1>1, <1>2 DEF Durable!Withdraw
<1>3. CASE NoChange /\ acked' = acked
  BY <1>3 DEF NoChange
<1>4. CASE Rotate \/ Shift \/ RenameBackup
  BY <1>4, MainStays
<1>5. CASE RenameIntoPlace
  <2>1. /\ writer.at = "rename" /\ writer.good /\ writer.version = newest /\ acked' = acked
        /\ RenamesTemp(newest, Main)
    BY <1>5 DEF RenameIntoPlace, Writing, IInv, Sound, Fresh
  <2>2. disk[Main] < newest /\ newest \in Contents
    BY <2>1, Present, FilesApart DEF IInv, Fresh, Unplaced, Rotating
  <2>3. disk'[Main] = newest
    BY <2>1, <2>2, FilesApart, TempRenamed DEF IInv, Sound
  <2> QED BY <1>1, <2>1, <2>2, <2>3 DEF Durable!Next, Durable!Replace
<1>6. CASE SyncIntoPlace
  <2>1. writer.at = "sync" /\ disk' = disk /\ acked' = IF writer.alone THEN writer.version ELSE acked
    BY <1>6 DEF SyncIntoPlace, Writing
  <2>2. CASE writer.alone
    <3>1. acked' = disk[Main]
      BY <2>1, <2>2 DEF IInv, Keeps
    <3> QED BY <1>1, <2>1, <3>1 DEF Durable!Next, Durable!Report, Durable!Promised
  <2> QED BY <2>1, <2>2
<1>7. CASE RollbackStep
  <2>1. acked' = Absent \/ (NoChange /\ acked' = acked)
    BY <1>7 DEF RollbackStep, SetAside, CopyBack, Restore, SyncRestored, Undo, Rolling, IInv, Apart
  <2> QED BY <1>2, <1>3, <2>1 DEF Durable!Next
<1>8. CASE PowerCut
  <2>1. PICK d \in survivors : disk' = d /\ acked' = acked
    BY <1>8 DEF PowerCut
  <2>2. acked <= d[Main] /\ (acked # Absent => d[Main] <= disk[Main])
    BY <2>1 DEF IInv, Keeps
  <2>3. CASE acked = Absent
    BY <1>2, <2>1, <2>3 DEF Durable!Next
  <2>4. CASE acked # Absent
    BY <1>1, <2>1, <2>2, <2>4 DEF Durable!Next, Durable!PowerCut, Durable!Promised
  <2> QED BY <2>3, <2>4
<1>9. CASE SyncBackup \/ UNCHANGED vars
  BY <1>9 DEF SyncBackup, vars
<1>10. CASE StartSave \/ WriteFails \/ Verify \/ CopyToBackup \/ RenameFails \/ Exit \/ Start
  BY <1>3, <1>10 DEF StartSave, WriteFails, Verify, CopyToBackup, RenameFails, Exit, Start
<1>11. CASE \E n \in Bak : RollBack(n)
  BY <1>3, <1>11 DEF RollBack
<1> QED BY <1>4, <1>5, <1>6, <1>7, <1>8, <1>9, <1>10, <1>11 DEF Next, SaveStep

(* What whoever opens the world file finds, and what was promised of it, behave as           *)
(* DurableWorld says: whatever fails, whatever overlaps, and wherever the machine stops.         *)
THEOREM WorldFileIsDurable == Spec => ImplementsDurableWorld
<1>1. Init => Durable!Init
  <2> SUFFICES ASSUME Init PROVE Durable!Init
    OBVIOUS
  <2>1. IInv
    BY InitHolds
  <2>2. disk[Main] \in Nat /\ acked = Absent
    BY <2>1, Present, FilesApart DEF IInv, Init
  <2> QED BY <2>2 DEF Durable!Init
<1>2. Spec => []IInv
  BY Invariant
<1> QED BY <1>1, <1>2, StepImplements, PTL DEF Spec, ImplementsDurableWorld, Durable!Spec
===============================================================================
