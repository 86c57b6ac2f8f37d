------------------------------- MODULE AuditLog -------------------------------
(***************************************************************************)
(* The record of what administrators did (admin/audit.rs): a file of one line  *)
(* per event, which is renamed to .1 when it has grown to a limit, the older     *)
(* segments each moving up by one and the oldest going.  The game task writes     *)
(* it; every step on the disk may fail, which is never more than a warning, and    *)
(* the process may end between any two.                                             *)
(*                                                                                  *)
(* An event is its number.  A line that cannot be read is Torn: one of which only    *)
(* a part was written, together with whatever is appended to it before a newline.     *)
(***************************************************************************)
EXTENDS Integers, Sequences

CONSTANTS
  MaxLines,  \* max_bytes, in lines
  Keep,      \* keep_segments
  Missing,   \* a file that does not exist
  Torn,      \* a line that cannot be read
  MaxEvents  \* bound of the model on the events recorded

ASSUME AuditAssumption ==
  /\ MaxLines \in Nat \ {0} /\ Keep \in Nat /\ MaxEvents \in Nat /\ Torn \notin Nat
  /\ Missing \notin Seq(Nat \cup {Torn})

Segments == 1 .. Keep

VARIABLES
  live,     \* the live file
  segment,  \* .1 to .Keep
  midLine,  \* the live file does not end in a newline
  call,     \* how far the call of append is: what it does next, and with which segment
  events,   \* events so far
  kept      \* history: those that were written whole, and to no torn line

logVars == <<live, segment, midLine, call, events, kept>>

Rest == [does |-> "nothing", n |-> 0]
Does(step) == call.does = step

(* ---- one call of append ------------------------------------------------------------ *)

(* record; rotate_if_needed looks at the size first.  One step: nothing else writes.   *)
Full == live # Missing /\ Len(live) >= MaxLines /\ Keep # 0

Record ==
  /\ Does("nothing") /\ events < MaxEvents
  /\ events' = events + 1
  /\ call' = [does |-> IF Full THEN "drop" ELSE "write", n |-> 0]
  /\ UNCHANGED <<live, segment, midLine, kept>>

(* remove_file of the oldest; whether it worked is not looked at. *)
DropOldest ==
  /\ Does("drop")
  /\ segment' \in {segment, [segment EXCEPT ![Keep] = Missing]}
  /\ call' = [does |-> "shift", n |-> Keep - 1]
  /\ UNCHANGED <<live, midLine, events, kept>>

(* A rename that fails ends the rotation, and the line goes to the live file. *)
AfterFailure_GoesOn == [call EXCEPT !.n = @ - 1]
AfterFailure == [does |-> "write", n |-> 0]

(* The segments move up by one, the last of them first. *)
ShiftSegment ==
  /\ Does("shift") /\ call.n >= 1
  /\ \/ /\ segment' = IF segment[call.n] = Missing THEN segment
                      ELSE [segment EXCEPT ![call.n + 1] = segment[call.n], ![call.n] = Missing]
        /\ call' = [call EXCEPT !.n = @ - 1]
     \/ segment[call.n] # Missing /\ UNCHANGED segment /\ call' = AfterFailure
  /\ UNCHANGED <<live, midLine, events, kept>>

RollLive ==
  /\ Does("shift") /\ call.n < 1
  /\ call' = [does |-> "write", n |-> 0]
  /\ \/ segment' = [segment EXCEPT ![1] = live] /\ live' = Missing /\ midLine' = FALSE
     \/ UNCHANGED <<segment, live, midLine>>
  /\ UNCHANGED <<events, kept>>

(* What is in the live file after a write that got as far as the newline or not. *)
Opened == IF live = Missing THEN << >> ELSE live
Extended(line) ==
  IF midLine THEN [Opened EXCEPT ![Len(Opened)] = Torn] ELSE Append(Opened, line)

Write ==
  /\ Does("write")
  /\ call' = Rest
  /\ \/ live' = Extended(events) /\ midLine' = FALSE
        /\ kept' = IF midLine THEN kept ELSE kept \cup {events}
     \/ live' = Extended(Torn) /\ midLine' = TRUE /\ UNCHANGED kept
     \/ UNCHANGED <<live, midLine, kept>>
  /\ UNCHANGED <<segment, events>>

(* The process ends where it is, and another goes on with the files. *)
CrashInCall ==
  /\ ~Does("nothing")
  /\ call' = Rest
  /\ UNCHANGED <<live, segment, midLine, events, kept>>

LogInit ==
  /\ live = Missing /\ segment = [n \in Segments |-> Missing]
  /\ midLine = FALSE /\ call = Rest /\ events = 0 /\ kept = {}

LogStep == Record \/ DropOldest \/ ShiftSegment \/ RollLive \/ Write \/ CrashInCall

LogSpec == LogInit /\ [][LogStep]_logVars

(* ---- the properties ------------------------------------------------------------------ *)

(* The segments stand one behind the other, the live file before them all. *)
Files == 0 .. Keep
LinesOf(file) == IF file = Missing THEN << >> ELSE file
Lines(n) == LinesOf(IF n = 0 THEN live ELSE segment[n])
EventsIn(n) == {Lines(n)[i] : i \in DOMAIN Lines(n)} \ {Torn}

(* What can be read of the log. *)
History == UNION {EventsIn(n) : n \in Files}

(* "A failure part-way leaves a shorter chain rather than a segment that is half of    *)
(* two different logs."  Whatever fails and wherever the process ends, what can be      *)
(* read is in order and nothing is there twice, from line to line of a file and from    *)
(* a segment to the ones before it; and it is the end of what was written, with nothing  *)
(* missing after an event that is still there.                                            *)
LinesInOrder ==
  \A n \in Files : \A i, j \in DOMAIN Lines(n) :
    (i < j /\ Torn \notin {Lines(n)[i], Lines(n)[j]}) => Lines(n)[i] < Lines(n)[j]
FilesInOrder ==
  \A m, n \in Files : m > n => \A e \in EventsIn(m), f \in EventsIn(n) : e < f
NothingMissing ==
  /\ History \subseteq kept
  /\ \A e \in History, f \in kept : f > e => f \in History
HistoryIsAnEnd == LinesInOrder /\ FilesInOrder /\ NothingMissing
===============================================================================
