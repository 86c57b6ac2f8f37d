---------------------------- MODULE Shutdown_proofs ----------------------------
(***************************************************************************)
(* What Shutdown promises, for any set of connections, with and without a   *)
(* terminal: the state is well typed, main does not return before the world  *)
(* is saved, and a crash is reported as a crash.                              *)
(***************************************************************************)
EXTENDS Shutdown, TLAPS

(* The game task is over only after its save; main that was not woken by a signal was  *)
(* woken by the end of the game task; once main has returned the game task is over and  *)
(* what it left behind is what main looked at.                                           *)
EndedIsSaved  == game = "ended" => saved
WokenByGame   == main # "serving" /\ ~signalled => game = "ended"
ReturnedAfter == main = "returned" => game = "ended"
SwitchStops   == switch => stopping

IInv == TypeOK /\ EndedIsSaved /\ WokenByGame /\ ReturnedAfter /\ SwitchStops /\ CrashIsReported

LEMMA InitHolds == Init => IInv
BY DEF Init, IInv, TypeOK, EndedIsSaved, WokenByGame, ReturnedAfter, SwitchStops,
       CrashIsReported, Holders, Tasks

(* A connection is none of the tasks that main starts. *)
LEMMA ClientsApart == \A c \in Clients : c \notin Tasks /\ c # "main"
BY ApartAssumption

(* Only tasks that hold a sender are ever waiting to be dropped. *)
LEMMA DroppedHolds ==
  ASSUME TypeOK, NEW t \in aborted
  PROVE  Dropped(t) \subseteq Tasks \cap (senders \ {t})
BY DEF TypeOK, Dropped, Tasks

LEMMA StepHolds == IInv /\ [Next]_vars => IInv'
<1> SUFFICES ASSUME IInv, [Next]_vars PROVE IInv'
  OBVIOUS
<1> USE DEF IInv, EndedIsSaved, WokenByGame, ReturnedAfter, SwitchStops, CrashIsReported
<1>1. ASSUME NEW c \in Clients, Accept(c) PROVE IInv'
  BY <1>1 DEF Accept, TypeOK, Holders
<1>2. ASSUME NEW c \in Clients, ClientEnds(c) PROVE IInv'
  BY <1>2, ClientsApart DEF ClientEnds, TypeOK, Holders
<1>3. ASSUME NEW asks \in BOOLEAN, ConsoleEnds(asks) PROVE IInv'
  BY <1>3 DEF ConsoleEnds, TypeOK, Holders
<1>4. ASSUME NEW asks \in BOOLEAN, AskToStop(asks) PROVE IInv'
  BY <1>4 DEF AskToStop, TypeOK, Holders
<1>5. ASSUME NEW t \in Tasks, TaskDropped(t) PROVE IInv'
  <2>1. Dropped(t) \subseteq Tasks \cap (senders \ {t})
    BY <1>5, DroppedHolds DEF TaskDropped
  <2> QED
    BY <1>5, <2>1 DEF TaskDropped, TypeOK, Holders
<1>6. CASE TogglePanel
  BY <1>6 DEF TogglePanel, TypeOK, Holders, Tasks
<1>7. CASE Panics
  BY <1>7 DEF Panics, LeavesLoop, TypeOK, Holders
<1>8. CASE Signal
  BY <1>8 DEF Signal, TypeOK, Holders
<1>9. CASE SeesStop
  BY <1>9 DEF SeesStop, LeavesLoop, TypeOK, Holders
<1>10. CASE ChannelCloses
  BY <1>10 DEF ChannelCloses, LeavesLoop, TypeOK, Holders
<1>11. CASE ShutdownSave
  BY <1>11 DEF ShutdownSave, TypeOK, Holders
<1>12. CASE SeesGameEnd
  BY <1>12 DEF SeesGameEnd, TypeOK, Holders
<1>13. CASE WindsUp
  BY <1>13 DEF WindsUp, AbortedByMain, TypeOK, Holders, Tasks
<1>14. CASE Returns
  BY <1>14 DEF Returns, MayReturn, Outcome, TypeOK, Holders
<1>15. CASE UNCHANGED vars
  BY <1>15 DEF vars, TypeOK, Holders
<1> QED
  BY <1>1, <1>2, <1>3, <1>4, <1>5, <1>6, <1>7, <1>8, <1>9, <1>10, <1>11, <1>12, <1>13, <1>14,
     <1>15 DEF Next, GameStep, MainStep

LEMMA Inductive == Safety => []IInv
<1>1. Init => IInv
  BY InitHolds
<1>2. IInv /\ [Next]_vars => IInv'
  BY StepHolds
<1> QED
  BY <1>1, <1>2, PTL DEF Safety

(* Type correctness of the whole state, for main.rs and the tasks it starts. *)
THEOREM TypeCorrect == Safety => []TypeOK
<1>1. IInv => TypeOK
  BY DEF IInv
<1> QED
  BY <1>1, Inductive, PTL

(* main never returns, dropping the runtime, before the shutdown save of GameServer::run:  *)
(* whoever is connected, and however signals, stops, panics and switches meet.             *)
THEOREM AlwaysSaved == Safety => []SavedBeforeReturn
<1>1. IInv => SavedBeforeReturn
  BY DEF IInv, ReturnedAfter, EndedIsSaved, SavedBeforeReturn
<1> QED
  BY <1>1, Inductive, PTL

(* main fails exactly after a panic the game task caught, and restarts into another world   *)
(* only when a switch was asked for.                                                         *)
THEOREM CrashesReported == Safety => []CrashIsReported
<1>1. IInv => CrashIsReported
  BY DEF IInv
<1> QED
  BY <1>1, Inductive, PTL
===============================================================================
