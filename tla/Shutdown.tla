------------------------------- MODULE Shutdown -------------------------------
(***************************************************************************)
(* How the process ends (main.rs, game/server/tick.rs, panel/mod.rs,         *)
(* console.rs, net/connection.rs).  The game task leaves its loop when it is   *)
(* asked to stop, when something panics, or when the event channel closes,    *)
(* which takes every task that holds a sender of it to have dropped it.  A     *)
(* signal asks nobody to stop: main aborts the tasks it knows, drops its own   *)
(* sender, and waits for the game task, which saves the world on its way out.  *)
(***************************************************************************)
EXTENDS Integers, FiniteSets

CONSTANTS
  Clients,   \* connections; one may come back
  Sticky     \* the console has a terminal: a blocking thread reads its keys

ASSUME ClientsAssumption == IsFiniteSet(Clients)
ASSUME StickyAssumption  == Sticky \in BOOLEAN

VARIABLES
  senders,    \* whoever holds a sender of the event channel
  aborted,    \* tasks that were told to abort and have not been dropped yet
  game,       \* the game task
  stopping,   \* GameServer.stopping
  switch,     \* pending_world_switch
  panicked,   \* the game task caught a panic
  main,       \* where main stands
  signalled,  \* it was a signal that ended its select: still_running
  saved,      \* the shutdown save was made
  end         \* what main returned

vars == <<senders, aborted, game, stopping, switch, panicked, main, signalled, saved, end>>

Tasks   == {"listener", "console", "supervisor", "panel"}
Holders == {"main"} \cup Tasks \cup Clients

ASSUME ApartAssumption == Clients \cap ({"main"} \cup Tasks) = {}

(* ---- the tasks that hold a sender -------------------------------------------------- *)

Accept(c) ==
  /\ "listener" \in senders /\ c \notin senders
  /\ senders' = senders \cup {c}
  /\ UNCHANGED <<aborted, game, stopping, switch, panicked, main, signalled, saved, end>>

(* The read loop of a connection ends: the client left, or was idle for too long, or its  *)
(* next frame found the game task gone.  A kick does not end it.                           *)
ClientEnds(c) ==
  /\ c \in senders
  /\ senders' = senders \ {c}
  /\ UNCHANGED <<aborted, game, stopping, switch, panicked, main, signalled, saved, end>>

(* The end of its input; for a terminal, a key that finds the channel closed or that asks   *)
(* to stop.                                                                                  *)
ConsoleEnds(asksToStop) ==
  /\ "console" \in senders
  /\ asksToStop => game = "running"
  /\ Sticky => asksToStop \/ game = "ended"
  /\ senders' = senders \ {"console"} /\ aborted' = aborted \ {"console"}
  /\ stopping' = (stopping \/ asksToStop)
  /\ UNCHANGED <<game, switch, panicked, main, signalled, saved, end>>

(* The console's panel command reaches supervise, which starts the panel or aborts it.       *)
TogglePanel ==
  /\ game = "running" /\ "supervisor" \in senders
  /\ "panel" \notin aborted
  /\ \/ /\ "panel" \in senders
        /\ aborted' = aborted \cup {"panel"}
        /\ UNCHANGED senders
     \/ /\ "panel" \notin senders
        /\ senders' = senders \cup {"panel"}
        /\ UNCHANGED aborted
  /\ UNCHANGED <<game, stopping, switch, panicked, main, signalled, saved, end>>

(* An aborted task is dropped when it next waits, and its sender with it.  Dropping supervise *)
(* drops its PanelHandle, which aborts the panel.  A blocking thread cannot be aborted.        *)
Dropped_Detaches(t) == aborted \ {t}
Dropped(t) ==
  IF t = "supervisor" THEN (aborted \ {t}) \cup ({"panel"} \cap senders) ELSE aborted \ {t}

TaskDropped(t) ==
  /\ t \in aborted
  /\ t = "console" => ~Sticky
  /\ senders' = senders \ {t}
  /\ aborted' = Dropped(t)
  /\ UNCHANGED <<game, stopping, switch, panicked, main, signalled, saved, end>>

(* ---- the game task ------------------------------------------------------------------------ *)

(* stop at a console; a rollback; or the panel switching worlds.                               *)
AskToStop(toSwitch) ==
  /\ game = "running"
  /\ toSwitch => "panel" \in senders
  /\ stopping' = TRUE
  /\ switch' = (switch \/ toSwitch)
  /\ UNCHANGED <<senders, aborted, game, panicked, main, signalled, saved, end>>

LeavesLoop == game = "running" /\ game' = "saving"

SeesStop ==
  /\ stopping /\ LeavesLoop
  /\ UNCHANGED <<senders, aborted, stopping, switch, panicked, main, signalled, saved, end>>

ChannelCloses ==
  /\ senders = {} /\ LeavesLoop
  /\ UNCHANGED <<senders, aborted, stopping, switch, panicked, main, signalled, saved, end>>

(* Caught by the loop, for a packet or for a tick. *)
Panics ==
  /\ LeavesLoop
  /\ panicked' = TRUE
  /\ UNCHANGED <<senders, aborted, stopping, switch, main, signalled, saved, end>>

ShutdownSave ==
  /\ game = "saving"
  /\ game' = "ended" /\ saved' = TRUE
  /\ UNCHANGED <<senders, aborted, stopping, switch, panicked, main, signalled, end>>

(* ---- main ------------------------------------------------------------------------------------ *)

Signal ==
  /\ main = "serving"
  /\ main' = "winding" /\ signalled' = TRUE
  /\ UNCHANGED <<senders, aborted, game, stopping, switch, panicked, saved, end>>

SeesGameEnd ==
  /\ main = "serving" /\ game = "ended"
  /\ main' = "winding"
  /\ UNCHANGED <<senders, aborted, game, stopping, switch, panicked, signalled, saved, end>>

(* abort three tasks, drop the sender. *)
AbortedByMain == {"listener", "console", "supervisor"}

WindsUp ==
  /\ main = "winding"
  /\ aborted' = aborted \cup (AbortedByMain \cap senders)
  /\ senders' = senders \ {"main"}
  /\ main' = "waiting"
  /\ UNCHANGED <<game, stopping, switch, panicked, signalled, saved, end>>

(* Wait for the game task; then fail after a crash, or restart into the other world.            *)
MayReturn_AtOnce == TRUE
MayReturn_PollsTwice == signalled /\ game = "ended"
MayReturn == signalled => game = "ended"

Outcome == IF panicked THEN "failure" ELSE IF switch THEN "relaunch" ELSE "success"

Returns ==
  /\ main = "waiting" /\ MayReturn
  /\ main' = "returned" /\ end' = Outcome
  /\ UNCHANGED <<senders, aborted, game, stopping, switch, panicked, signalled, saved>>

(* ---- the whole system -------------------------------------------------------------------------- *)

(* The panel may have been started at boot. *)
Init ==
  /\ senders \in {{"main", "listener", "console", "supervisor"} \cup p : p \in SUBSET {"panel"}}
  /\ aborted = {} /\ game = "running" /\ stopping = FALSE /\ switch = FALSE
  /\ panicked = FALSE /\ main = "serving" /\ signalled = FALSE /\ saved = FALSE /\ end = "none"

GameStep == SeesStop \/ ChannelCloses \/ ShutdownSave
MainStep == SeesGameEnd \/ WindsUp \/ Returns

Next ==
  \/ \E c \in Clients : Accept(c) \/ ClientEnds(c)
  \/ \E asks \in BOOLEAN : ConsoleEnds(asks) \/ AskToStop(asks)
  \/ \E t \in Tasks : TaskDropped(t)
  \/ TogglePanel \/ Panics \/ Signal
  \/ GameStep \/ MainStep

(* Tasks that can run do, and an aborted task is dropped. *)
Fairness == WF_vars(GameStep) /\ WF_vars(MainStep) /\ \A t \in Tasks : WF_vars(TaskDropped(t))

Safety == Init /\ [][Next]_vars
Spec   == Safety /\ Fairness

(* ---- properties ---------------------------------------------------------------------------------- *)

(* Type correctness of the whole state. *)
TypeOK ==
  /\ senders \subseteq Holders /\ aborted \subseteq Tasks \cap senders
  /\ game \in {"running", "saving", "ended"} /\ main \in {"serving", "winding", "waiting", "returned"}
  /\ stopping \in BOOLEAN /\ switch \in BOOLEAN /\ panicked \in BOOLEAN /\ signalled \in BOOLEAN
  /\ saved \in BOOLEAN /\ end \in {"none", "success", "failure", "relaunch"}

(* main does not return, and drop the runtime, before the world is saved: whatever ends the   *)
(* process, a signal, a stop, a panic or several at once.                                       *)
SavedBeforeReturn == main = "returned" => saved

(* A crash is reported as one, also while a switch of worlds is pending; and only a switch       *)
(* that was asked for restarts the process.                                                       *)
CrashIsReported ==
  main = "returned" => (end = "failure" <=> panicked) /\ (end = "relaunch" => switch /\ stopping)

(* A stop asked for inside the game ends the process whoever is connected: the event channel     *)
(* need not close for it.                                                                         *)
StopStops == stopping ~> main = "returned"

(* A signal ends the process once the clients are gone for good, with the panel on, off or    *)
(* toggled: no task that main started keeps the channel open.                                  *)
SignalStopsWhenEmptied ==
  <>[](senders \cap Clients = {}) => (signalled ~> main = "returned")

(* "A real SIGTERM stops the server with a shutdown save." *)
SignalStops == signalled ~> main = "returned"
===============================================================================
