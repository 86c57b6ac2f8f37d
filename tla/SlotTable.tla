------------------------------ MODULE SlotTable ------------------------------
(***************************************************************************)
(* The player table of the game task, and the connection tasks that feed    *)
(* it.  One task per socket (net/connection.rs, serve) asks the game task    *)
(* for a slot, forwards the frames it reads as Packet events stamped with    *)
(* the slot and the epoch it was given, and ends with one Leave.  The game   *)
(* task (game/server) owns the table and handles one event at a time; it     *)
(* may take a player out of its slot at any moment without the connection    *)
(* task hearing of it, and hands the slot to the next Join, so the events of *)
(* a connection that lost its slot (a ghost) are still under way when        *)
(* somebody else has it.                                                     *)
(*                                                                           *)
(* Modelled: slot allocation and epochs, the handshake (version, password,   *)
(* name, world, tiles, spawn), the guest-list and ban check, the section     *)
(* queue of a joining client, the reaper of stalled handshakes, kicks, and   *)
(* the dropping of clients whose outbound queue is full.  A handler whose    *)
(* payload does not decode changes nothing and is not enumerated.            *)
(***************************************************************************)
EXTENDS Integers, Sequences, FiniteSets

CONSTANTS
  Conns,        \* the sockets accepted in one run
  MaxPlayers,   \* config.max_players: the length of the player table
  EpochMax,     \* the largest slot epoch (u32::MAX in the code)
  QueueDepth,   \* capacity of the event channel into the game task
  StreamSize,   \* sections queued by one SpawnTileData
  MaxPending,   \* bound of the model on one client's section queue
  PasswordSet,  \* config.password is not empty
  ReaperOn,     \* config.handshake_timeout_secs is not 0
  Messages,     \* the frames a client may send: records [id, arg]
  Bannable,     \* the names an operator may ban in one run
  DefaultName(_), \* "Player <slot>", the name a slot starts with
  Nobody        \* no connection

Slots  == 0 .. MaxPlayers - 1
NoSlot == -1

(* How far a connection has got: ConnState, in the order the code compares. *)
Greeting     == 0
SlotAssigned == 1
Identified   == 2
WorldSent    == 3
TilesSent    == 4
Playing      == 5

NoMsg == [id |-> "None", arg |-> ""]
Names == {m.arg : m \in {m \in Messages : m.id = "SyncPlayer"}}
           \cup {DefaultName(s) : s \in Slots} \cup {""}

ASSUME ConnsAssumption     == IsFiniteSet(Conns) /\ Nobody \notin Conns
ASSUME MaxPlayersAssumption == MaxPlayers \in Nat \ {0}
ASSUME EpochAssumption     == EpochMax \in Nat \ {0}
ASSUME QueueAssumption     == QueueDepth \in Nat \ {0}
ASSUME StreamAssumption    == /\ StreamSize \in Nat \ {0}
                              /\ MaxPending \in Nat
                              /\ StreamSize <= MaxPending
ASSUME SwitchAssumption    == PasswordSet \in BOOLEAN /\ ReaperOn \in BOOLEAN

VARIABLES
  task,      \* per connection: where its serve() is
  assigned,  \* per connection: the slot and epoch its task stamps on events
  events,    \* the channel into the game task
  players,   \* the player table
  epochs,    \* slot_epochs
  banned,    \* names the admin store turns away
  issued,    \* history: how often each slot was handed out
  proved,    \* history: connections whose own right password was handled
  joinTails  \* history: InitialSpawn frames sent to each connection

vars == <<task, assigned, events, players, epochs, banned, issued, proved, joinTails>>

Player ==
  [conn : Conns \cup {Nobody}, state : Greeting .. Playing, greeted : BOOLEAN,
   password_ok : BOOLEAN, name : Names, pending : 0 .. MaxPending, overdue : BOOLEAN]

Vacant ==
  [conn |-> Nobody, state |-> Greeting, greeted |-> FALSE, password_ok |-> FALSE,
   name |-> "", pending |-> 0, overdue |-> FALSE]

(* Player::new: what a freshly seated connection starts from. *)
NewPlayer(c, s) == [Vacant EXCEPT !.conn = c, !.name = DefaultName(s)]

Event ==
  [kind : {"Join", "Packet", "Leave"}, conn : Conns, slot : Slots \cup {NoSlot},
   epoch : 0 .. EpochMax, msg : Messages \cup {NoMsg}]

Occupied(P, s)  == P[s].conn # Nobody
PlayingSlots(P) == {s \in Slots : Occupied(P, s) /\ P[s].state = Playing}

(* ---- what the game task calls from many places ---------------------------- *)

(* advance_to: the handshake never goes backwards. *)
AdvanceTo(p, state) == IF state > p.state THEN [p EXCEPT !.state = state] ELSE p

(* disconnect: the slots of D are empty; epochs do not move. *)
Disconnect(P, D) == [s \in Slots |-> IF s \in D THEN Vacant ELSE P[s]]

(* Every send can find a full or closed queue and drop its recipient, whose    *)
(* departure is broadcast and can drop others in turn: a handler that sent to  *)
(* slot s or broadcast to the players of P may leave any of them out.          *)
Sent(P, s) ==
  \E D \in SUBSET (PlayingSlots(P) \cup {s}) : players' = Disconnect(P, D)

SlotEpochCurrent(slot, epoch) == epochs[slot] = epoch

NextEpoch_Stuck(e) == e
NextEpoch(e) == IF e = EpochMax THEN 0 ELSE e + 1

HandshakeIds == {"Hello", "SendPassword", "SyncPlayer", "RequestWorldData",
                 "SpawnTileData", "PlayerSpawn", "ClientUuid"}

HandshakeAllows_AnyPassword(p, id) ==
  \/ p.state = Playing
  \/ IF p.greeted THEN id \in HandshakeIds ELSE id = "Hello"
HandshakeAllows(p, id) ==
  \/ p.state = Playing
  \/ IF ~p.greeted THEN id = "Hello"
     ELSE IF ~p.password_ok THEN id = "SendPassword"
     ELSE id \in HandshakeIds

(* ---- the connection tasks --------------------------------------------------- *)

Send(e) == Len(events) < QueueDepth /\ events' = Append(events, e)

(* serve: ask the game task for a slot. *)
Connect(c) ==
  /\ task[c] = "idle"
  /\ Send([kind |-> "Join", conn |-> c, slot |-> NoSlot, epoch |-> 0, msg |-> NoMsg])
  /\ task' = [task EXCEPT ![c] = "joining"]
  /\ UNCHANGED <<assigned, players, epochs, banned, issued, proved, joinTails>>

(* read_loop: forward one frame, stamped with what this task was assigned. *)
Forward(c, m) ==
  /\ task[c] = "serving"
  /\ Send([kind |-> "Packet", conn |-> c, slot |-> assigned[c].slot,
           epoch |-> assigned[c].epoch, msg |-> m])
  /\ UNCHANGED <<task, assigned, players, epochs, banned, issued, proved, joinTails>>

(* read_loop ends (client closed, idle, too slow, malformed frame), and serve  *)
(* reports it.                                                                 *)
Close(c) ==
  /\ task[c] = "serving"
  /\ Send([kind |-> "Leave", conn |-> c, slot |-> assigned[c].slot,
           epoch |-> assigned[c].epoch, msg |-> NoMsg])
  /\ task' = [task EXCEPT ![c] = "left"]
  /\ UNCHANGED <<assigned, players, epochs, banned, issued, proved, joinTails>>

(* ---- the game task: one event ------------------------------------------------ *)

Receive(kind) == events # << >> /\ Head(events).kind = kind /\ events' = Tail(events)

(* allocate_slot: the first free slot, under a new epoch; or "server is full". *)
HandleJoin ==
  /\ Receive("Join")
  /\ LET c == Head(events).conn IN
     \/ \E s \in Slots :
          /\ ~Occupied(players, s)
          /\ \A t \in Slots : t < s => Occupied(players, t)
          /\ players'  = [players EXCEPT ![s] = NewPlayer(c, s)]
          /\ epochs'   = [epochs EXCEPT ![s] = NextEpoch(@)]
          /\ assigned' = [assigned EXCEPT ![c] = [slot |-> s, epoch |-> NextEpoch(epochs[s])]]
          /\ task'     = [task EXCEPT ![c] = "serving"]
          /\ issued'   = [issued EXCEPT ![s] = @ + 1]
     \/ /\ \A s \in Slots : Occupied(players, s)
        /\ task' = [task EXCEPT ![c] = "refused"]
        /\ UNCHANGED <<players, epochs, assigned, issued>>
  /\ UNCHANGED <<banned, proved, joinTails>>

(* A Packet or a Leave whose epoch is stale is a ghost's, and is dropped. *)
DropGhost ==
  /\ Receive("Packet") \/ Receive("Leave")
  /\ ~SlotEpochCurrent(Head(events).slot, Head(events).epoch)
  /\ UNCHANGED <<task, assigned, players, epochs, banned, issued, proved, joinTails>>

(* remove_player; for a slot already empty it does nothing. *)
HandleLeave ==
  /\ Receive("Leave")
  /\ LET s == Head(events).slot IN
     /\ SlotEpochCurrent(s, Head(events).epoch)
     /\ Sent(Disconnect(players, {s}), s)
  /\ UNCHANGED <<task, assigned, epochs, banned, issued, proved, joinTails>>

(* A current packet for a slot nobody is in. *)
HandleVacant ==
  /\ Receive("Packet")
  /\ SlotEpochCurrent(Head(events).slot, Head(events).epoch)
  /\ ~Occupied(players, Head(events).slot)
  /\ UNCHANGED <<task, assigned, players, epochs, banned, issued, proved, joinTails>>

(* The head of the channel is message id for s, from whoever holds s. *)
Delivered(id, s) ==
  /\ Receive("Packet")
  /\ Head(events).slot = s /\ Head(events).msg.id = id
  /\ SlotEpochCurrent(s, Head(events).epoch)
  /\ Occupied(players, s)

Accepted(id, s) == Delivered(id, s) /\ HandshakeAllows(players[s], id)

Kick(s) == Sent(Disconnect(players, {s}), s)

(* handshake_allows refuses: "Your client sent that too early." *)
RefuseEarly ==
  /\ \E s \in Slots, id \in HandshakeIds \cup {"Play"} :
       /\ Delivered(id, s)
       /\ ~HandshakeAllows(players[s], id)
       /\ Kick(s)
  /\ UNCHANGED <<task, assigned, epochs, banned, issued, proved, joinTails>>

(* accept_player *)
AcceptPlayer(p) == AdvanceTo([p EXCEPT !.password_ok = TRUE], SlotAssigned)

OnHello ==
  /\ \E s \in Slots :
       /\ Accepted("Hello", s)
       /\ LET p == players[s]
              greeted == [p EXCEPT !.greeted = TRUE] IN
          \/ p.state # Greeting /\ UNCHANGED players
          \/ /\ p.state = Greeting /\ Head(events).msg.arg = "unsupported"
             /\ Kick(s)
          \/ /\ p.state = Greeting /\ Head(events).msg.arg = "supported"
             /\ Sent([players EXCEPT ![s] =
                        IF PasswordSet THEN greeted ELSE AcceptPlayer(greeted)], s)
  /\ UNCHANGED <<task, assigned, epochs, banned, issued, proved, joinTails>>

(* on_password: an address that is being throttled is refused whatever it offers. *)
OnPassword ==
  /\ \E s \in Slots :
       /\ Accepted("SendPassword", s)
       /\ LET p     == players[s]
              ready == PasswordSet /\ p.greeted /\ p.state = Greeting
              right == Head(events).msg.arg = "right" IN
          \/ ~ready /\ UNCHANGED <<players, proved>>
          \/ ready /\ Kick(s) /\ UNCHANGED proved
          \/ /\ ready /\ right
             /\ Sent([players EXCEPT ![s] = AcceptPlayer(p)], s)
             /\ proved' = proved \cup {Head(events).conn}
  /\ UNCHANGED <<task, assigned, epochs, banned, issued, joinTails>>

(* Somebody else is already here under this name. *)
NameTaken_Never(s, wanted) == FALSE
NameTaken(s, wanted) ==
  wanted # "" /\ \E t \in Slots : t # s /\ Occupied(players, t) /\ players[t].name = wanted

OnSyncPlayer ==
  /\ \E s \in Slots :
       /\ Accepted("SyncPlayer", s)
       /\ LET p      == players[s]
              wanted == Head(events).msg.arg
              named  == IF wanted = "" THEN p.name ELSE wanted IN
          IF NameTaken(s, wanted) \/ named \in banned
          THEN Kick(s)
          ELSE Sent([players EXCEPT ![s] =
                       AdvanceTo([p EXCEPT !.name = named], Identified)], s)
  /\ UNCHANGED <<task, assigned, epochs, banned, issued, proved, joinTails>>

(* on_uuid: the last identity has arrived, so the ban check runs again. *)
OnClientUuid ==
  /\ \E s \in Slots :
       /\ Accepted("ClientUuid", s)
       /\ IF players[s].name \in banned THEN Kick(s) ELSE UNCHANGED players
  /\ UNCHANGED <<task, assigned, epochs, banned, issued, proved, joinTails>>

OnRequestWorldData ==
  /\ \E s \in Slots :
       /\ Accepted("RequestWorldData", s)
       /\ Sent([players EXCEPT ![s] = AdvanceTo(players[s], WorldSent)], s)
  /\ UNCHANGED <<task, assigned, epochs, banned, issued, proved, joinTails>>

(* on_spawn_tile_data replaces the section queue; sections_for always holds     *)
(* the block around the spawn point, so the queue is not empty.                 *)
OnSpawnTileData ==
  /\ \E s \in Slots :
       /\ Accepted("SpawnTileData", s)
       /\ Sent([players EXCEPT ![s].pending = StreamSize], s)
  /\ UNCHANGED <<task, assigned, epochs, banned, issued, proved, joinTails>>

OnPlayerSpawn ==
  /\ \E s \in Slots :
       /\ Accepted("PlayerSpawn", s)
       /\ IF players[s].state < TilesSent
          THEN UNCHANGED players
          ELSE Sent([players EXCEPT ![s] = AdvanceTo(players[s], Playing)], s)
  /\ UNCHANGED <<task, assigned, epochs, banned, issued, proved, joinTails>>

(* Any frame of a player in the world: what it does is relayed to the others. *)
OnPlay ==
  /\ \E s \in Slots : Accepted("Play", s) /\ Sent(players, s)
  /\ UNCHANGED <<task, assigned, epochs, banned, issued, proved, joinTails>>

(* slot_named finds nobody who is still joining. *)
SlotsNamed(n) == {s \in PlayingSlots(players) : players[s].name = n}

(* /kick and the panel's kick. *)
OperatorKick ==
  /\ \E s \in PlayingSlots(players) : Kick(s)
  /\ UNCHANGED <<task, assigned, events, epochs, banned, issued, proved, joinTails>>

(* /ban name, and the panel's: record it, say so, remove who stands here. *)
Ban(n) ==
  /\ n \notin banned
  /\ banned' = banned \cup {n}
  /\ IF SlotsNamed(n) = {}
     THEN \E D \in SUBSET PlayingSlots(players) : players' = Disconnect(players, D)
     ELSE \E s \in SlotsNamed(n) : Kick(s)
  /\ UNCHANGED <<task, assigned, events, epochs, issued, proved, joinTails>>

Unban(n) ==
  /\ n \in banned
  /\ banned' = banned \ {n}
  /\ UNCHANGED <<task, assigned, events, players, epochs, issued, proved, joinTails>>

(* ---- the game task: one tick -------------------------------------------------- *)

(* connected_at.elapsed() passes the deadline. *)
DeadlinePasses(s) ==
  /\ ReaperOn /\ Occupied(players, s) /\ ~players[s].overdue
  /\ players[s].state # Playing
  /\ players' = [players EXCEPT ![s].overdue = TRUE]
  /\ UNCHANGED <<task, assigned, events, epochs, banned, issued, proved, joinTails>>

Stalled_GreetingOnly == {s \in Slots : Occupied(players, s) /\ players[s].overdue
                                        /\ players[s].state = Greeting}
Stalled == {s \in Slots : Occupied(players, s) /\ players[s].overdue
                           /\ players[s].state # Playing}

(* check_player_sections: players who crossed into new ground are owed sections. *)
Walked(P, W) ==
  [s \in Slots |-> IF s \in W THEN [P[s] EXCEPT !.pending = @ + 1] ELSE P[s]]

(* drain_section_streams: slots in ascending order under one shared budget.      *)
(* Slot last is where the budget ran out, with left sections to go; a queue that *)
(* empties hands on to the next slot without asking the budget.                  *)
Drained(P, last, left) ==
  [s \in Slots |-> IF s < last THEN [P[s] EXCEPT !.pending = 0]
                      ELSE IF s = last THEN [P[s] EXCEPT !.pending = left]
                      ELSE P[s]]

Streaming(P) == {s \in Slots : P[s].pending > 0}

DrainEnds(P, last, left) ==
  /\ last \in Streaming(P) /\ left < P[last].pending
  /\ left = 0 => \A s \in Streaming(P) : s <= last

(* finish_join_stream runs for a slot whose queue this drain emptied. *)
Emptied(P, Q) == {s \in Slots : P[s].pending > 0 /\ Q[s].pending = 0}

FinishesJoin_Always(p) == TRUE
FinishesJoin(p) == p.state < TilesSent

Finished(P, F) == [s \in Slots |-> IF s \in F THEN AdvanceTo(P[s], TilesSent) ELSE P[s]]

CountTails(P, F) ==
  [c \in Conns |-> joinTails[c] + Cardinality({s \in F : P[s].conn = c})]

(* The part of a tick that touches the table: every 60th tick reaps, then       *)
(* sections are queued and drained.  Any send of the tick may drop its          *)
(* recipient.                                                                    *)
TickOver(reaping) ==
  LET P == IF reaping THEN Disconnect(players, Stalled) ELSE players IN
  /\ \E W \in SUBSET {s \in PlayingSlots(P) : P[s].pending < MaxPending} :
       LET R == Walked(P, W) IN
       IF Streaming(R) = {}
       THEN /\ \E D \in SUBSET PlayingSlots(R) : players' = Disconnect(R, D)
            /\ UNCHANGED joinTails
       ELSE \E last \in Slots, left \in 0 .. MaxPending :
              /\ DrainEnds(R, last, left)
              /\ LET Q == Drained(R, last, left)
                     F == {s \in Emptied(R, Q) : FinishesJoin(Q[s])} IN
                 /\ joinTails' = CountTails(Q, F)
                 /\ \E D \in SUBSET (PlayingSlots(Q) \cup Streaming(R)) :
                      players' = Disconnect(Finished(Q, F), D)
  /\ UNCHANGED <<task, assigned, events, epochs, banned, issued, proved>>

Reap == TickOver(TRUE)
Tick == TickOver(FALSE)

(* ---- the whole system ---------------------------------------------------------- *)

Init ==
  /\ task      = [c \in Conns |-> "idle"]
  /\ assigned  = [c \in Conns |-> [slot |-> NoSlot, epoch |-> 0]]
  /\ events    = << >>
  /\ players   = [s \in Slots |-> Vacant]
  /\ epochs    = [s \in Slots |-> 0]
  /\ banned    = {}
  /\ issued    = [s \in Slots |-> 0]
  /\ proved    = {}
  /\ joinTails = [c \in Conns |-> 0]

Packets == OnHello \/ OnPassword \/ OnSyncPlayer \/ OnClientUuid \/ OnRequestWorldData
             \/ OnSpawnTileData \/ OnPlayerSpawn \/ OnPlay

HandleEvent == HandleJoin \/ DropGhost \/ HandleLeave \/ HandleVacant \/ RefuseEarly \/ Packets

Next ==
  \/ \E c \in Conns : Connect(c) \/ Close(c) \/ \E m \in Messages : Forward(c, m)
  \/ HandleEvent
  \/ OperatorKick
  \/ \E n \in Bannable : Ban(n) \/ Unban(n)
  \/ \E s \in Slots : DeadlinePasses(s)
  \/ Reap
  \/ Tick

(* The runtime's select polls both of its branches, time passes, and the 60th    *)
(* tick comes round; nothing is assumed of the clients.                          *)
Fairness == /\ WF_vars(HandleEvent)
            /\ WF_vars(Reap)
            /\ \A s \in Slots : WF_vars(DeadlinePasses(s))

Safety == Init /\ [][Next]_vars
Spec   == Safety /\ Fairness

(* ---- properties ------------------------------------------------------------------ *)

(* Type correctness of the whole state.  Players, events and epochs stay in the    *)
(* ranges the code's types give them.                                               *)
TypeOK ==
  /\ task \in [Conns -> {"idle", "joining", "serving", "refused", "left"}]
  /\ assigned \in [Conns -> [slot : Slots \cup {NoSlot}, epoch : 0 .. EpochMax]]
  /\ events \in Seq(Event) /\ Len(events) <= QueueDepth
  /\ players \in [Slots -> Player]
  /\ epochs \in [Slots -> 0 .. EpochMax]
  /\ banned \subseteq Bannable
  /\ issued \in [Slots -> Nat]
  /\ proved \subseteq Conns
  /\ joinTails \in [Conns -> Nat]

(* No slot has been handed out more often than there are epochs. *)
NotWrapped == \A s \in Slots : issued[s] <= EpochMax

(* A ghost never acts for the newcomer: a packet or leave in flight whose epoch    *)
(* is still current was sent by whoever sits in the slot, unless the slot is        *)
(* empty.  The doc of remove_player promises this of the epoch check.               *)
GhostsAreHarmless ==
  NotWrapped =>
    \A i \in 1 .. Len(events) :
      LET e == events[i] IN
      (e.kind # "Join" /\ SlotEpochCurrent(e.slot, e.epoch) /\ Occupied(players, e.slot))
        => players[e.slot].conn = e.conn

(* With a password set, nobody is past the greeting unless their own connection    *)
(* offered it: not through a ghost's answer in the same slot, and not through a     *)
(* message that skips the prompt.                                                    *)
AdmittedByOwnPassword ==
  PasswordSet /\ NotWrapped =>
    \A s \in Slots :
      Occupied(players, s) /\ (players[s].password_ok \/ players[s].state > Greeting)
        => players[s].conn \in proved

(* The tail of the join stream, with its InitialSpawn, is sent at most once to a    *)
(* connection, however often it asks for tiles and however far it walks; and nobody  *)
(* is in the world who was not sent it first, on this connection.                     *)
JoinTailOnce ==
  /\ \A c \in Conns : joinTails[c] <= 1
  /\ \A s \in PlayingSlots(players) : joinTails[players[s].conn] = 1

(* Two players in the world never share a name ("Refuse the collision at the door"),   *)
(* unless it is one a slot starts with, which on_sync_player compares with nothing.       *)
NamesUnique ==
  \A s, t \in PlayingSlots(players) :
    players[s].name = players[t].name /\ s # t
      => \E u \in {s, t} : players[u].name = DefaultName(u)

(* The reaper gives every slot back: a connection that never finishes joining       *)
(* does not keep it, whatever it sends.                                              *)
SlotsComeBack ==
  \A s \in Slots, c \in Conns :
    (players[s].conn = c /\ players[s].state # Playing)
      ~> (players[s].conn # c \/ players[s].state = Playing)
=============================================================================
