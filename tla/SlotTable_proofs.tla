--------------------------- MODULE SlotTable_proofs ---------------------------
(***************************************************************************)
(* Proofs about SlotTable, for every number of connections and slots, every *)
(* channel depth and every width of the epoch.                               *)
(*                                                                           *)
(* The argument: as long as a slot has not been handed out more often than   *)
(* there are epochs, its epoch counts its occupants, so no two connections   *)
(* were ever given the same slot under the same epoch (StampsUnique).  Every *)
(* event in the channel carries what its sender was given (Stamped) and      *)
(* every occupant was given its slot under the epoch the slot has now        *)
(* (Seated).  An event whose epoch is current therefore comes from the       *)
(* occupant.                                                                 *)
(*                                                                           *)
(* A second invariant rests on the first: who is in a slot has been sent the  *)
(* tail of the join exactly if their state says so (Tails), and since nobody  *)
(* has two slots (Seated) a drain sends it to each once.                       *)
(***************************************************************************)
EXTENDS SlotTable, TLAPS, FiniteSetTheorems

Served(c) == task[c] \in {"serving", "left"}

(* While it has not wrapped, a slot's epoch is the number of its occupants. *)
CountsEpochs == \A s \in Slots : issued[s] <= EpochMax => epochs[s] = issued[s]

StampsIssued ==
  \A c \in Conns : Served(c) =>
    /\ assigned[c].slot \in Slots
    /\ issued[assigned[c].slot] <= EpochMax
         => assigned[c].epoch <= issued[assigned[c].slot]

StampsUnique ==
  \A c, d \in Conns :
    /\ Served(c) /\ Served(d)
    /\ assigned[c] = assigned[d]
    /\ issued[assigned[c].slot] <= EpochMax
    => c = d

(* A connection has at most one Join under way, and is waiting for its answer. *)
JoinOnce ==
  \A i \in 1 .. Len(events) : events[i].kind = "Join" =>
    /\ task[events[i].conn] = "joining"
    /\ \A j \in 1 .. Len(events) :
         events[j].kind = "Join" /\ events[j].conn = events[i].conn => i = j

Stamped ==
  \A i \in 1 .. Len(events) : events[i].kind # "Join" =>
    /\ Served(events[i].conn)
    /\ events[i].slot = assigned[events[i].conn].slot
    /\ events[i].epoch = assigned[events[i].conn].epoch

Seated ==
  \A s \in Slots : players[s].conn # Nobody =>
    /\ Served(players[s].conn)
    /\ assigned[players[s].conn].slot = s
    /\ assigned[players[s].conn].epoch = epochs[s]

(* Whoever got anywhere proved the password, and only they have a section queue. *)
Inside(p) == p.password_ok \/ p.state > Greeting

Admitted ==
  /\ \A s \in Slots : players[s].pending > 0 => players[s].conn # Nobody /\ Inside(players[s])
  /\ PasswordSet /\ NotWrapped =>
       \A s \in Slots : players[s].conn # Nobody /\ Inside(players[s])
                          => players[s].conn \in proved

Stamps == CountsEpochs /\ StampsIssued /\ StampsUnique /\ JoinOnce /\ Stamped /\ Seated

IInv == TypeOK /\ Stamps /\ Admitted

Empty(p) == p.conn = Nobody /\ ~Inside(p) /\ p.pending = 0

(* What a handler or a tick may do to one slot: empty it, or leave it to whoever   *)
(* has it, who gets inside only on a server without a password and is queued        *)
(* sections only when inside.                                                        *)
Evolves(p, q) ==
  \/ Empty(q)
  \/ /\ q.conn = p.conn
     /\ Inside(q) => Inside(p) \/ ~PasswordSet
     /\ Inside(p) => Inside(q)
     /\ q.pending > 0 => p.pending > 0 \/ (p.conn # Nobody /\ Inside(p))

(* ---- lemmas about the operators ------------------------------------------------- *)

LEMMA NamesHave == "" \in Names /\ \A s \in Slots : DefaultName(s) \in Names
BY DEF Names

LEMMA VacantType ==
  /\ Vacant \in Player
  /\ Vacant.conn = Nobody /\ Vacant.pending = 0 /\ ~Inside(Vacant)
<1>1. 0 \in Greeting .. Playing /\ 0 \in 0 .. MaxPending
  BY StreamAssumption DEF Greeting, Playing
<1>2. Vacant \in Player
  BY <1>1, NamesHave DEF Vacant, Player, Greeting
<1>3. Vacant.conn = Nobody /\ Vacant.pending = 0 /\ ~Inside(Vacant)
  BY DEF Vacant, Inside, Greeting
<1> QED BY <1>2, <1>3

LEMMA NewPlayerType ==
  ASSUME NEW c \in Conns, NEW s \in Slots
  PROVE  /\ NewPlayer(c, s) \in Player
         /\ NewPlayer(c, s).conn = c /\ NewPlayer(c, s).pending = 0 /\ ~Inside(NewPlayer(c, s))
<1> DEFINE v == [Vacant EXCEPT !.conn = c]
           w == [v EXCEPT !.name = DefaultName(s)]
<1>1. v \in Player /\ v.conn = c /\ v.pending = 0 /\ ~Inside(v)
  BY VacantType DEF Player, Inside
<1> HIDE DEF v
<1>2. w \in Player /\ w.conn = c /\ w.pending = 0 /\ ~Inside(w)
  BY <1>1, NamesHave DEF Player, Inside
<1>3. NewPlayer(c, s) = w
  BY DEF NewPlayer, v
<1> QED BY <1>2, <1>3

LEMMA AdvanceType ==
  ASSUME NEW p \in Player, NEW st \in Greeting .. Playing
  PROVE  /\ AdvanceTo(p, st) \in Player
         /\ AdvanceTo(p, st).conn = p.conn /\ AdvanceTo(p, st).pending = p.pending
         /\ Inside(p) => Inside(AdvanceTo(p, st))
<1> DEFINE q == [p EXCEPT !.state = st]
<1>1. q \in Player /\ q.conn = p.conn /\ q.pending = p.pending
      /\ q.state = st /\ q.password_ok = p.password_ok
  BY DEF Player
<1>2. p.state \in Nat /\ st \in Nat
  BY DEF Player, Greeting, Playing
<1>3. AdvanceTo(p, st) = IF st > p.state THEN q ELSE p
  BY DEF AdvanceTo
<1> HIDE DEF q
<1> QED BY <1>1, <1>2, <1>3 DEF Inside, Greeting

LEMMA AcceptType ==
  ASSUME NEW p \in Player
  PROVE  /\ AcceptPlayer(p) \in Player
         /\ AcceptPlayer(p).conn = p.conn /\ AcceptPlayer(p).pending = p.pending
         /\ Inside(AcceptPlayer(p))
<1> DEFINE q == [p EXCEPT !.password_ok = TRUE]
<1>1. q \in Player /\ q.conn = p.conn /\ q.pending = p.pending /\ Inside(q)
  BY DEF Player, Inside
<1>2. SlotAssigned \in Greeting .. Playing
  BY DEF SlotAssigned, Greeting, Playing
<1> QED BY <1>1, <1>2, AdvanceType DEF AcceptPlayer

(* The fields a handler sets without moving the handshake. *)
LEMMA FieldTypes ==
  ASSUME NEW p \in Player, NEW n \in Names, NEW k \in 0 .. MaxPending
  PROVE  /\ [p EXCEPT !.greeted = TRUE] \in Player
         /\ [p EXCEPT !.greeted = TRUE].conn = p.conn
         /\ [p EXCEPT !.greeted = TRUE].pending = p.pending
         /\ Inside([p EXCEPT !.greeted = TRUE]) = Inside(p)
         /\ [p EXCEPT !.name = n] \in Player
         /\ [p EXCEPT !.name = n].conn = p.conn
         /\ [p EXCEPT !.name = n].pending = p.pending
         /\ Inside([p EXCEPT !.name = n]) = Inside(p)
         /\ [p EXCEPT !.pending = k] \in Player
         /\ [p EXCEPT !.pending = k].conn = p.conn
         /\ [p EXCEPT !.pending = k].pending = k
         /\ Inside([p EXCEPT !.pending = k]) = Inside(p)
         /\ [p EXCEPT !.overdue = TRUE] \in Player
         /\ [p EXCEPT !.overdue = TRUE].conn = p.conn
         /\ [p EXCEPT !.overdue = TRUE].pending = p.pending
         /\ Inside([p EXCEPT !.overdue = TRUE]) = Inside(p)
BY DEF Player, Inside

LEMMA EvolvesSame == \A p : Evolves(p, p)
BY DEF Evolves

(* Dropping players leaves every other slot as it was. *)
LEMMA DisconnectEvolves ==
  ASSUME NEW P \in [Slots -> Player], NEW D,
         NEW R \in [Slots -> Player], \A t \in Slots : Evolves(R[t], P[t])
  PROVE  /\ Disconnect(P, D) \in [Slots -> Player]
         /\ \A t \in Slots : Evolves(R[t], Disconnect(P, D)[t])
BY VacantType DEF Disconnect, Evolves, Empty

LEMMA SentEvolves ==
  ASSUME players \in [Slots -> Player], NEW P \in [Slots -> Player], NEW s, Sent(P, s),
         \A t \in Slots : Evolves(players[t], P[t])
  PROVE  /\ players' \in [Slots -> Player]
         /\ \A t \in Slots : Evolves(players[t], players'[t])
BY DisconnectEvolves DEF Sent

LEMMA KickEvolves ==
  ASSUME players \in [Slots -> Player], NEW s, Kick(s)
  PROVE  /\ players' \in [Slots -> Player]
         /\ \A t \in Slots : Evolves(players[t], players'[t])
<1>1. \A t \in Slots : Evolves(players[t], players[t])
  BY EvolvesSame
<1>2. /\ Disconnect(players, {s}) \in [Slots -> Player]
      /\ \A t \in Slots : Evolves(players[t], Disconnect(players, {s})[t])
  BY <1>1, DisconnectEvolves
<1> QED BY <1>2, SentEvolves DEF Kick

(* One slot changed and the news of it sent. *)
LEMMA SentOneEvolves ==
  ASSUME players \in [Slots -> Player], NEW s \in Slots, NEW q \in Player,
         Sent([players EXCEPT ![s] = q], s), Evolves(players[s], q)
  PROVE  /\ players' \in [Slots -> Player]
         /\ \A t \in Slots : Evolves(players[t], players'[t])
<1> DEFINE P == [players EXCEPT ![s] = q]
<1>1. P \in [Slots -> Player]
  OBVIOUS
<1>2. \A t \in Slots : Evolves(players[t], P[t])
  BY EvolvesSame
<1> HIDE DEF P
<1> QED BY <1>1, <1>2, SentEvolves DEF P

LEMMA HeadType ==
  ASSUME NEW q \in Seq(Event), q # << >>
  PROVE  /\ Head(q) \in Event /\ Head(q) = q[1]
         /\ Tail(q) \in Seq(Event) /\ Len(Tail(q)) = Len(q) - 1 /\ Len(q) \in Nat \ {0}
         /\ \A i \in 1 .. Len(Tail(q)) : Tail(q)[i] = q[i + 1] /\ i + 1 \in 1 .. Len(q)
OBVIOUS

(* ---- what keeps the invariant ------------------------------------------------------ *)

(* The channel is left alone or read from. *)
Reads == events' = events \/ (events # << >> /\ events' = Tail(events))

LEMMA ReadsType ==
  ASSUME TypeOK, Reads
  PROVE  /\ events' \in Seq(Event) /\ Len(events') <= QueueDepth
         /\ \E k \in {0, 1} : \A i \in 1 .. Len(events') :
              events'[i] = events[i + k] /\ i + k \in 1 .. Len(events)
<1>1. CASE events' = events
  BY <1>1 DEF TypeOK
<1>2. CASE events # << >> /\ events' = Tail(events)
  BY <1>2, HeadType, QueueAssumption DEF TypeOK
<1> QED BY <1>1, <1>2 DEF Reads

LEMMA StampsKept ==
  ASSUME TypeOK, Stamps, Reads, UNCHANGED <<task, assigned, epochs, issued>>,
         \A t \in Slots : players'[t].conn \in {players[t].conn, Nobody}
  PROVE  Stamps'
<1>1. CountsEpochs' /\ StampsIssued' /\ StampsUnique'
  BY DEF Stamps, CountsEpochs, StampsIssued, StampsUnique, Served
<1>2. PICK k \in {0, 1} : \A i \in 1 .. Len(events') :
        events'[i] = events[i + k] /\ i + k \in 1 .. Len(events)
  BY ReadsType
<1>3. JoinOnce'
  <2>1. ASSUME NEW i \in 1 .. Len(events'), events'[i].kind = "Join"
        PROVE  task'[events'[i].conn] = "joining"
    BY <1>2, <2>1 DEF Stamps, JoinOnce
  <2>2. ASSUME NEW i \in 1 .. Len(events'), events'[i].kind = "Join",
               NEW j \in 1 .. Len(events'), events'[j].kind = "Join",
               events'[j].conn = events'[i].conn
        PROVE  i = j
    <3>1. events'[i] = events[i + k] /\ i + k \in 1 .. Len(events)
      BY <1>2
    <3>2. events'[j] = events[j + k] /\ j + k \in 1 .. Len(events)
      BY <1>2
    <3>3. i + k = j + k
      BY <2>2, <3>1, <3>2 DEF Stamps, JoinOnce
    <3> QED BY <3>3
  <2> QED BY <2>1, <2>2 DEF JoinOnce
<1>4. Stamped'
  BY <1>2 DEF Stamps, Stamped, Served
<1>5. Seated'
  BY DEF Stamps, Seated, Served
<1> QED BY <1>1, <1>3, <1>4, <1>5 DEF Stamps

LEMMA AdmittedKept ==
  ASSUME Admitted, \A t \in Slots : Evolves(players[t], players'[t]),
         proved \subseteq proved', issued' = issued, players \in [Slots -> Player],
         players' \in [Slots -> Player]
  PROVE  Admitted'
<1>1. ASSUME NEW t \in Slots
      PROVE  players'[t].pending > 0 => players'[t].conn # Nobody /\ Inside(players'[t])
  BY DEF Admitted, Evolves, Empty
<1>2. ASSUME PasswordSet, NotWrapped', NEW t \in Slots,
             players'[t].conn # Nobody, Inside(players'[t])
      PROVE  players'[t].conn \in proved'
  BY <1>2 DEF Admitted, Evolves, Empty, NotWrapped
<1> QED BY <1>1, <1>2, SwitchAssumption DEF Admitted, Inside

(* What every handler but Join, every tick and every command amounts to. *)
LEMMA HandlerKeeps ==
  ASSUME IInv, Reads, UNCHANGED <<task, assigned, epochs, issued>>,
         players' \in [Slots -> Player],
         \A t \in Slots : Evolves(players[t], players'[t]),
         banned' \subseteq Bannable, proved' \subseteq Conns, proved \subseteq proved',
         joinTails' \in [Conns -> Nat]
  PROVE  IInv'
<1>1. TypeOK'
  BY ReadsType DEF IInv, TypeOK
<1>2. \A t \in Slots : players'[t].conn \in {players[t].conn, Nobody}
  BY DEF Evolves, Empty
<1>3. Stamps'
  BY <1>2, StampsKept DEF IInv
<1>4. Admitted'
  BY AdmittedKept DEF IInv, TypeOK
<1> QED BY <1>1, <1>3, <1>4 DEF IInv

LEMMA SameStamp ==
  ASSUME TypeOK, NEW c \in Conns, NEW d \in Conns,
         assigned[c].slot = assigned[d].slot, assigned[c].epoch = assigned[d].epoch
  PROVE  assigned[c] = assigned[d]
<1>1. assigned[c] = [slot |-> assigned[c].slot, epoch |-> assigned[c].epoch]
  BY DEF TypeOK
<1>2. assigned[d] = [slot |-> assigned[d].slot, epoch |-> assigned[d].epoch]
  BY DEF TypeOK
<1> QED BY <1>1, <1>2

(* The epoch check does its work: what is current and not for an empty slot comes  *)
(* from whoever has the slot.                                                       *)
LEMMA CurrentIsOccupant ==
  ASSUME TypeOK, Stamps, NotWrapped, NEW i \in 1 .. Len(events), events[i].kind # "Join",
         SlotEpochCurrent(events[i].slot, events[i].epoch), Occupied(players, events[i].slot)
  PROVE  players[events[i].slot].conn = events[i].conn
<1> DEFINE e == events[i]
           o == players[e.slot].conn
<1>1. e \in Event
  BY DEF TypeOK
<1>2. /\ e.conn \in Conns /\ Served(e.conn)
      /\ e.slot = assigned[e.conn].slot /\ e.epoch = assigned[e.conn].epoch
  BY <1>1 DEF Stamps, Stamped, Event
<1>3. e.slot \in Slots
  BY <1>2 DEF Stamps, StampsIssued
<1>4. o \in Conns
  BY <1>3 DEF TypeOK, Player, Occupied
<1>5. Served(o) /\ assigned[o].slot = e.slot /\ assigned[o].epoch = e.epoch
  BY <1>3, <1>4 DEF Stamps, Seated, Occupied, SlotEpochCurrent
<1>6. assigned[o] = assigned[e.conn]
  BY <1>2, <1>4, <1>5, SameStamp
<1>7. issued[assigned[o].slot] <= EpochMax
  BY <1>3, <1>5 DEF NotWrapped
<1> QED BY <1>2, <1>4, <1>5, <1>6, <1>7 DEF Stamps, StampsUnique

(* ---- the connection tasks ------------------------------------------------------------ *)

LEMMA AppendType ==
  ASSUME NEW q \in Seq(Event), NEW e \in Event
  PROVE  /\ Append(q, e) \in Seq(Event) /\ Len(Append(q, e)) = Len(q) + 1
         /\ \A i \in 1 .. Len(Append(q, e)) :
              \/ i \in 1 .. Len(q) /\ Append(q, e)[i] = q[i]
              \/ i = Len(q) + 1 /\ Append(q, e)[i] = e
OBVIOUS

(* A task of connection c sends e, and no slot is touched. *)
LEMMA TaskKeeps ==
  ASSUME IInv, NEW c \in Conns, NEW e \in Event, Send(e), e.conn = c, NEW u,
         u \in {"joining", "serving", "left"},
         task' = [task EXCEPT ![c] = u],
         UNCHANGED <<assigned, players, epochs, banned, issued, proved, joinTails>>,
         \/ e.kind = "Join" /\ task[c] = "idle" /\ u = "joining"
         \/ /\ e.kind # "Join" /\ task[c] = "serving" /\ u \in {"serving", "left"}
            /\ e.slot = assigned[c].slot /\ e.epoch = assigned[c].epoch
  PROVE  IInv'
<1>1. /\ events' \in Seq(Event) /\ Len(events') <= QueueDepth
      /\ \A i \in 1 .. Len(events') : \/ i \in 1 .. Len(events) /\ events'[i] = events[i]
                                      \/ i = Len(events) + 1 /\ events'[i] = e
  BY AppendType, QueueAssumption DEF Send, IInv, TypeOK
<1>2. TypeOK'
  BY <1>1 DEF IInv, TypeOK
<1>3. \A d \in Conns : Served(d)' = Served(d)
  BY DEF Served, IInv, TypeOK
<1>4. CountsEpochs' /\ StampsIssued' /\ StampsUnique'
  BY <1>3 DEF IInv, Stamps, CountsEpochs, StampsIssued, StampsUnique
<1>5. \A i \in 1 .. Len(events) : events[i] \in Event
  BY DEF IInv, TypeOK
<1>6. JoinOnce'
  <2>1. ASSUME NEW i \in 1 .. Len(events), events[i].kind = "Join"
        PROVE  /\ task[events[i].conn] = "joining" /\ events[i].conn \in Conns
               /\ events[i].conn # c /\ task'[events[i].conn] = "joining"
    BY <2>1, <1>5 DEF IInv, Stamps, JoinOnce, TypeOK, Event
  <2>2. ASSUME NEW i \in 1 .. Len(events'), events'[i].kind = "Join"
        PROVE  task'[events'[i].conn] = "joining"
    BY <1>1, <2>1, <2>2 DEF IInv, TypeOK
  <2>3. ASSUME NEW i \in 1 .. Len(events'), events'[i].kind = "Join",
               NEW j \in 1 .. Len(events'), events'[j].kind = "Join",
               events'[j].conn = events'[i].conn
        PROVE  i = j
    <3>1. CASE i \in 1 .. Len(events) /\ events'[i] = events[i]
      BY <3>1, <2>3, <2>1, <1>1 DEF IInv, Stamps, JoinOnce
    <3>2. CASE i = Len(events) + 1 /\ events'[i] = e
      BY <3>2, <2>3, <2>1, <1>1
    <3> QED BY <3>1, <3>2, <1>1
  <2> QED BY <2>2, <2>3 DEF JoinOnce
<1>7. Stamped'
  BY <1>1, <1>3, <1>5 DEF IInv, Stamps, Stamped, Event, Served
<1>8. Seated'
  BY <1>3 DEF IInv, Stamps, Seated, TypeOK, Player
<1>9. Admitted'
  BY DEF IInv, Admitted, NotWrapped
<1> QED BY <1>2, <1>4, <1>6, <1>7, <1>8, <1>9 DEF IInv, Stamps

LEMMA ConnectKeeps ==
  ASSUME IInv, NEW c \in Conns, Connect(c)
  PROVE  IInv'
<1> DEFINE e == [kind |-> "Join", conn |-> c, slot |-> NoSlot, epoch |-> 0, msg |-> NoMsg]
<1>1. e \in Event /\ e.conn = c /\ e.kind = "Join"
  BY EpochAssumption DEF Event
<1>2. Send(e)
  BY DEF Connect
<1> HIDE DEF e
<1> QED BY <1>1, <1>2, TaskKeeps DEF Connect

LEMMA ForwardKeeps ==
  ASSUME IInv, NEW c \in Conns, NEW m \in Messages, Forward(c, m)
  PROVE  IInv'
<1> DEFINE e == [kind |-> "Packet", conn |-> c, slot |-> assigned[c].slot,
                 epoch |-> assigned[c].epoch, msg |-> m]
<1>1. /\ e \in Event /\ e.conn = c /\ e.kind # "Join"
      /\ e.slot = assigned[c].slot /\ e.epoch = assigned[c].epoch
  BY DEF Event, IInv, TypeOK
<1>2. Send(e)
  BY DEF Forward
<1>3. task' = [task EXCEPT ![c] = "serving"]
  BY DEF Forward, IInv, TypeOK
<1> HIDE DEF e
<1> QED BY <1>1, <1>2, <1>3, TaskKeeps DEF Forward

LEMMA CloseKeeps ==
  ASSUME IInv, NEW c \in Conns, Close(c)
  PROVE  IInv'
<1> DEFINE e == [kind |-> "Leave", conn |-> c, slot |-> assigned[c].slot,
                 epoch |-> assigned[c].epoch, msg |-> NoMsg]
<1>1. /\ e \in Event /\ e.conn = c /\ e.kind # "Join"
      /\ e.slot = assigned[c].slot /\ e.epoch = assigned[c].epoch
  BY DEF Event, IInv, TypeOK
<1>2. Send(e)
  BY DEF Close
<1> HIDE DEF e
<1> QED BY <1>1, <1>2, TaskKeeps DEF Close

(* ---- the game task: a new occupant ---------------------------------------------------- *)

(* The Join at the head of the channel is its connection's only one, so what is left  *)
(* in the channel, and what was assigned before, belongs to others.                    *)
LEMMA JoinHead ==
  ASSUME IInv, Receive("Join")
  PROVE  /\ Head(events).conn \in Conns /\ ~Served(Head(events).conn)
         /\ events' \in Seq(Event) /\ Len(events') <= QueueDepth
         /\ \A i \in 1 .. Len(events') :
              /\ events'[i] = events[i + 1] /\ i + 1 \in 1 .. Len(events)
              /\ events'[i] \in Event /\ events'[i].conn # Head(events).conn
<1>1. events # << >> /\ events \in Seq(Event) /\ events' = Tail(events)
  BY DEF Receive, IInv, TypeOK
<1>2. /\ Head(events) \in Event /\ Head(events) = events[1] /\ Head(events).kind = "Join"
      /\ events' \in Seq(Event) /\ Len(events') = Len(events) - 1 /\ Len(events) \in Nat \ {0}
      /\ \A i \in 1 .. Len(events') : events'[i] = events[i + 1] /\ i + 1 \in 1 .. Len(events)
  BY <1>1, HeadType DEF Receive
<1>3. task[Head(events).conn] = "joining" /\ Head(events).conn \in Conns
  BY <1>2 DEF IInv, Stamps, JoinOnce, Event
<1>4. ASSUME NEW i \in 1 .. Len(events')
      PROVE  events'[i] \in Event /\ events'[i].conn # Head(events).conn
  <2>1. events'[i] = events[i + 1] /\ i + 1 \in 1 .. Len(events) /\ events'[i] \in Event
    BY <1>2
  <2>2. CASE events'[i].kind = "Join"
    BY <2>1, <2>2, <1>2 DEF IInv, Stamps, JoinOnce
  <2>3. CASE events'[i].kind # "Join"
    BY <2>1, <2>3, <1>3 DEF IInv, Stamps, Stamped, Served
  <2> QED BY <2>1, <2>2, <2>3
<1>5. Len(events') <= QueueDepth
  BY <1>2, QueueAssumption DEF IInv, TypeOK
<1> QED BY <1>2, <1>3, <1>4, <1>5 DEF Served

(* Moving the connection of the Join at the head on leaves the other Joins waiting. *)
LEMMA JoinHeadMoves ==
  ASSUME IInv, Receive("Join"), NEW u, task' = [task EXCEPT ![Head(events).conn] = u]
  PROVE  JoinOnce'
<1>1. ASSUME NEW i \in 1 .. Len(events'), events'[i].kind = "Join"
      PROVE  task'[events'[i].conn] = "joining"
  <2>1. /\ events'[i] = events[i + 1] /\ i + 1 \in 1 .. Len(events)
        /\ events'[i].conn \in Conns /\ events'[i].conn # Head(events).conn
    BY JoinHead DEF Event
  <2>2. task[events'[i].conn] = "joining"
    BY <1>1, <2>1 DEF IInv, Stamps, JoinOnce
  <2> QED BY <2>1, <2>2 DEF IInv, TypeOK
<1>2. ASSUME NEW i \in 1 .. Len(events'), events'[i].kind = "Join",
             NEW j \in 1 .. Len(events'), events'[j].kind = "Join",
             events'[j].conn = events'[i].conn
      PROVE  i = j
  <2>1. events'[i] = events[i + 1] /\ i + 1 \in 1 .. Len(events)
    BY JoinHead
  <2>2. events'[j] = events[j + 1] /\ j + 1 \in 1 .. Len(events)
    BY JoinHead
  <2>3. i + 1 = j + 1
    BY <1>2, <2>1, <2>2 DEF IInv, Stamps, JoinOnce
  <2> QED BY <2>3
<1> QED BY <1>1, <1>2 DEF JoinOnce

LEMMA RefusedKeeps ==
  ASSUME IInv, Receive("Join"), task' = [task EXCEPT ![Head(events).conn] = "refused"],
         UNCHANGED <<players, epochs, assigned, issued, banned, proved, joinTails>>
  PROVE  IInv'
<1>1. TypeOK'
  BY JoinHead DEF IInv, TypeOK
<1>2. \A d \in Conns : Served(d)' = Served(d)
  BY JoinHead DEF Served, IInv, TypeOK
<1>3. CountsEpochs' /\ StampsIssued' /\ StampsUnique'
  BY <1>2 DEF IInv, Stamps, CountsEpochs, StampsIssued, StampsUnique
<1>4. JoinOnce'
  BY JoinHeadMoves
<1>5. ASSUME NEW i \in 1 .. Len(events'), events'[i].kind # "Join"
      PROVE  /\ task'[events'[i].conn] \in {"serving", "left"}
             /\ events'[i].slot = assigned'[events'[i].conn].slot
             /\ events'[i].epoch = assigned'[events'[i].conn].epoch
  <2>1. /\ events'[i] = events[i + 1] /\ i + 1 \in 1 .. Len(events)
        /\ events'[i].conn \in Conns /\ events'[i].conn # Head(events).conn
    BY JoinHead DEF Event
  <2>2. Stamped
    BY DEF IInv, Stamps
  <2>3. /\ task[events'[i].conn] \in {"serving", "left"}
        /\ events'[i].slot = assigned[events'[i].conn].slot
        /\ events'[i].epoch = assigned[events'[i].conn].epoch
    BY <1>5, <2>1, <2>2 DEF Stamped, Served
  <2>4. task'[events'[i].conn] = task[events'[i].conn]
    BY <2>1 DEF IInv, TypeOK
  <2> QED BY <2>3, <2>4
<1>6. Stamped'
  BY <1>5 DEF Stamped, Served
<1>7. Seated'
  BY <1>2 DEF IInv, Stamps, Seated, TypeOK, Player
<1>8. Admitted'
  BY DEF IInv, Admitted, NotWrapped
<1> QED BY <1>1, <1>3, <1>4, <1>6, <1>7, <1>8 DEF IInv, Stamps

LEMMA SeatedKeeps ==
  ASSUME IInv, Receive("Join"), NEW s \in Slots, ~Occupied(players, s),
         NEW c, c = Head(events).conn,
         players'  = [players EXCEPT ![s] = NewPlayer(c, s)],
         epochs'   = [epochs EXCEPT ![s] = NextEpoch(@)],
         assigned' = [assigned EXCEPT ![c] =
                        [slot |-> s, epoch |-> NextEpoch(epochs[s])]],
         task'     = [task EXCEPT ![c] = "serving"],
         issued'   = [issued EXCEPT ![s] = @ + 1],
         UNCHANGED <<banned, proved, joinTails>>
  PROVE  IInv'
<1>1. /\ c \in Conns /\ ~Served(c) /\ events' \in Seq(Event) /\ Len(events') <= QueueDepth
      /\ \A i \in 1 .. Len(events') :
           /\ events'[i] = events[i + 1] /\ i + 1 \in 1 .. Len(events)
           /\ events'[i] \in Event /\ events'[i].conn # c
  BY JoinHead
<1>2. NewPlayer(c, s) \in Player /\ NewPlayer(c, s).conn = c
      /\ NewPlayer(c, s).pending = 0 /\ ~Inside(NewPlayer(c, s))
  BY <1>1, NewPlayerType
<1> DEFINE n == NewPlayer(c, s)
<1> HIDE DEF n
<1>3. epochs[s] \in 0 .. EpochMax /\ NextEpoch(epochs[s]) \in 0 .. EpochMax
      /\ issued[s] \in Nat /\ issued'[s] = issued[s] + 1
      /\ epochs'[s] = NextEpoch(epochs[s])
      /\ (issued'[s] <= EpochMax => issued[s] <= EpochMax /\ epochs'[s] = issued'[s])
  BY EpochAssumption DEF IInv, TypeOK, Stamps, CountsEpochs, NextEpoch
<1>4. TypeOK'
  BY <1>1, <1>2, <1>3 DEF IInv, TypeOK, n
<1>5. CountsEpochs'
  BY <1>3 DEF IInv, TypeOK, Stamps, CountsEpochs
<1>6. /\ Served(c)' /\ assigned'[c] = [slot |-> s, epoch |-> epochs'[s]]
      /\ \A d \in Conns : d # c => Served(d)' = Served(d) /\ assigned'[d] = assigned[d]
  BY <1>1, <1>3 DEF Served, IInv, TypeOK
<1>7. \A t \in Slots : issued[t] \in Nat /\ (t # s => issued'[t] = issued[t])
  BY DEF IInv, TypeOK
<1>8. ASSUME NEW d \in Conns, Served(d)'
      PROVE  /\ assigned'[d].slot \in Slots
             /\ issued'[assigned'[d].slot] <= EpochMax
                  => assigned'[d].epoch <= issued'[assigned'[d].slot]
  <2>1. CASE d = c
    BY <2>1, <1>3, <1>6, EpochAssumption
  <2>2. CASE d # c
    <3>1. Served(d) /\ assigned'[d] = assigned[d]
      BY <2>2, <1>6, <1>8
    <3>2. assigned[d].epoch \in Nat /\ assigned[d].slot \in Slots
      BY <3>1 DEF IInv, TypeOK, Stamps, StampsIssued
    <3> QED BY <3>1, <3>2, <1>3, <1>7, EpochAssumption DEF IInv, Stamps, StampsIssued
  <2> QED BY <2>1, <2>2
<1>9. StampsUnique'
  <2>1. ASSUME NEW d \in Conns, d # c, Served(d)', assigned'[d] = assigned'[c],
               issued'[s] <= EpochMax
        PROVE  FALSE
    <3>1. Served(d) /\ assigned[d].slot = s /\ assigned[d].epoch = issued[s] + 1
      BY <2>1, <1>3, <1>6
    <3> QED BY <3>1, <2>1, <1>3 DEF IInv, Stamps, StampsIssued
  <2>2. ASSUME NEW d \in Conns, NEW b \in Conns, d # c, b # c, Served(d)', Served(b)',
               assigned'[d] = assigned'[b], issued'[assigned'[d].slot] <= EpochMax
        PROVE  d = b
    <3>1. Served(d) /\ Served(b) /\ assigned[d] = assigned[b] /\ assigned[d].slot \in Slots
      BY <2>2, <1>6 DEF IInv, Stamps, StampsIssued
    <3>2. issued[assigned[d].slot] <= EpochMax
      BY <3>1, <2>2, <1>3, <1>6, <1>7
    <3> QED BY <3>1, <3>2 DEF IInv, Stamps, StampsUnique
  <2>3. assigned'[c].slot = s
    BY <1>6
  <2> QED BY <2>1, <2>2, <2>3, <1>1 DEF StampsUnique
<1>10. JoinOnce'
  BY JoinHeadMoves
<1>11. Stamped'
  <2>1. ASSUME NEW i \in 1 .. Len(events'), events'[i].kind # "Join"
        PROVE  (/\ Served(events[i].conn)
                /\ events[i].slot = assigned[events[i].conn].slot
                /\ events[i].epoch = assigned[events[i].conn].epoch)'
    <3>1. /\ events'[i] = events[i + 1] /\ i + 1 \in 1 .. Len(events)
          /\ events'[i].conn \in Conns /\ events'[i].conn # c
      BY <1>1 DEF Event
    <3>2. /\ Served(events'[i].conn)
          /\ events'[i].slot = assigned[events'[i].conn].slot
          /\ events'[i].epoch = assigned[events'[i].conn].epoch
      BY <2>1, <3>1 DEF IInv, Stamps, Stamped
    <3> QED BY <3>1, <3>2, <1>6
  <2> QED BY <2>1 DEF Stamped
<1>12. Seated'
  <2>1. ASSUME NEW t \in Slots, players'[t].conn # Nobody
        PROVE  (/\ Served(players[t].conn)
                /\ assigned[players[t].conn].slot = t
                /\ assigned[players[t].conn].epoch = epochs[t])'
    <3>1. CASE t = s
      BY <3>1, <1>2, <1>6 DEF IInv, TypeOK, n
    <3>2. CASE t # s
      <4>1. players'[t] = players[t] /\ epochs'[t] = epochs[t] /\ players[t].conn \in Conns
        BY <3>2, <2>1 DEF IInv, TypeOK, Player
      <4>2. Served(players[t].conn) /\ players[t].conn # c
        BY <4>1, <2>1, <1>1 DEF IInv, Stamps, Seated
      <4> QED BY <4>1, <4>2, <2>1, <1>6 DEF IInv, Stamps, Seated
    <3> QED BY <3>1, <3>2
  <2> QED BY <2>1 DEF Seated
<1>13. Admitted'
  <2>1. \A t \in Slots : players'[t] = IF t = s THEN n ELSE players[t]
    BY DEF IInv, TypeOK, n
  <2>2. NotWrapped' => NotWrapped
    BY <1>3, <1>7, EpochAssumption DEF NotWrapped
  <2>3. n.pending = 0 /\ ~Inside(n)
    BY <1>2 DEF n
  <2> QED BY <2>1, <2>2, <2>3 DEF IInv, Admitted
<1>14. StampsIssued'
  BY <1>8 DEF StampsIssued
<1> QED BY <1>4, <1>5, <1>9, <1>10, <1>11, <1>12, <1>13, <1>14 DEF IInv, Stamps

LEMMA HandleJoinKeeps ==
  ASSUME IInv, HandleJoin
  PROVE  IInv'
BY RefusedKeeps, SeatedKeeps DEF HandleJoin

(* ---- the game task: one event ----------------------------------------------------------- *)

LEMMA ReceiveReads ==
  ASSUME NEW kind, Receive(kind)
  PROVE  Reads
BY DEF Receive, Reads

(* Whoever may send anything past the password prompt is inside. *)
LEMMA AllowedInside ==
  ASSUME NEW p \in Player, NEW id, HandshakeAllows(p, id), id \notin {"Hello", "SendPassword"}
  PROVE  Inside(p)
BY DEF HandshakeAllows, Inside, Player, Greeting, Playing

(* A handler of the game task that leaves the history alone. *)
LEMMA EventKeeps ==
  ASSUME IInv, Reads, UNCHANGED <<task, assigned, epochs, banned, issued, proved, joinTails>>,
         players' \in [Slots -> Player],
         \A t \in Slots : Evolves(players[t], players'[t])
  PROVE  IInv'
BY HandlerKeeps DEF IInv, TypeOK

LEMMA QuietKeeps ==
  ASSUME IInv, Reads, UNCHANGED <<task, assigned, players, epochs, banned, issued, proved, joinTails>>
  PROVE  IInv'
BY EventKeeps, EvolvesSame DEF IInv, TypeOK

LEMMA DropGhostKeeps == ASSUME IInv, DropGhost PROVE IInv'
BY QuietKeeps, ReceiveReads DEF DropGhost

LEMMA HandleVacantKeeps == ASSUME IInv, HandleVacant PROVE IInv'
BY QuietKeeps, ReceiveReads DEF HandleVacant

LEMMA HandleLeaveKeeps == ASSUME IInv, HandleLeave PROVE IInv'
<1>1. players \in [Slots -> Player]
  BY DEF IInv, TypeOK
<1>2. Kick(Head(events).slot)
  BY DEF HandleLeave, Kick
<1>3. players' \in [Slots -> Player] /\ \A t \in Slots : Evolves(players[t], players'[t])
  BY <1>1, <1>2, KickEvolves
<1> QED BY <1>3, EventKeeps, ReceiveReads DEF HandleLeave

LEMMA RefuseEarlyKeeps == ASSUME IInv, RefuseEarly PROVE IInv'
<1>1. players \in [Slots -> Player]
  BY DEF IInv, TypeOK
<1>2. PICK s \in Slots, id \in HandshakeIds \cup {"Play"} : Delivered(id, s) /\ Kick(s)
  BY DEF RefuseEarly
<1>3. players' \in [Slots -> Player] /\ \A t \in Slots : Evolves(players[t], players'[t])
  BY <1>1, <1>2, KickEvolves
<1> QED BY <1>2, <1>3, EventKeeps, ReceiveReads DEF RefuseEarly, Delivered

(* What every message of a player has in common. *)
LEMMA AcceptedFacts ==
  ASSUME IInv, NEW id, NEW s \in Slots, Accepted(id, s)
  PROVE  /\ players \in [Slots -> Player] /\ players[s] \in Player
         /\ players[s].conn # Nobody /\ Reads
         /\ Head(events).msg \in Messages \cup {NoMsg} /\ Head(events).msg.id = id
         /\ id \notin {"Hello", "SendPassword"} => Inside(players[s])
<1>1. players \in [Slots -> Player] /\ events \in Seq(Event)
  BY DEF IInv, TypeOK
<1>2. Receive("Packet") /\ Head(events).msg.id = id /\ Occupied(players, s)
      /\ HandshakeAllows(players[s], id)
  BY DEF Accepted, Delivered
<1>3. Head(events) \in Event
  BY <1>1, <1>2, HeadType DEF Receive
<1> QED BY <1>1, <1>2, <1>3, AllowedInside, ReceiveReads DEF Occupied, Event

LEMMA OnHelloKeeps == ASSUME IInv, OnHello PROVE IInv'
<1>1. PICK s \in Slots :
        /\ Accepted("Hello", s)
        /\ \/ UNCHANGED players
           \/ Kick(s)
           \/ Sent([players EXCEPT ![s] =
                      IF PasswordSet THEN [players[s] EXCEPT !.greeted = TRUE]
                      ELSE AcceptPlayer([players[s] EXCEPT !.greeted = TRUE])], s)
  BY DEF OnHello
<1> DEFINE p == players[s]
           g == [p EXCEPT !.greeted = TRUE]
           q == IF PasswordSet THEN g ELSE AcceptPlayer(g)
<1>2. /\ players \in [Slots -> Player] /\ p \in Player /\ p.conn # Nobody /\ Reads
      /\ p.name \in Names /\ p.pending \in 0 .. MaxPending
  BY <1>1, AcceptedFacts DEF Player
<1>3. g \in Player /\ g.conn = p.conn /\ g.pending = p.pending /\ Inside(g) = Inside(p)
  BY <1>2, FieldTypes
<1> HIDE DEF g
<1>4. q \in Player /\ Evolves(p, q)
  BY <1>2, <1>3, AcceptType DEF Evolves
<1> HIDE DEF q
<1>5. CASE UNCHANGED players
  BY <1>5, <1>2, QuietKeeps DEF OnHello
<1>6. CASE Kick(s)
  BY <1>6, <1>2, KickEvolves, EventKeeps DEF OnHello
<1>7. CASE Sent([players EXCEPT ![s] = q], s)
  BY <1>7, <1>2, <1>4, SentOneEvolves, EventKeeps DEF OnHello
<1> QED BY <1>1, <1>5, <1>6, <1>7 DEF q, g

(* The right password of the occupant itself, which is where proved grows. *)
LEMMA RightPasswordKeeps ==
  ASSUME IInv, NEW s \in Slots, Accepted("SendPassword", s),
         Sent([players EXCEPT ![s] = AcceptPlayer(players[s])], s),
         proved' = proved \cup {Head(events).conn},
         UNCHANGED <<task, assigned, epochs, banned, issued, joinTails>>
  PROVE  IInv'
<1> DEFINE q == AcceptPlayer(players[s])
           P == [players EXCEPT ![s] = q]
           o == Head(events).conn
<1>1. /\ players \in [Slots -> Player] /\ players[s] \in Player
      /\ players[s].conn # Nobody /\ Reads
  BY AcceptedFacts
<1>2. q \in Player /\ q.conn = players[s].conn /\ q.pending = players[s].pending /\ Inside(q)
  BY <1>1, AcceptType
<1> HIDE DEF q
<1>3. P \in [Slots -> Player] /\ \A t \in Slots : P[t] = IF t = s THEN q ELSE players[t]
  BY <1>1, <1>2
<1>4. PICK D \in SUBSET (PlayingSlots(P) \cup {s}) : players' = Disconnect(P, D)
  BY DEF Sent, q
<1> HIDE DEF P
<1>5. /\ players' \in [Slots -> Player]
      /\ \A t \in Slots : players'[t] = P[t] \/ players'[t] = Vacant
  BY <1>3, <1>4, VacantType DEF Disconnect
<1>6. /\ events # << >> /\ events \in Seq(Event) /\ Head(events) = events[1]
      /\ 1 \in 1 .. Len(events) /\ Head(events) \in Event
      /\ events[1].kind # "Join" /\ events[1].slot = s
      /\ SlotEpochCurrent(s, events[1].epoch) /\ Occupied(players, s)
  BY HeadType DEF Accepted, Delivered, Receive, IInv, TypeOK
<1>7. NotWrapped => players[s].conn = o
  BY <1>6, CurrentIsOccupant DEF IInv
<1>8. TypeOK'
  BY <1>1, <1>5, <1>6, ReadsType DEF IInv, TypeOK, Event
<1>9. \A t \in Slots : players'[t].conn \in {players[t].conn, Nobody}
  BY <1>2, <1>3, <1>5, VacantType
<1>10. Stamps'
  BY <1>1, <1>9, StampsKept DEF IInv
<1>11. ASSUME NEW t \in Slots
       PROVE  /\ players'[t].pending > 0 => players'[t].conn # Nobody /\ Inside(players'[t])
              /\ (PasswordSet /\ NotWrapped' /\ players'[t].conn # Nobody /\ Inside(players'[t]))
                   => players'[t].conn \in proved'
  <2>1. CASE players'[t] = Vacant
    BY <2>1, VacantType
  <2>2. CASE players'[t] = P[t] /\ t = s
    BY <2>2, <1>1, <1>2, <1>3, <1>7 DEF NotWrapped
  <2>3. CASE players'[t] = P[t] /\ t # s
    BY <2>3, <1>3 DEF IInv, Admitted, NotWrapped
  <2> QED BY <2>1, <2>2, <2>3, <1>5
<1>12. Admitted'
  BY <1>11, SwitchAssumption DEF Admitted, Inside
<1> QED BY <1>8, <1>10, <1>12 DEF IInv

LEMMA OnPasswordKeeps == ASSUME IInv, OnPassword PROVE IInv'
<1>1. PICK s \in Slots :
        /\ Accepted("SendPassword", s)
        /\ \/ UNCHANGED <<players, proved>>
           \/ Kick(s) /\ UNCHANGED proved
           \/ /\ Sent([players EXCEPT ![s] = AcceptPlayer(players[s])], s)
              /\ proved' = proved \cup {Head(events).conn}
  BY DEF OnPassword
<1>2. players \in [Slots -> Player] /\ Reads
  BY <1>1, AcceptedFacts
<1>3. CASE UNCHANGED <<players, proved>>
  BY <1>3, <1>2, QuietKeeps DEF OnPassword
<1>4. CASE Kick(s) /\ UNCHANGED proved
  BY <1>4, <1>2, KickEvolves, EventKeeps DEF OnPassword
<1>5. CASE /\ Sent([players EXCEPT ![s] = AcceptPlayer(players[s])], s)
           /\ proved' = proved \cup {Head(events).conn}
  BY <1>5, <1>1, RightPasswordKeeps DEF OnPassword
<1> QED BY <1>1, <1>3, <1>4, <1>5

(* A player inside whose handshake moves on, or who is renamed. *)
LEMMA InsideStep ==
  ASSUME IInv, NEW id, NEW s \in Slots, Accepted(id, s), id \notin {"Hello", "SendPassword"},
         NEW q \in Player, Sent([players EXCEPT ![s] = q], s),
         q.conn = players[s].conn, Inside(players[s]) => Inside(q),
         UNCHANGED <<task, assigned, epochs, banned, issued, proved, joinTails>>
  PROVE  IInv'
<1>1. /\ players \in [Slots -> Player] /\ players[s] \in Player
      /\ players[s].conn # Nobody /\ Reads /\ Inside(players[s])
  BY AcceptedFacts
<1>2. Evolves(players[s], q)
  BY <1>1 DEF Evolves
<1> QED BY <1>1, <1>2, SentOneEvolves, EventKeeps

LEMMA StatesAreStates ==
  /\ Identified \in Greeting .. Playing /\ WorldSent \in Greeting .. Playing
  /\ TilesSent \in Greeting .. Playing /\ Playing \in Greeting .. Playing
BY DEF Identified, WorldSent, TilesSent, Playing, Greeting

LEMMA OnSyncPlayerKeeps == ASSUME IInv, OnSyncPlayer PROVE IInv'
<1> DEFINE wanted == Head(events).msg.arg
           named(p) == IF wanted = "" THEN p.name ELSE wanted
           q(p) == AdvanceTo([p EXCEPT !.name = named(p)], Identified)
<1>1. PICK s \in Slots :
        /\ Accepted("SyncPlayer", s)
        /\ Kick(s) \/ Sent([players EXCEPT ![s] = q(players[s])], s)
  BY DEF OnSyncPlayer
<1>2. /\ players \in [Slots -> Player] /\ players[s] \in Player /\ Reads
      /\ Head(events).msg \in Messages \cup {NoMsg} /\ Head(events).msg.id = "SyncPlayer"
  BY <1>1, AcceptedFacts
<1>3. wanted \in Names
  <2>1. \A msg \in Messages : msg.id = "SyncPlayer" => msg.arg \in Names
    BY DEF Names
  <2>2. NoMsg.id # "SyncPlayer"
    BY DEF NoMsg
  <2> QED BY <1>2, <2>1, <2>2
<1>4. named(players[s]) \in Names
  BY <1>2, <1>3 DEF Player
<1> HIDE DEF named
<1>5. StreamAssumption /\ 0 \in 0 .. MaxPending
  BY StreamAssumption
<1> DEFINE r == [players[s] EXCEPT !.name = named(players[s])]
<1>6. r \in Player /\ r.conn = players[s].conn /\ Inside(r) = Inside(players[s])
  BY <1>2, <1>4, <1>5, FieldTypes
<1> HIDE DEF r
<1>7. /\ AdvanceTo(r, Identified) \in Player
      /\ AdvanceTo(r, Identified).conn = players[s].conn
      /\ Inside(players[s]) => Inside(AdvanceTo(r, Identified))
  BY <1>6, AdvanceType, StatesAreStates
<1>8. CASE Kick(s)
  BY <1>8, <1>2, KickEvolves, EventKeeps DEF OnSyncPlayer
<1>9. CASE Sent([players EXCEPT ![s] = AdvanceTo(r, Identified)], s)
  BY <1>9, <1>7, <1>1, InsideStep DEF OnSyncPlayer
<1> QED BY <1>1, <1>8, <1>9 DEF r

LEMMA OnClientUuidKeeps == ASSUME IInv, OnClientUuid PROVE IInv'
<1>1. PICK s \in Slots : Accepted("ClientUuid", s) /\ (Kick(s) \/ UNCHANGED players)
  BY DEF OnClientUuid
<1>2. players \in [Slots -> Player] /\ Reads
  BY <1>1, AcceptedFacts
<1>3. CASE Kick(s)
  BY <1>3, <1>2, KickEvolves, EventKeeps DEF OnClientUuid
<1>4. CASE UNCHANGED players
  BY <1>4, <1>2, QuietKeeps DEF OnClientUuid
<1> QED BY <1>1, <1>3, <1>4

LEMMA OnRequestWorldDataKeeps == ASSUME IInv, OnRequestWorldData PROVE IInv'
<1>1. PICK s \in Slots :
        /\ Accepted("RequestWorldData", s)
        /\ Sent([players EXCEPT ![s] = AdvanceTo(players[s], WorldSent)], s)
  BY DEF OnRequestWorldData
<1>2. players[s] \in Player
  BY <1>1, AcceptedFacts
<1> QED BY <1>1, <1>2, AdvanceType, StatesAreStates, InsideStep DEF OnRequestWorldData

LEMMA OnSpawnTileDataKeeps == ASSUME IInv, OnSpawnTileData PROVE IInv'
<1>1. PICK s \in Slots :
        /\ Accepted("SpawnTileData", s)
        /\ Sent([players EXCEPT ![s].pending = StreamSize], s)
  BY DEF OnSpawnTileData
<1> DEFINE q == [players[s] EXCEPT !.pending = StreamSize]
<1>2. players[s] \in Player /\ players[s].name \in Names /\ StreamSize \in 0 .. MaxPending
  BY <1>1, AcceptedFacts, StreamAssumption DEF Player
<1>3. q \in Player /\ q.conn = players[s].conn /\ Inside(q) = Inside(players[s])
  BY <1>2, FieldTypes
<1> HIDE DEF q
<1>4. Sent([players EXCEPT ![s] = q], s)
  BY <1>1 DEF q
<1> QED BY <1>1, <1>3, <1>4, InsideStep DEF OnSpawnTileData

LEMMA OnPlayerSpawnKeeps == ASSUME IInv, OnPlayerSpawn PROVE IInv'
<1>1. PICK s \in Slots :
        /\ Accepted("PlayerSpawn", s)
        /\ \/ UNCHANGED players
           \/ Sent([players EXCEPT ![s] = AdvanceTo(players[s], Playing)], s)
  BY DEF OnPlayerSpawn
<1>2. players[s] \in Player /\ Reads
  BY <1>1, AcceptedFacts
<1>3. CASE UNCHANGED players
  BY <1>3, <1>2, QuietKeeps DEF OnPlayerSpawn
<1>4. CASE Sent([players EXCEPT ![s] = AdvanceTo(players[s], Playing)], s)
  BY <1>1, <1>2, <1>4, AdvanceType, StatesAreStates, InsideStep DEF OnPlayerSpawn
<1> QED BY <1>1, <1>3, <1>4

LEMMA OnPlayKeeps == ASSUME IInv, OnPlay PROVE IInv'
<1>1. PICK s \in Slots : Accepted("Play", s) /\ Sent(players, s)
  BY DEF OnPlay
<1>2. players \in [Slots -> Player] /\ Reads
  BY <1>1, AcceptedFacts
<1> QED BY <1>1, <1>2, EvolvesSame, SentEvolves, EventKeeps DEF OnPlay

(* ---- commands and the clock ---------------------------------------------------------------- *)

LEMMA OperatorKickKeeps == ASSUME IInv, OperatorKick PROVE IInv'
<1>1. PICK s \in PlayingSlots(players) : Kick(s)
  BY DEF OperatorKick
<1>2. players \in [Slots -> Player]
  BY DEF IInv, TypeOK
<1> QED BY <1>1, <1>2, KickEvolves, EventKeeps DEF OperatorKick, Reads

LEMMA BanKeeps == ASSUME IInv, NEW n \in Bannable, Ban(n) PROVE IInv'
<1>1. players \in [Slots -> Player] /\ banned' \subseteq Bannable
  BY DEF IInv, TypeOK, Ban
<1>2. players' \in [Slots -> Player] /\ \A t \in Slots : Evolves(players[t], players'[t])
  <2>1. CASE \E s : Kick(s)
    BY <2>1, <1>1, KickEvolves
  <2>2. CASE \E D : players' = Disconnect(players, D)
    BY <2>2, <1>1, EvolvesSame, DisconnectEvolves
  <2> QED BY <2>1, <2>2 DEF Ban
<1> QED BY <1>1, <1>2, HandlerKeeps DEF Ban, Reads, IInv, TypeOK

LEMMA UnbanKeeps == ASSUME IInv, NEW n \in Bannable, Unban(n) PROVE IInv'
<1>1. players' \in [Slots -> Player] /\ \A t \in Slots : Evolves(players[t], players'[t])
  BY EvolvesSame DEF Unban, IInv, TypeOK
<1> QED BY <1>1, HandlerKeeps DEF Unban, Reads, IInv, TypeOK

LEMMA DeadlinePassesKeeps == ASSUME IInv, NEW s \in Slots, DeadlinePasses(s) PROVE IInv'
<1> DEFINE q == [players[s] EXCEPT !.overdue = TRUE]
<1>1. /\ players \in [Slots -> Player] /\ players[s] \in Player /\ players[s].name \in Names
      /\ 0 \in 0 .. MaxPending
  BY StreamAssumption DEF IInv, TypeOK, Player
<1>2. q \in Player /\ q.conn = players[s].conn /\ q.pending = players[s].pending
      /\ Inside(q) = Inside(players[s])
  BY <1>1, FieldTypes
<1>3. players' = [players EXCEPT ![s] = q]
  BY DEF DeadlinePasses
<1> HIDE DEF q
<1>4. players' \in [Slots -> Player] /\ \A t \in Slots : Evolves(players[t], players'[t])
  BY <1>1, <1>2, <1>3 DEF Evolves
<1> QED BY <1>4, EventKeeps DEF DeadlinePasses, Reads

(* A tick lets nobody in: it empties slots, queues sections for those inside and   *)
(* marks as served those whose queue ran out.                                       *)
Stays(p, q) ==
  \/ Empty(q)
  \/ /\ q.conn = p.conn
     /\ Inside(q) <=> Inside(p)
     /\ q.pending > 0 => p.pending > 0 \/ (p.conn # Nobody /\ Inside(p))

LEMMA StaysTransitive ==
  ASSUME NEW p, NEW q \in Player, NEW r \in Player, Stays(p, q), Stays(q, r)
  PROVE  Stays(p, r)
BY DEF Stays, Empty, Player

LEMMA DisconnectStays ==
  ASSUME NEW P \in [Slots -> Player], NEW D
  PROVE  /\ Disconnect(P, D) \in [Slots -> Player]
         /\ \A t \in Slots : Stays(P[t], Disconnect(P, D)[t])
BY VacantType DEF Disconnect, Stays, Empty

LEMMA WalkedStays ==
  ASSUME NEW P \in [Slots -> Player],
         NEW W \in SUBSET {s \in PlayingSlots(P) : P[s].pending < MaxPending}
  PROVE  /\ Walked(P, W) \in [Slots -> Player]
         /\ \A t \in Slots : Stays(P[t], Walked(P, W)[t])
<1>1. ASSUME NEW t \in Slots
      PROVE  Walked(P, W)[t] \in Player /\ Stays(P[t], Walked(P, W)[t])
  <2>1. CASE t \notin W
    BY <2>1 DEF Walked, Stays
  <2>2. CASE t \in W
    <3>1. /\ P[t].conn # Nobody /\ Inside(P[t]) /\ P[t].name \in Names
          /\ P[t].pending + 1 \in 0 .. MaxPending
      BY <2>2, StreamAssumption
      DEF PlayingSlots, Occupied, Inside, Player, Playing, Greeting
    <3>2. Walked(P, W)[t] = [P[t] EXCEPT !.pending = P[t].pending + 1]
      BY <2>2 DEF Walked
    <3> DEFINE q == [P[t] EXCEPT !.pending = P[t].pending + 1]
    <3>3. /\ q \in Player /\ q.conn = P[t].conn /\ Inside(q) = Inside(P[t])
      BY <3>1, FieldTypes
    <3> HIDE DEF q
    <3> QED BY <3>1, <3>2, <3>3 DEF Stays, q
  <2> QED BY <2>1, <2>2
<1> QED BY <1>1 DEF Walked

LEMMA DrainedStays ==
  ASSUME NEW P \in [Slots -> Player], NEW last \in Slots, NEW left \in 0 .. MaxPending,
         DrainEnds(P, last, left)
  PROVE  /\ Drained(P, last, left) \in [Slots -> Player]
         /\ \A t \in Slots :
              /\ Stays(P[t], Drained(P, last, left)[t])
              /\ Drained(P, last, left)[t].conn = P[t].conn
              /\ Inside(Drained(P, last, left)[t]) <=> Inside(P[t])
<1>1. ASSUME NEW t \in Slots
      PROVE  /\ Drained(P, last, left)[t] \in Player
             /\ Stays(P[t], Drained(P, last, left)[t])
             /\ Drained(P, last, left)[t].conn = P[t].conn
             /\ Inside(Drained(P, last, left)[t]) <=> Inside(P[t])
  <2>1. PICK k \in 0 .. MaxPending :
          /\ k > 0 => P[t].pending > 0
          /\ \/ Drained(P, last, left)[t] = [P[t] EXCEPT !.pending = k]
             \/ Drained(P, last, left)[t] = P[t]
    <3>1. 0 \in 0 .. MaxPending /\ P[t] \in Player
      BY StreamAssumption
    <3>2. CASE t < last
      BY <3>1, <3>2 DEF Drained
    <3>3. CASE t = last
      BY <3>1, <3>3 DEF Drained, DrainEnds, Streaming
    <3>4. CASE ~(t < last) /\ t # last
      BY <3>1, <3>4 DEF Drained
    <3> QED BY <3>2, <3>3, <3>4
  <2>2. P[t] \in Player /\ P[t].name \in Names
    BY DEF Player
  <2> DEFINE q == [P[t] EXCEPT !.pending = k]
  <2>3. q \in Player /\ q.conn = P[t].conn /\ q.pending = k /\ Inside(q) = Inside(P[t])
    BY <2>2, FieldTypes
  <2> HIDE DEF q
  <2> QED BY <2>1, <2>2, <2>3 DEF Stays, q
<1> QED BY <1>1 DEF Drained

LEMMA CountTailsType ==
  ASSUME NEW P, NEW F \in SUBSET Slots, joinTails \in [Conns -> Nat]
  PROVE  CountTails(P, F) \in [Conns -> Nat]
<1>1. IsFiniteSet(Slots)
  BY MaxPlayersAssumption, FS_Interval DEF Slots
<1>2. ASSUME NEW c \in Conns
      PROVE  Cardinality({s \in F : P[s].conn = c}) \in Nat
  BY <1>1, FS_Subset, FS_CardinalityType
<1> QED BY <1>2 DEF CountTails

(* The sweep of a tick, from the players as the reaper left them. *)
LEMMA SweepStays ==
  ASSUME IInv, NEW P \in [Slots -> Player], \A t \in Slots : Stays(players[t], P[t]),
         NEW W \in SUBSET {s \in PlayingSlots(P) : P[s].pending < MaxPending},
         NEW last \in Slots, NEW left \in 0 .. MaxPending,
         DrainEnds(Walked(P, W), last, left), NEW F,
         F = {s \in Emptied(Walked(P, W), Drained(Walked(P, W), last, left)) :
                FinishesJoin(Drained(Walked(P, W), last, left)[s])}
  PROVE  /\ Finished(Drained(Walked(P, W), last, left), F) \in [Slots -> Player]
         /\ \A t \in Slots :
              Stays(players[t], Finished(Drained(Walked(P, W), last, left), F)[t])
<1> DEFINE R == Walked(P, W)
           Q == Drained(R, last, left)
           Z == Finished(Q, F)
<1>1. R \in [Slots -> Player] /\ \A t \in Slots : Stays(P[t], R[t])
  BY WalkedStays
<1>2. /\ Q \in [Slots -> Player]
      /\ \A t \in Slots : /\ Stays(R[t], Q[t])
                          /\ Q[t].conn = R[t].conn /\ (Inside(Q[t]) <=> Inside(R[t]))
  BY <1>1, DrainedStays
<1>3. F \subseteq {s \in Slots : R[s].pending > 0 /\ Q[s].pending = 0}
  BY DEF Emptied
<1>4. \A t \in Slots : Z[t] = IF t \in F THEN AdvanceTo(Q[t], TilesSent) ELSE Q[t]
  BY DEF Finished
<1>5. DOMAIN Z = Slots /\ Z = [t \in Slots |-> Z[t]]
  BY DEF Finished
<1> HIDE DEF Z, Q, R
<1>6. ASSUME NEW t \in Slots
      PROVE  Z[t] \in Player /\ Stays(players[t], Z[t])
  <2>1. players[t] \in Player /\ P[t] \in Player /\ R[t] \in Player /\ Q[t] \in Player
    BY <1>1, <1>2 DEF IInv, TypeOK
  <2>2. Stays(players[t], R[t]) /\ Stays(players[t], Q[t])
    BY <2>1, <1>1, <1>2, StaysTransitive
  <2>3. CASE t \notin F
    BY <2>1, <2>2, <2>3, <1>4
  <2>4. CASE t \in F
    <3> DEFINE q == AdvanceTo(Q[t], TilesSent)
    <3>1. R[t].pending > 0 /\ Q[t].pending = 0
      BY <2>4, <1>3
    <3>2. players[t].pending > 0 => Inside(players[t])
      BY DEF IInv, Admitted
    <3>3. Inside(players[t]) /\ Inside(Q[t]) /\ Q[t].conn = players[t].conn
      BY <2>2, <3>1, <3>2, <1>2 DEF Stays, Empty
    <3>4. q \in Player /\ q.conn = Q[t].conn /\ q.pending = Q[t].pending
          /\ (Inside(Q[t]) => Inside(q))
      BY <2>1, AdvanceType, StatesAreStates
    <3> HIDE DEF q
    <3>5. Stays(players[t], q)
      BY <3>1, <3>3, <3>4 DEF Stays
    <3> QED BY <3>4, <3>5, <2>4, <1>4 DEF q
  <2> QED BY <2>3, <2>4
<1>7. Z \in [Slots -> Player]
  BY <1>5, <1>6
<1> QED BY <1>6, <1>7 DEF Z, Q, R

LEMMA TickOverKeeps == ASSUME IInv, NEW reaping, TickOver(reaping) PROVE IInv'
<1> DEFINE P == IF reaping THEN Disconnect(players, Stalled) ELSE players
<1>1. players \in [Slots -> Player] /\ joinTails \in [Conns -> Nat]
  BY DEF IInv, TypeOK
<1>2. P \in [Slots -> Player] /\ \A t \in Slots : Stays(players[t], P[t])
  <2>1. \A t \in Slots : Stays(players[t], players[t])
    BY DEF Stays
  <2> QED BY <1>1, <2>1, DisconnectStays
<1>3. PICK W \in SUBSET {s \in PlayingSlots(P) : P[s].pending < MaxPending} :
        \/ /\ \E D : players' = Disconnect(Walked(P, W), D)
           /\ UNCHANGED joinTails
        \/ \E last \in Slots, left \in 0 .. MaxPending :
             /\ DrainEnds(Walked(P, W), last, left)
             /\ LET Q == Drained(Walked(P, W), last, left)
                    F == {s \in Emptied(Walked(P, W), Q) : FinishesJoin(Q[s])} IN
                /\ joinTails' = CountTails(Q, F)
                /\ \E D : players' = Disconnect(Finished(Q, F), D)
  BY DEF TickOver
<1> HIDE DEF P
<1>4. ASSUME NEW Z \in [Slots -> Player], \A t \in Slots : Stays(players[t], Z[t]),
             NEW D, players' = Disconnect(Z, D)
      PROVE  players' \in [Slots -> Player] /\ \A t \in Slots : Stays(players[t], players'[t])
  BY <1>1, <1>4, DisconnectStays, StaysTransitive
<1>5. /\ players' \in [Slots -> Player] /\ joinTails' \in [Conns -> Nat]
      /\ \A t \in Slots : Stays(players[t], players'[t])
  <2>1. CASE (\E D : players' = Disconnect(Walked(P, W), D)) /\ UNCHANGED joinTails
    <3>1. /\ Walked(P, W) \in [Slots -> Player]
          /\ \A t \in Slots : Stays(P[t], Walked(P, W)[t])
      BY <1>2, WalkedStays
    <3>2. \A t \in Slots : Stays(players[t], Walked(P, W)[t])
      BY <1>1, <1>2, <3>1, StaysTransitive
    <3> QED BY <1>1, <1>4, <2>1, <3>1, <3>2
  <2>2. ASSUME NEW last \in Slots, NEW left \in 0 .. MaxPending,
               DrainEnds(Walked(P, W), last, left),
               LET Q == Drained(Walked(P, W), last, left)
                   F == {s \in Emptied(Walked(P, W), Q) : FinishesJoin(Q[s])} IN
               /\ joinTails' = CountTails(Q, F)
               /\ \E D : players' = Disconnect(Finished(Q, F), D)
        PROVE  /\ players' \in [Slots -> Player] /\ joinTails' \in [Conns -> Nat]
               /\ \A t \in Slots : Stays(players[t], players'[t])
    <3> DEFINE Q == Drained(Walked(P, W), last, left)
               F == {s \in Emptied(Walked(P, W), Q) : FinishesJoin(Q[s])}
    <3>0. PICK D : joinTails' = CountTails(Q, F) /\ players' = Disconnect(Finished(Q, F), D)
      BY <2>2
    <3>1. /\ Finished(Q, F) \in [Slots -> Player]
          /\ \A t \in Slots : Stays(players[t], Finished(Q, F)[t])
      BY <1>2, <2>2, SweepStays
    <3>2. F \in SUBSET Slots
      BY DEF Emptied
    <3> HIDE DEF Q, F
    <3>3. joinTails' \in [Conns -> Nat]
      BY <1>1, <3>0, <3>2, CountTailsType
    <3> DEFINE Z == Finished(Q, F)
    <3>4. Z \in [Slots -> Player] /\ (\A t \in Slots : Stays(players[t], Z[t]))
          /\ players' = Disconnect(Z, D)
      BY <3>0, <3>1
    <3> HIDE DEF Z
    <3>5. players' \in [Slots -> Player] /\ \A t \in Slots : Stays(players[t], players'[t])
      BY <3>4, <1>4
    <3> QED BY <3>3, <3>5
  <2>3. CASE \E last \in Slots, left \in 0 .. MaxPending :
               /\ DrainEnds(Walked(P, W), last, left)
               /\ LET Q == Drained(Walked(P, W), last, left)
                      F == {s \in Emptied(Walked(P, W), Q) : FinishesJoin(Q[s])} IN
                  /\ joinTails' = CountTails(Q, F)
                  /\ \E D : players' = Disconnect(Finished(Q, F), D)
    BY <2>3, <2>2
  <2> QED BY <1>3, <2>1, <2>3
<1>6. \A t \in Slots : Evolves(players[t], players'[t])
  BY <1>5 DEF Stays, Evolves
<1> QED BY <1>5, <1>6, HandlerKeeps DEF TickOver, Reads, IInv, TypeOK

(* ---- the theorems --------------------------------------------------------------------------- *)

LEMMA InitIInv == Init => IInv
<1> SUFFICES ASSUME Init PROVE IInv
  OBVIOUS
<1>1. TypeOK
  BY VacantType, EpochAssumption, QueueAssumption DEF Init, TypeOK
<1>2. Stamps
  BY VacantType DEF Init, Stamps, CountsEpochs, StampsIssued, StampsUnique, JoinOnce, Stamped,
     Seated, Served
<1>3. Admitted
  BY VacantType DEF Init, Admitted
<1> QED BY <1>1, <1>2, <1>3 DEF IInv

LEMMA NextIInv == IInv /\ [Next]_vars => IInv'
<1> SUFFICES ASSUME IInv, [Next]_vars PROVE IInv'
  OBVIOUS
<1>1. ASSUME NEW c \in Conns, Connect(c) PROVE IInv'
  BY <1>1, ConnectKeeps
<1>2. ASSUME NEW c \in Conns, Close(c) PROVE IInv'
  BY <1>2, CloseKeeps
<1>3. ASSUME NEW c \in Conns, NEW m \in Messages, Forward(c, m) PROVE IInv'
  BY <1>3, ForwardKeeps
<1>4. CASE HandleJoin \/ DropGhost \/ HandleLeave \/ HandleVacant \/ RefuseEarly
  BY <1>4, HandleJoinKeeps, DropGhostKeeps, HandleLeaveKeeps, HandleVacantKeeps, RefuseEarlyKeeps
<1>5. CASE Packets
  BY <1>5, OnHelloKeeps, OnPasswordKeeps, OnSyncPlayerKeeps, OnClientUuidKeeps,
     OnRequestWorldDataKeeps, OnSpawnTileDataKeeps, OnPlayerSpawnKeeps, OnPlayKeeps DEF Packets
<1>6. CASE OperatorKick
  BY <1>6, OperatorKickKeeps
<1>7. ASSUME NEW n \in Bannable, Ban(n) \/ Unban(n) PROVE IInv'
  BY <1>7, BanKeeps, UnbanKeeps
<1>8. ASSUME NEW s \in Slots, DeadlinePasses(s) PROVE IInv'
  BY <1>8, DeadlinePassesKeeps
<1>9. CASE Reap \/ Tick
  BY <1>9, TickOverKeeps DEF Reap, Tick
<1>10. CASE UNCHANGED vars
  <2>1. UNCHANGED <<task, assigned, events, players, epochs, banned, issued, proved, joinTails>>
    BY <1>10 DEF vars
  <2> QED BY <2>1, QuietKeeps DEF Reads
<1> QED
  BY <1>1, <1>2, <1>3, <1>4, <1>5, <1>6, <1>7, <1>8, <1>9, <1>10 DEF Next, HandleEvent

LEMMA SafetyIInv == Safety => []IInv
<1>1. Init => IInv
  BY InitIInv
<1>2. IInv /\ [Next]_vars => IInv'
  BY NextIInv
<1> QED BY <1>1, <1>2, PTL DEF Safety

(* The state is well typed whatever the clients, the operator and the clock do. *)
THEOREM TypeCorrect == Safety => []TypeOK
<1>1. IInv => TypeOK
  BY DEF IInv
<1> QED BY <1>1, SafetyIInv, PTL

(* A packet or a leave that passes the epoch check of slot_epoch_current comes     *)
(* from whoever has the slot: remove_player and the handlers never act for a        *)
(* newcomer on what its predecessor sent.                                            *)
THEOREM NoGhostActs == Safety => []GhostsAreHarmless
<1>1. IInv => GhostsAreHarmless
  BY CurrentIsOccupant DEF IInv, GhostsAreHarmless
<1> QED BY <1>1, SafetyIInv, PTL

(* On a server with a password, whoever is past the greeting gave the right one on  *)
(* the connection they are on: on_password decides for nobody else.                 *)
THEOREM NoOneElsesPassword == Safety => []AdmittedByOwnPassword
<1>1. IInv => AdmittedByOwnPassword
  BY DEF IInv, Admitted, AdmittedByOwnPassword, Occupied, Inside
<1> QED BY <1>1, SafetyIInv, PTL

(* ---- the tail of the join stream, and names ---------------------------------------------------- *)

Tailed(p) == p.state >= TilesSent

(* Whoever is in a slot has been sent the tail if they are that far and not before; nobody *)
(* who was never given a slot has been sent one.                                            *)
Tails ==
  /\ \A c \in Conns : joinTails[c] \in {0, 1} /\ (joinTails[c] = 1 => Served(c))
  /\ \A s \in Slots : players[s].conn # Nobody =>
       (joinTails[players[s].conn] = 1 <=> Tailed(players[s]))

(* Two players who share a name have it from a slot, in the world or on the way in. *)
NamesApart ==
  \A s, t \in Slots :
    s # t /\ players[s].conn # Nobody /\ players[t].conn # Nobody /\ players[s].name = players[t].name
      => \E u \in {s, t} : players[u].name = DefaultName(u)

(* What everything but a Join, a new name and the end of a section queue does to one slot. *)
Steady(p, q) ==
  \/ q.conn = Nobody
  \/ q.conn = p.conn /\ q.name = p.name /\ (Tailed(q) <=> Tailed(p))

LEMMA SteadySame == \A p : Steady(p, p)
BY DEF Steady

LEMMA SteadyTransitive ==
  ASSUME NEW p, NEW q, NEW r, Steady(p, q), Steady(q, r)
  PROVE  Steady(p, r)
BY DEF Steady

LEMMA FieldSteady ==
  ASSUME NEW p \in Player, NEW k
  PROVE  /\ Steady(p, [p EXCEPT !.greeted = TRUE]) /\ Steady(p, [p EXCEPT !.overdue = TRUE])
         /\ Steady(p, [p EXCEPT !.pending = k])
BY DEF Player, Steady, Tailed

LEMMA AdvanceSteady ==
  ASSUME NEW p \in Player, NEW st \in Greeting .. Playing
  PROVE  /\ AdvanceTo(p, st).conn = p.conn /\ AdvanceTo(p, st).name = p.name
         /\ st < TilesSent \/ Tailed(p) => Steady(p, AdvanceTo(p, st))
         /\ st = TilesSent => Tailed(AdvanceTo(p, st))
<1> DEFINE q == [p EXCEPT !.state = st]
<1>1. q.conn = p.conn /\ q.name = p.name /\ q.state = st
  BY DEF Player
<1>2. p.state \in Nat /\ st \in Nat
  BY DEF Player, Greeting, Playing
<1>3. AdvanceTo(p, st) = IF st > p.state THEN q ELSE p
  BY DEF AdvanceTo
<1> HIDE DEF q
<1> QED BY <1>1, <1>2, <1>3 DEF Steady, Tailed, TilesSent

LEMMA AcceptSteady ==
  ASSUME NEW p \in Player
  PROVE  Steady(p, AcceptPlayer(p))
<1> DEFINE q == [p EXCEPT !.password_ok = TRUE]
<1>1. q \in Player /\ Steady(p, q)
  BY DEF Player, Steady, Tailed
<1>2. SlotAssigned \in Greeting .. Playing /\ SlotAssigned < TilesSent
  BY DEF SlotAssigned, Greeting, Playing, TilesSent
<1> HIDE DEF q
<1>3. Steady(q, AdvanceTo(q, SlotAssigned))
  BY <1>1, <1>2, AdvanceSteady
<1> QED BY <1>1, <1>3, SteadyTransitive DEF AcceptPlayer, q

LEMMA DisconnectDrops ==
  ASSUME NEW P, NEW D
  PROVE  \A t \in Slots : Disconnect(P, D)[t] = P[t] \/ Disconnect(P, D)[t].conn = Nobody
BY VacantType DEF Disconnect

LEMMA SentDrops ==
  ASSUME NEW P, NEW s, Sent(P, s)
  PROVE  \A t \in Slots : players'[t] = P[t] \/ players'[t].conn = Nobody
BY DisconnectDrops DEF Sent

LEMMA KickSteady ==
  ASSUME NEW s, Kick(s)
  PROVE  \A t \in Slots : Steady(players[t], players'[t])
<1>1. \A t \in Slots : \/ players'[t] = Disconnect(players, {s})[t]
                       \/ players'[t].conn = Nobody
  BY SentDrops DEF Kick
<1> QED BY <1>1, DisconnectDrops, SteadySame DEF Steady

LEMMA SentOneSteady ==
  ASSUME players \in [Slots -> Player], NEW s \in Slots, NEW q,
         Sent([players EXCEPT ![s] = q], s), Steady(players[s], q)
  PROVE  \A t \in Slots : Steady(players[t], players'[t])
<1> DEFINE P == [players EXCEPT ![s] = q]
<1>1. \A t \in Slots : P[t] = IF t = s THEN q ELSE players[t]
  OBVIOUS
<1>2. \A t \in Slots : players'[t] = P[t] \/ players'[t].conn = Nobody
  BY SentDrops
<1> HIDE DEF P
<1> QED BY <1>1, <1>2, SteadySame DEF Steady

LEMMA NamesKept ==
  ASSUME NamesApart,
         \A t \in Slots : \/ players'[t].conn = Nobody
                          \/ players'[t].conn = players[t].conn /\ players'[t].name = players[t].name
  PROVE  NamesApart'
<1> SUFFICES ASSUME NEW s \in Slots, NEW t \in Slots, s # t,
                    players'[s].conn # Nobody, players'[t].conn # Nobody,
                    players'[s].name = players'[t].name
             PROVE  \E u \in {s, t} : players'[u].name = DefaultName(u)
  BY DEF NamesApart
<1>1. PICK u \in {s, t} : players[u].name = DefaultName(u)
  BY DEF NamesApart
<1> QED BY <1>1

LEMMA SteadyKeeps ==
  ASSUME Tails, NamesApart, joinTails' = joinTails,
         \A c \in Conns : Served(c) => Served(c)',
         \A t \in Slots : Steady(players[t], players'[t])
  PROVE  Tails' /\ NamesApart'
<1>1. NamesApart'
  BY NamesKept DEF Steady
<1>2. ASSUME NEW s \in Slots, players'[s].conn # Nobody
      PROVE  joinTails'[players'[s].conn] = 1 <=> Tailed(players'[s])
  BY <1>2 DEF Tails, Steady
<1>3. \A c \in Conns : joinTails'[c] \in {0, 1} /\ (joinTails'[c] = 1 => Served(c)')
  BY DEF Tails
<1> QED BY <1>1, <1>2, <1>3 DEF Tails, Tailed

LEMMA TasksKeepTails ==
  ASSUME IInv, Tails, NamesApart, NEW c \in Conns,
         Connect(c) \/ Close(c) \/ \E m \in Messages : Forward(c, m)
  PROVE  Tails' /\ NamesApart'
<1>1. \A d \in Conns : Served(d) => Served(d)'
  BY DEF Connect, Close, Forward, Served, IInv, TypeOK
<1>2. joinTails' = joinTails /\ players' = players
  BY DEF Connect, Close, Forward
<1> QED BY <1>1, <1>2, SteadySame, SteadyKeeps

LEMMA JoinKeepsTails ==
  ASSUME IInv, Tails, NamesApart, HandleJoin
  PROVE  Tails' /\ NamesApart'
<1> DEFINE c == Head(events).conn
<1>1. c \in Conns /\ ~Served(c) /\ joinTails' = joinTails
  BY JoinHead DEF HandleJoin
<1>2. CASE task' = [task EXCEPT ![c] = "refused"] /\ UNCHANGED players
  <2>1. \A d \in Conns : Served(d) => Served(d)'
    BY <1>1, <1>2 DEF Served, IInv, TypeOK
  <2> QED BY <1>1, <1>2, <2>1, SteadySame, SteadyKeeps
<1>3. ASSUME NEW s \in Slots, players' = [players EXCEPT ![s] = NewPlayer(c, s)],
             task' = [task EXCEPT ![c] = "serving"]
      PROVE  Tails' /\ NamesApart'
  <2> DEFINE n == NewPlayer(c, s)
  <2>1. n.conn = c /\ n.name = DefaultName(s) /\ ~Tailed(n)
    <3> DEFINE v == [Vacant EXCEPT !.conn = c]
    <3>1. v \in Player /\ v.conn = c /\ v.state = 0
      BY <1>1, VacantType DEF Player, Vacant, Greeting
    <3>2. n = [v EXCEPT !.name = DefaultName(s)]
      BY DEF NewPlayer
    <3> HIDE DEF v, n
    <3> QED BY <3>1, <3>2 DEF Player, Tailed, TilesSent
  <2>2. \A t \in Slots : players'[t] = IF t = s THEN n ELSE players[t]
    BY <1>3 DEF IInv, TypeOK
  <2> HIDE DEF n, c
  <2>3. \A d \in Conns : Served(d) => Served(d)'
    BY <1>1, <1>3 DEF Served, IInv, TypeOK
  <2>4. joinTails[c] # 1
    BY <1>1 DEF Tails
  <2>5. Tails'
    <3>1. ASSUME NEW t \in Slots, players'[t].conn # Nobody
          PROVE  joinTails'[players'[t].conn] = 1 <=> Tailed(players'[t])
      BY <1>1, <2>1, <2>2, <2>4, <3>1 DEF Tails
    <3>2. \A d \in Conns : joinTails'[d] \in {0, 1} /\ (joinTails'[d] = 1 => Served(d)')
      BY <1>1, <2>3 DEF Tails
    <3> QED BY <3>1, <3>2 DEF Tails, Tailed
  <2>6. NamesApart'
    <3> SUFFICES ASSUME NEW a \in Slots, NEW b \in Slots, a # b,
                        players'[a].conn # Nobody, players'[b].conn # Nobody,
                        players'[a].name = players'[b].name
                 PROVE  \E u \in {a, b} : players'[u].name = DefaultName(u)
      BY DEF NamesApart
    <3>1. CASE s \in {a, b}
      BY <2>1, <2>2, <3>1
    <3>2. CASE s \notin {a, b}
      <4>1. players'[a] = players[a] /\ players'[b] = players[b]
        BY <2>2, <3>2
      <4>2. PICK u \in {a, b} : players[u].name = DefaultName(u)
        BY <4>1 DEF NamesApart
      <4> QED BY <4>1, <4>2
    <3> QED BY <3>1, <3>2
  <2> QED BY <2>5, <2>6
<1> QED BY <1>2, <1>3 DEF HandleJoin

(* The messages that neither name anybody nor end a queue. *)
LEMMA EventsSteady ==
  ASSUME IInv,
         \/ DropGhost \/ HandleLeave \/ HandleVacant \/ RefuseEarly \/ OnHello \/ OnPassword
         \/ OnClientUuid \/ OnRequestWorldData \/ OnSpawnTileData \/ OnPlayerSpawn \/ OnPlay
  PROVE  \A t \in Slots : Steady(players[t], players'[t])
<1>0. /\ players \in [Slots -> Player]
      /\ players' = players => \A t \in Slots : Steady(players[t], players'[t])
  BY SteadySame DEF IInv, TypeOK
<1>1. CASE DropGhost \/ HandleVacant
  BY <1>0, <1>1 DEF DropGhost, HandleVacant
<1>2. CASE HandleLeave \/ RefuseEarly
  <2>1. PICK s : Kick(s)
    BY <1>2 DEF HandleLeave, RefuseEarly, Kick
  <2> QED BY <2>1, KickSteady
<1>3. CASE OnHello
  <2>1. PICK s \in Slots :
          \/ UNCHANGED players
          \/ Kick(s)
          \/ Sent([players EXCEPT ![s] =
                     IF PasswordSet THEN [players[s] EXCEPT !.greeted = TRUE]
                     ELSE AcceptPlayer([players[s] EXCEPT !.greeted = TRUE])], s)
    BY <1>3 DEF OnHello
  <2> DEFINE p == players[s]
             g == [p EXCEPT !.greeted = TRUE]
             q == IF PasswordSet THEN g ELSE AcceptPlayer(g)
  <2>2. g \in Player /\ Steady(p, g)
    BY <1>0, FieldSteady DEF Player
  <2> HIDE DEF g
  <2>3. Steady(p, q)
    BY <2>2, AcceptSteady, SteadyTransitive
  <2> HIDE DEF q
  <2>4. CASE Sent([players EXCEPT ![s] = q], s)
    BY <1>0, <2>3, <2>4, SentOneSteady
  <2> QED BY <1>0, <2>1, <2>4, KickSteady DEF q, g
<1>4. CASE OnPassword
  <2>1. PICK s \in Slots :
          \/ UNCHANGED players
          \/ Kick(s)
          \/ Sent([players EXCEPT ![s] = AcceptPlayer(players[s])], s)
    BY <1>4 DEF OnPassword
  <2>2. Steady(players[s], AcceptPlayer(players[s]))
    BY <1>0, AcceptSteady
  <2> QED BY <1>0, <2>1, <2>2, KickSteady, SentOneSteady
<1>5. CASE OnClientUuid
  <2>1. PICK s \in Slots : Kick(s) \/ UNCHANGED players
    BY <1>5 DEF OnClientUuid
  <2> QED BY <1>0, <2>1, KickSteady
<1>6. CASE OnRequestWorldData
  <2>1. PICK s \in Slots : Sent([players EXCEPT ![s] = AdvanceTo(players[s], WorldSent)], s)
    BY <1>6 DEF OnRequestWorldData
  <2>2. WorldSent < TilesSent
    BY DEF WorldSent, TilesSent
  <2>3. Steady(players[s], AdvanceTo(players[s], WorldSent))
    BY <1>0, <2>2, StatesAreStates, AdvanceSteady
  <2> QED BY <1>0, <2>1, <2>3, SentOneSteady
<1>7. CASE OnSpawnTileData
  <2>1. PICK s \in Slots : Sent([players EXCEPT ![s].pending = StreamSize], s)
    BY <1>7 DEF OnSpawnTileData
  <2>2. Steady(players[s], [players[s] EXCEPT !.pending = StreamSize])
    BY <1>0, FieldSteady
  <2> QED BY <1>0, <2>1, <2>2, SentOneSteady
<1>8. CASE OnPlayerSpawn
  <2>1. PICK s \in Slots :
          \/ UNCHANGED players
          \/ /\ ~(players[s].state < TilesSent)
             /\ Sent([players EXCEPT ![s] = AdvanceTo(players[s], Playing)], s)
    BY <1>8 DEF OnPlayerSpawn
  <2>2. players[s].state \in Nat
    BY <1>0 DEF Player, Greeting, Playing
  <2>3. ~(players[s].state < TilesSent) => Tailed(players[s])
    BY <2>2 DEF Tailed, TilesSent
  <2>4. Tailed(players[s]) => Steady(players[s], AdvanceTo(players[s], Playing))
    BY <1>0, StatesAreStates, AdvanceSteady
  <2> QED BY <1>0, <2>1, <2>3, <2>4, SentOneSteady
<1>9. CASE OnPlay
  <2>1. PICK s \in Slots : Sent(players, s)
    BY <1>9 DEF OnPlay
  <2> QED BY <2>1, SentDrops, SteadySame DEF Steady
<1> QED BY <1>1, <1>2, <1>3, <1>4, <1>5, <1>6, <1>7, <1>8, <1>9

LEMMA EventsKeepTails ==
  ASSUME IInv, Tails, NamesApart,
         \/ DropGhost \/ HandleLeave \/ HandleVacant \/ RefuseEarly \/ OnHello \/ OnPassword
         \/ OnClientUuid \/ OnRequestWorldData \/ OnSpawnTileData \/ OnPlayerSpawn \/ OnPlay
  PROVE  Tails' /\ NamesApart'
<1>1. joinTails' = joinTails /\ task' = task
  BY DEF DropGhost, HandleLeave, HandleVacant, RefuseEarly, OnHello, OnPassword, OnClientUuid,
     OnRequestWorldData, OnSpawnTileData, OnPlayerSpawn, OnPlay
<1> QED BY <1>1, EventsSteady, SteadyKeeps DEF Served

(* Whoever asks for a name gets it if nobody else has it, and keeps their own if they ask *)
(* for none.                                                                                *)
LEMMA NamingKeeps ==
  ASSUME IInv, Tails, NamesApart, OnSyncPlayer
  PROVE  Tails' /\ NamesApart'
<1> DEFINE wanted == Head(events).msg.arg
           named(p) == IF wanted = "" THEN p.name ELSE wanted
<1>1. PICK s \in Slots :
        /\ Accepted("SyncPlayer", s)
        /\ \/ Kick(s)
           \/ /\ ~NameTaken(s, wanted)
              /\ Sent([players EXCEPT ![s] =
                         AdvanceTo([players[s] EXCEPT !.name = named(players[s])], Identified)], s)
  BY DEF OnSyncPlayer
<1>2. joinTails' = joinTails /\ task' = task /\ players \in [Slots -> Player]
  BY DEF OnSyncPlayer, IInv, TypeOK
<1>3. CASE Kick(s)
  BY <1>2, <1>3, KickSteady, SteadyKeeps DEF Served
<1>4. CASE /\ ~NameTaken(s, wanted)
           /\ Sent([players EXCEPT ![s] =
                      AdvanceTo([players[s] EXCEPT !.name = named(players[s])], Identified)], s)
  <2> DEFINE r == [players[s] EXCEPT !.name = named(players[s])]
             q == AdvanceTo(r, Identified)
             P == [players EXCEPT ![s] = q]
  <2>1. wanted \in Names
    <3>1. \A msg \in Messages : msg.id = "SyncPlayer" => msg.arg \in Names
      BY DEF Names
    <3>2. NoMsg.id # "SyncPlayer"
      BY DEF NoMsg
    <3> QED BY <1>1, <3>1, <3>2, AcceptedFacts
  <2>2. named(players[s]) \in Names
    BY <1>2, <2>1 DEF Player
  <2>3. /\ r \in Player /\ r.conn = players[s].conn /\ r.state = players[s].state
        /\ r.name = IF wanted = "" THEN players[s].name ELSE wanted
    BY <1>2, <2>2 DEF Player
  <2> HIDE DEF r
  <2>4. Identified < TilesSent
    BY DEF Identified, TilesSent
  <2>5. q.conn = r.conn /\ q.name = r.name /\ Steady(r, q)
    BY <2>3, <2>4, StatesAreStates, AdvanceSteady
  <2>6. \A t \in Slots : P[t] = IF t = s THEN q ELSE players[t]
    BY <1>2
  <2>7. \A t \in Slots : players'[t] = P[t] \/ players'[t].conn = Nobody
    BY <1>4, SentDrops DEF r
  <2> HIDE DEF P, q
  <2>8. Tails'
    <3>1. ASSUME NEW t \in Slots, players'[t].conn # Nobody
          PROVE  joinTails'[players'[t].conn] = 1 <=> Tailed(players'[t])
      <4>1. CASE t = s
        <5>1. players'[t] = q /\ q.conn = players[s].conn
          BY <2>3, <2>5, <2>6, <2>7, <3>1, <4>1
        <5>2. Tailed(q) <=> Tailed(players[s])
          BY <2>3, <2>5, <3>1, <5>1 DEF Steady, Tailed
        <5> QED BY <1>2, <3>1, <4>1, <5>1, <5>2 DEF Tails
      <4>2. CASE t # s
        BY <1>2, <2>6, <2>7, <3>1, <4>2 DEF Tails
      <4> QED BY <4>1, <4>2
    <3>2. \A d \in Conns : joinTails'[d] \in {0, 1} /\ (joinTails'[d] = 1 => Served(d)')
      BY <1>2 DEF Tails, Served
    <3> QED BY <3>1, <3>2 DEF Tails, Tailed
  <2>9. CASE wanted = ""
    <3>1. \A t \in Slots : \/ players'[t].conn = Nobody
                           \/ players'[t].conn = players[t].conn /\ players'[t].name = players[t].name
      BY <2>3, <2>5, <2>6, <2>7, <2>9
    <3> QED BY <2>8, <3>1, NamesKept
  <2>10. CASE wanted # ""
    <3>1. \A t \in Slots : t # s /\ players[t].conn # Nobody => players[t].name # wanted
      BY <1>4, <2>10 DEF NameTaken, Occupied
    <3>2. q.name = wanted
      BY <2>3, <2>5, <2>10
    <3> SUFFICES ASSUME NEW a \in Slots, NEW b \in Slots, a # b,
                        players'[a].conn # Nobody, players'[b].conn # Nobody,
                        players'[a].name = players'[b].name
                 PROVE  \E u \in {a, b} : players'[u].name = DefaultName(u)
      BY <2>8 DEF NamesApart
    <3> HIDE DEF wanted
    <3>3. players'[a] = P[a] /\ players'[b] = P[b]
      BY <2>7
    <3>4. a # s /\ b # s
      BY <2>6, <3>1, <3>2, <3>3
    <3>5. players'[a] = players[a] /\ players'[b] = players[b]
      BY <2>6, <3>3, <3>4
    <3>6. PICK u \in {a, b} : players[u].name = DefaultName(u)
      BY <3>5 DEF NamesApart
    <3> QED BY <3>5, <3>6
  <2> QED BY <2>8, <2>9, <2>10
<1> QED BY <1>1, <1>3, <1>4

LEMMA CommandsKeepTails ==
  ASSUME IInv, Tails, NamesApart,
         \/ OperatorKick \/ (\E n \in Bannable : Ban(n) \/ Unban(n))
         \/ \E s \in Slots : DeadlinePasses(s)
  PROVE  Tails' /\ NamesApart'
<1>1. joinTails' = joinTails /\ task' = task
  BY DEF OperatorKick, Ban, Unban, DeadlinePasses
<1>2. ASSUME NEW s, Kick(s) PROVE \A t \in Slots : Steady(players[t], players'[t])
  BY <1>2, KickSteady
<1>3. ASSUME NEW D, players' = Disconnect(players, D)
      PROVE  \A t \in Slots : Steady(players[t], players'[t])
  BY <1>3, DisconnectDrops, SteadySame DEF Steady
<1>4. ASSUME NEW s \in Slots, DeadlinePasses(s)
      PROVE  \A t \in Slots : Steady(players[t], players'[t])
  <2>1. players \in [Slots -> Player] /\ players' = [players EXCEPT ![s].overdue = TRUE]
    BY <1>4 DEF DeadlinePasses, IInv, TypeOK
  <2>2. Steady(players[s], [players[s] EXCEPT !.overdue = TRUE])
    BY <2>1, FieldSteady
  <2> QED BY <2>1, <2>2, SteadySame
<1>5. \A t \in Slots : Steady(players[t], players'[t])
  BY <1>2, <1>3, <1>4, SteadySame DEF OperatorKick, Ban, Unban
<1> QED BY <1>1, <1>5, SteadyKeeps DEF Served

LEMMA WalkedSteady ==
  ASSUME NEW P \in [Slots -> Player], NEW W
  PROVE  \A t \in Slots : Steady(P[t], Walked(P, W)[t])
<1> SUFFICES ASSUME NEW t \in Slots PROVE Steady(P[t], Walked(P, W)[t])
  OBVIOUS
<1>1. Walked(P, W)[t] \in {P[t], [P[t] EXCEPT !.pending = P[t].pending + 1]}
  BY DEF Walked
<1>2. P[t] \in Player
  OBVIOUS
<1>3. \A k : Steady(P[t], [P[t] EXCEPT !.pending = k])
  BY <1>2, FieldSteady
<1> QED BY <1>1, <1>3, SteadySame

LEMMA DrainedSteady ==
  ASSUME NEW P \in [Slots -> Player], NEW last, NEW left
  PROVE  \A t \in Slots : Steady(P[t], Drained(P, last, left)[t])
<1> SUFFICES ASSUME NEW t \in Slots PROVE Steady(P[t], Drained(P, last, left)[t])
  OBVIOUS
<1>1. \E k : Drained(P, last, left)[t] \in {P[t], [P[t] EXCEPT !.pending = k]}
  BY DEF Drained
<1>2. P[t] \in Player
  OBVIOUS
<1>3. \A k : Steady(P[t], [P[t] EXCEPT !.pending = k])
  BY <1>2, FieldSteady
<1> QED BY <1>1, <1>3, SteadySame

(* What a drain that empties the queues of F does: one tail more for each, who had none. *)
LEMMA DrainKeepsTails ==
  ASSUME IInv, Tails, task' = task,
         NEW Q \in [Slots -> Player], \A t \in Slots : Steady(players[t], Q[t]),
         NEW F \in SUBSET Slots, \A t \in F : FinishesJoin(Q[t]),
         joinTails' = CountTails(Q, F),
         \A t \in Slots : players'[t] = Finished(Q, F)[t] \/ players'[t].conn = Nobody
  PROVE  Tails' /\ \A t \in Slots :
                    \/ players'[t].conn = Nobody
                    \/ players'[t].conn = players[t].conn /\ players'[t].name = players[t].name
<1> DEFINE Owed(c) == {s \in F : Q[s].conn = c}
<1>1. /\ \A c \in Conns : joinTails'[c] = joinTails[c] + Cardinality(Owed(c))
      /\ joinTails \in [Conns -> Nat]
  BY DEF CountTails, IInv, TypeOK
<1>2. \A t \in F : ~Tailed(Q[t])
  <2> SUFFICES ASSUME NEW t \in F PROVE ~Tailed(Q[t])
    OBVIOUS
  <2>1. Q[t].state \in Nat /\ Q[t].state < TilesSent
    BY DEF Player, Greeting, Playing, FinishesJoin
  <2> QED BY <2>1 DEF Tailed, TilesSent
<1>3. ASSUME NEW c \in Conns, NEW s \in Owed(c)
      PROVE  /\ players[s].conn = c /\ Served(c) /\ s = assigned[c].slot
             /\ joinTails[c] = 0 /\ Owed(c) = {s}
  <2>1. ASSUME NEW t \in Owed(c)
        PROVE  t \in Slots /\ players[t].conn = c /\ Served(c) /\ assigned[c].slot = t
               /\ ~Tailed(players[t])
    <3>1. Q[t].conn = c /\ t \in F /\ c # Nobody
      BY ConnsAssumption
    <3>2. players[t].conn = c /\ ~Tailed(players[t])
      BY <1>2, <3>1 DEF Steady
    <3> QED BY <3>1, <3>2 DEF IInv, Stamps, Seated
  <2>2. joinTails[c] = 0
    BY <2>1, ConnsAssumption DEF Tails
  <2> QED BY <2>1, <2>2
<1>4. ASSUME NEW c \in Conns
      PROVE  \/ Owed(c) = {} /\ joinTails'[c] = joinTails[c]
             \/ joinTails'[c] = 1 /\ Served(c)
  <2>1. CASE Owed(c) = {}
    BY <1>1, <2>1, FS_EmptySet
  <2>2. CASE Owed(c) # {}
    <3>1. PICK s \in Owed(c) : TRUE
      BY <2>2
    <3>2. Owed(c) = {s} /\ joinTails[c] = 0 /\ Served(c)
      BY <1>3
    <3>3. Cardinality({s}) = 1
      BY FS_Singleton
    <3> QED BY <1>1, <3>2, <3>3
  <2> QED BY <2>1, <2>2
<1>5. ASSUME NEW t \in Slots, players'[t].conn # Nobody
      PROVE  /\ players'[t].conn = players[t].conn /\ players'[t].name = players[t].name
             /\ joinTails'[players'[t].conn] = 1 <=> Tailed(players'[t])
  <2> DEFINE c == players[t].conn
  <2>1. players'[t] = IF t \in F THEN AdvanceTo(Q[t], TilesSent) ELSE Q[t]
    BY <1>5 DEF Finished
  <2>2. CASE t \in F
    <3>1. /\ players'[t].conn = Q[t].conn /\ players'[t].name = Q[t].name /\ Tailed(players'[t])
      BY <2>1, <2>2, StatesAreStates, AdvanceSteady
    <3>2. Q[t].conn = c /\ Q[t].name = players[t].name
      BY <1>5, <3>1 DEF Steady
    <3>3. c \in Conns
      BY <1>5, <3>1, <3>2 DEF Player
    <3>4. t \in Owed(c)
      BY <2>2, <3>2
    <3>5. joinTails'[c] = 1
      BY <1>4, <3>3, <3>4
    <3> QED BY <3>1, <3>2, <3>5
  <2>3. CASE t \notin F
    <3>1. players'[t] = Q[t] /\ Q[t].conn = c /\ Q[t].name = players[t].name
          /\ (Tailed(Q[t]) <=> Tailed(players[t]))
      BY <1>5, <2>1, <2>3 DEF Steady
    <3>2. c \in Conns /\ c # Nobody /\ assigned[c].slot = t
      BY <1>5, <3>1 DEF Player, IInv, Stamps, Seated
    <3>3. Owed(c) = {}
      <4> SUFFICES ASSUME NEW s \in Owed(c) PROVE FALSE
        OBVIOUS
      <4> QED BY <1>3, <2>3, <3>2
    <3>4. joinTails'[c] = joinTails[c]
      BY <1>1, <3>2, <3>3, FS_EmptySet
    <3> QED BY <3>1, <3>2, <3>4 DEF Tails
  <2> QED BY <2>2, <2>3
<1>6. \A c \in Conns : joinTails'[c] \in {0, 1} /\ (joinTails'[c] = 1 => Served(c)')
  BY <1>4 DEF Tails, Served
<1> QED BY <1>5, <1>6 DEF Tails, Tailed

LEMMA TickOverKeepsTails ==
  ASSUME IInv, Tails, NamesApart, NEW reaping, TickOver(reaping)
  PROVE  Tails' /\ NamesApart'
<1> DEFINE P == IF reaping THEN Disconnect(players, Stalled) ELSE players
<1>1. players \in [Slots -> Player] /\ task' = task
  BY DEF IInv, TypeOK, TickOver
<1>2. P \in [Slots -> Player] /\ \A t \in Slots : Steady(players[t], P[t])
  BY <1>1, DisconnectStays, DisconnectDrops, SteadySame DEF Steady
<1>3. PICK W \in SUBSET {s \in PlayingSlots(P) : P[s].pending < MaxPending} :
        \/ /\ \E D : players' = Disconnect(Walked(P, W), D)
           /\ UNCHANGED joinTails
        \/ \E last \in Slots, left \in 0 .. MaxPending :
             /\ DrainEnds(Walked(P, W), last, left)
             /\ LET Q == Drained(Walked(P, W), last, left)
                    F == {s \in Emptied(Walked(P, W), Q) : FinishesJoin(Q[s])} IN
                /\ joinTails' = CountTails(Q, F)
                /\ \E D : players' = Disconnect(Finished(Q, F), D)
  BY DEF TickOver
<1> HIDE DEF P
<1> DEFINE R == Walked(P, W)
<1>4. R \in [Slots -> Player] /\ \A t \in Slots : Steady(players[t], R[t])
  BY <1>2, WalkedStays, WalkedSteady, SteadyTransitive
<1> HIDE DEF R
<1>5. CASE (\E D : players' = Disconnect(R, D)) /\ UNCHANGED joinTails
  <2>1. \A t \in Slots : Steady(players[t], players'[t])
    BY <1>4, <1>5, DisconnectDrops DEF Steady
  <2> QED BY <1>1, <1>5, <2>1, SteadyKeeps DEF Served
<1>6. ASSUME NEW last \in Slots, NEW left \in 0 .. MaxPending, DrainEnds(R, last, left),
             LET Q == Drained(R, last, left)
                 F == {s \in Emptied(R, Q) : FinishesJoin(Q[s])} IN
             /\ joinTails' = CountTails(Q, F)
             /\ \E D : players' = Disconnect(Finished(Q, F), D)
      PROVE  Tails' /\ NamesApart'
  <2> DEFINE Q == Drained(R, last, left)
             F == {s \in Emptied(R, Q) : FinishesJoin(Q[s])}
  <2>1. Q \in [Slots -> Player] /\ \A t \in Slots : Steady(players[t], Q[t])
    BY <1>4, <1>6, DrainedStays, DrainedSteady, SteadyTransitive
  <2>2. F \in SUBSET Slots /\ \A t \in F : FinishesJoin(Q[t])
    BY DEF Emptied
  <2>3. joinTails' = CountTails(Q, F)
        /\ \A t \in Slots : players'[t] = Finished(Q, F)[t] \/ players'[t].conn = Nobody
    BY <1>6, DisconnectDrops
  <2> HIDE DEF Q, F
  <2> QED BY <1>1, <2>1, <2>2, <2>3, DrainKeepsTails, NamesKept
<1> QED BY <1>3, <1>5, <1>6 DEF R

LEMMA InitTails == Init => Tails /\ NamesApart
BY VacantType DEF Init, Tails, NamesApart

LEMMA NextKeepsTails == IInv /\ Tails /\ NamesApart /\ [Next]_vars => Tails' /\ NamesApart'
<1> SUFFICES ASSUME IInv, Tails, NamesApart, [Next]_vars PROVE Tails' /\ NamesApart'
  OBVIOUS
<1>1. CASE \E c \in Conns : Connect(c) \/ Close(c) \/ \E m \in Messages : Forward(c, m)
  BY <1>1, TasksKeepTails
<1>2. CASE HandleEvent
  BY <1>2, JoinKeepsTails, EventsKeepTails, NamingKeeps DEF HandleEvent, Packets
<1>3. CASE \/ OperatorKick \/ (\E n \in Bannable : Ban(n) \/ Unban(n))
           \/ \E s \in Slots : DeadlinePasses(s)
  BY <1>3, CommandsKeepTails
<1>4. CASE Reap \/ Tick
  BY <1>4, TickOverKeepsTails DEF Reap, Tick
<1>5. CASE UNCHANGED vars
  BY <1>5, SteadySame, SteadyKeeps DEF vars, Served
<1> QED BY <1>1, <1>2, <1>3, <1>4, <1>5 DEF Next

LEMMA SafetyTails == Safety => [](IInv /\ Tails /\ NamesApart)
BY SafetyIInv, InitIInv, InitTails, NextIInv, NextKeepsTails, PTL DEF Safety

(* finish_join_stream and its InitialSpawn reach a connection at most once, whatever it asks for *)
(* and however far it walks, and everybody in the world was sent them on this connection.          *)
THEOREM OneTail == Safety => []JoinTailOnce
<1>1. IInv /\ Tails => JoinTailOnce
  <2> SUFFICES ASSUME IInv, Tails PROVE JoinTailOnce
    OBVIOUS
  <2>1. \A c \in Conns : joinTails[c] <= 1
    BY DEF Tails
  <2>2. ASSUME NEW s \in PlayingSlots(players) PROVE joinTails[players[s].conn] = 1
    <3>1. s \in Slots /\ players[s].conn # Nobody /\ players[s].state = Playing
      BY DEF PlayingSlots, Occupied
    <3>2. Tailed(players[s])
      BY <3>1 DEF Tailed, Playing, TilesSent
    <3> QED BY <3>1, <3>2 DEF Tails
  <2> QED BY <2>1, <2>2 DEF JoinTailOnce
<1> QED BY <1>1, SafetyTails, PTL

(* Nobody in the world goes by somebody else's name, unless a slot gave it to one of them.  It is  *)
(* proved of those still on their way in as well: on_sync_player asks of all of them.                *)
THEOREM NoSharedName == Safety => []NamesUnique
<1>1. NamesApart => NamesUnique
  BY DEF NamesApart, NamesUnique, PlayingSlots, Occupied
<1> QED BY <1>1, SafetyTails, PTL
=============================================================================
