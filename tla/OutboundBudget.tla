---------------------------- MODULE OutboundBudget ----------------------------
(***************************************************************************)
(* The outbound queues (net/connection.rs: QueuedBytes, Closer, write_loop;  *)
(* game/server/mod.rs: send_bytes, shed_the_deepest_queue, disconnect).  The  *)
(* game task queues frames for every connection and a write task per          *)
(* connection empties its queue.  Two atomics count the bytes waiting: one    *)
(* per connection and one for the whole server.  They are changed one after   *)
(* the other, by the game task and by the write tasks, with no lock.  A        *)
(* server over its budget sheds the deepest queue, which tells everybody who  *)
(* is left, which may put it over the budget again, all in one call.           *)
(*                                                                           *)
(* Every atomic operation is a step of its own.  A frame is its length, and    *)
(* the number of a connection stands for its slot.                             *)
(***************************************************************************)
EXTENDS Integers, Sequences, FiniteSets, FiniteSetsExt, SequencesExt

CONSTANTS
  Connections,   \* how many connections there may be, in as many slots
  Budget,        \* OUTBOUND_TOTAL_BUDGET
  QueueDepth,    \* the capacity of one queue, in frames
  WriteBatch,    \* WRITE_BATCH
  MaxFrame       \* the longest frame; the notice of a departure has length 1

ASSUME SizeAssumption ==
  /\ Connections \in Nat \ {0} /\ Budget \in Nat \ {0} /\ QueueDepth \in Nat \ {0}
  /\ WriteBatch \in Nat \ {0} /\ MaxFrame \in Nat \ {0}

Conns == 1 .. Connections

VARIABLES
  arrived,  \* connections that have joined, each once
  seated,   \* of these, the ones that have a Player
  playing,  \* of these, the ones in the world, who are told what happens
  mine,     \* QueuedBytes.mine
  total,    \* QueuedBytes.total
  queue,    \* the frames in each queue
  work,     \* the sends the game task still has to make, innermost call first
  game,     \* where in send_bytes, shed_the_deepest_queue or abandon it stands
  writer,   \* where in write_loop each write task stands
  fired,    \* connections whose Closer was fired
  hungUp,   \* connections whose read loop is over
  late,     \* history: bytes put on each socket after its Closer fired
  stopped   \* the game task is gone, and every Player with it

queueVars == <<arrived, seated, playing, mine, total, queue, work, game, writer, fired, hungUp,
          late, stopped>>

Lesser(m, n) == IF m < n THEN m ELSE n
Saturating(m, n) == IF m < n THEN 0 ELSE m - n
Least(S) == CHOOSE c \in S : \A d \in S : c <= d

Stand(at, c, n, next) == [at |-> at, conn |-> c, amount |-> n, next |-> next]
Idle == Stand("idle", 0, 0, 0)
At(place) == game.at = place
Ready == game = Idle /\ work = << >> /\ ~stopped

Task(at, n, batched) == [at |-> at, amount |-> n, batched |-> batched]
WriterGoes(c, at, n, batched) == writer' = [writer EXCEPT ![c] = Task(at, n, batched)]
WriterAt(c, place) == c \in arrived /\ writer[c].at = place

(* ---- what the game task is asked to do ----------------------------------------- *)

Arrive(c) ==
  /\ Ready /\ c \notin arrived
  /\ arrived' = arrived \cup {c} /\ seated' = seated \cup {c}
  /\ UNCHANGED <<playing, mine, total, queue, work, game, writer, fired, hungUp, late, stopped>>

Enter(c) ==
  /\ Ready /\ c \in seated \ playing
  /\ playing' = playing \cup {c}
  /\ UNCHANGED <<arrived, seated, mine, total, queue, work, game, writer, fired, hungUp, late,
                 stopped>>

(* One frame for one player, or a broadcast. *)
Speak(targets, n) ==
  /\ Ready
  /\ work' = << [to |-> targets, size |-> n] >>
  /\ UNCHANGED <<arrived, seated, playing, mine, total, queue, game, writer, fired, hungUp, late,
                 stopped>>

(* Leave, or a kick: remove_player. *)
Depart(c) ==
  /\ Ready /\ c \in seated
  /\ game' = Stand("remove", c, 0, 0)
  /\ UNCHANGED <<arrived, seated, playing, mine, total, queue, work, writer, fired, hungUp, late,
                 stopped>>

(* ---- send_bytes ------------------------------------------------------------------- *)

(* No player there, no frame; else the first half of reserve. *)
NextSend ==
  /\ At("idle") /\ work # << >>
  /\ LET send == Head(work)
         c    == Least(send.to) IN
     \/ /\ send.to = {}
        /\ work' = Tail(work)
        /\ UNCHANGED <<mine, game>>
     \/ /\ send.to # {}
        /\ work' = IF send.to = {c} THEN Tail(work)
                   ELSE << [send EXCEPT !.to = @ \ {c}] >> \o Tail(work)
        /\ \/ c \notin seated /\ UNCHANGED <<mine, game>>
           \/ /\ c \in seated
              /\ mine' = [mine EXCEPT ![c] = @ + send.size]
              /\ game' = Stand("charged", c, send.size, 0)
  /\ UNCHANGED <<arrived, seated, playing, total, queue, writer, fired, hungUp, late, stopped>>

Charge ==
  /\ At("charged")
  /\ total' = total + game.amount
  /\ game' = [game EXCEPT !.at = "reserved"]
  /\ UNCHANGED <<arrived, seated, playing, mine, queue, work, writer, fired, hungUp, late, stopped>>

(* Closed: the write task is over, and dropped its end of the queue. *)
TrySend ==
  /\ At("reserved")
  /\ LET c == game.conn IN
     \/ /\ writer[c].at # "ended" /\ Len(queue[c]) < QueueDepth
        /\ queue' = [queue EXCEPT ![c] = Append(@, game.amount)]
        /\ game' = [game EXCEPT !.at = "weigh"]
     \/ /\ writer[c].at = "ended" \/ Len(queue[c]) >= QueueDepth
        /\ game' = [game EXCEPT !.at = "refund"]
        /\ UNCHANGED queue
  /\ UNCHANGED <<arrived, seated, playing, mine, total, work, writer, fired, hungUp, late, stopped>>

(* What release takes off mine, and then off the total. *)
Removed(c, n) == Lesser(mine[c], n)

Refund ==
  /\ At("refund")
  /\ LET c == game.conn
         n == Removed(c, game.amount) IN
     /\ mine' = [mine EXCEPT ![c] = @ - n]
     /\ game' = Stand("repay", c, n, 0)
  /\ UNCHANGED <<arrived, seated, playing, total, queue, work, writer, fired, hungUp, late, stopped>>

Repay ==
  /\ At("repay")
  /\ total' = Saturating(total, game.amount)
  /\ game' = Stand("remove", game.conn, 0, 0)
  /\ UNCHANGED <<arrived, seated, playing, mine, queue, work, writer, fired, hungUp, late, stopped>>

OverBudget_Never == FALSE
OverBudget == total > Budget

Weigh ==
  /\ At("weigh")
  /\ game' = IF OverBudget THEN Stand("scan", 0, 0, 1) ELSE Idle
  /\ UNCHANGED <<arrived, seated, playing, mine, total, queue, work, writer, fired, hungUp, late,
                 stopped>>

(* ---- shed_the_deepest_queue: one player after the other, the last of the deepest -- *)

Deeper(c) == game.conn = 0 \/ mine[c] >= game.amount

Scan ==
  /\ At("scan")
  /\ LET c == game.next IN
     game' = IF c \notin Conns
             THEN IF game.conn = 0 THEN Idle ELSE [game EXCEPT !.at = "remove"]
             ELSE IF c \in seated /\ Deeper(c) THEN Stand("scan", c, mine[c], c + 1)
             ELSE [game EXCEPT !.next = c + 1]
  /\ UNCHANGED <<arrived, seated, playing, mine, total, queue, work, writer, fired, hungUp, late,
                 stopped>>

(* ---- disconnect ---------------------------------------------------------------------- *)

Unseated_Later(S, c) == S
Unseated(S, c) == S \ {c}

(* The player is taken out of its slot, and abandon empties mine.  next says whether    *)
(* there is a departure to tell of.                                                      *)
RemovePlayer ==
  /\ At("remove")
  /\ LET c == game.conn IN
     /\ seated' = Unseated(seated, c) /\ playing' = Unseated(playing, c)
     /\ mine' = [mine EXCEPT ![c] = 0]
     /\ game' = Stand("abandon", c, mine[c], IF c \in playing THEN 1 ELSE 0)
  /\ UNCHANGED <<arrived, total, queue, work, writer, fired, hungUp, late, stopped>>

(* The packet that says so, to the others, and the line of chat, to everybody. *)
Notices(c) ==
  LET notice(S) == [to |-> S, size |-> 1] IN
  IF game.next = 1 THEN << notice(playing \ {c}), notice(playing) >> ELSE << >>

(* abandon hands it back to the server; the Closer fires, and the others are told.  *)
HandedBack_Forgotten(n) == total
HandedBack(n) == Saturating(total, n)

Abandon ==
  /\ At("abandon")
  /\ LET c == game.conn IN
     /\ total' = HandedBack(game.amount)
     /\ fired' = fired \cup {c}
     /\ work' = Notices(c) \o work
     /\ game' = Idle
  /\ UNCHANGED <<arrived, seated, playing, mine, queue, writer, hungUp, late, stopped>>

(* The game task returns: every Player is dropped, and no Closer fired.              *)
Stop ==
  /\ Ready
  /\ stopped' = TRUE
  /\ UNCHANGED <<arrived, seated, playing, mine, total, queue, work, game, writer, fired, hungUp,
                 late>>

(* ---- write_loop ------------------------------------------------------------------------ *)

Pop(c, at, batched) ==
  /\ queue[c] # << >>
  /\ queue' = [queue EXCEPT ![c] = Tail(@)]
  /\ WriterGoes(c, at, Head(queue[c]), batched + Head(queue[c]))

(* The select, the close first. *)
SeesClose_Unbiased(c) == c \in fired /\ queue[c] = << >>
SeesClose(c) == c \in fired

Select(c) ==
  /\ WriterAt(c, "select")
  /\ \/ /\ SeesClose(c)
        /\ WriterGoes(c, "ended", 0, 0)
        /\ UNCHANGED queue
     \/ ~SeesClose(c) /\ Pop(c, "release", 0)
     \/ /\ stopped /\ c \notin fired /\ queue[c] = << >>
        /\ WriterGoes(c, "ended", 0, 0)
        /\ UNCHANGED queue
  /\ UNCHANGED <<arrived, seated, playing, mine, total, work, game, fired, hungUp, late, stopped>>

(* release, in its two halves. *)
Release(c) ==
  /\ WriterAt(c, "release")
  /\ LET n == Removed(c, writer[c].amount) IN
     /\ mine' = [mine EXCEPT ![c] = @ - n]
     /\ WriterGoes(c, "credit", n, writer[c].batched)
  /\ UNCHANGED <<arrived, seated, playing, total, queue, work, game, fired, hungUp, late, stopped>>

Credit(c) ==
  /\ WriterAt(c, "credit")
  /\ total' = Saturating(total, writer[c].amount)
  /\ WriterGoes(c, "gather", 0, writer[c].batched)
  /\ UNCHANGED <<arrived, seated, playing, mine, queue, work, game, fired, hungUp, late, stopped>>

(* Whatever else is queued already goes out in the same write, up to the batch. *)
Gather(c) ==
  /\ WriterAt(c, "gather")
  /\ \/ writer[c].batched < WriteBatch /\ Pop(c, "release", writer[c].batched)
     \/ /\ writer[c].batched >= WriteBatch \/ queue[c] = << >>
        /\ WriterGoes(c, "write", 0, writer[c].batched)
        /\ UNCHANGED queue
  /\ UNCHANGED <<arrived, seated, playing, mine, total, work, game, fired, hungUp, late, stopped>>

Write(c) ==
  /\ WriterAt(c, "write")
  /\ WriterGoes(c, "select", 0, 0)
  /\ late' = IF c \in fired THEN [late EXCEPT ![c] = @ + writer[c].batched] ELSE late
  /\ UNCHANGED <<arrived, seated, playing, mine, total, queue, work, game, fired, hungUp, stopped>>

(* The socket is broken. *)
WriteFails(c) ==
  /\ WriterAt(c, "write")
  /\ WriterGoes(c, "ended", 0, 0)
  /\ UNCHANGED <<arrived, seated, playing, mine, total, queue, work, game, fired, hungUp, late,
                 stopped>>

(* ---- serve: the read loop ends, then the write task is aborted ------------------------------ *)

HangUp(c) ==
  /\ c \in arrived \ hungUp
  /\ hungUp' = hungUp \cup {c}
  /\ UNCHANGED <<arrived, seated, playing, mine, total, queue, work, game, writer, fired, late,
                 stopped>>

(* Only where it waits: on the queue or on the socket.  The read loop is over too when  *)
(* the next frame of its client finds the game task gone.                                *)
Abort(c) ==
  /\ c \in hungUp \/ stopped
  /\ WriterAt(c, "select") \/ WriterAt(c, "write")
  /\ WriterGoes(c, "ended", 0, 0)
  /\ UNCHANGED <<arrived, seated, playing, mine, total, queue, work, game, fired, hungUp, late,
                 stopped>>

(* ---- the whole system -------------------------------------------------------------------------- *)

QueuesInit ==
  /\ arrived = {} /\ seated = {} /\ playing = {}
  /\ mine = [c \in Conns |-> 0] /\ total = 0
  /\ queue = [c \in Conns |-> << >>]
  /\ work = << >> /\ game = Idle
  /\ writer = [c \in Conns |-> Task("select", 0, 0)]
  /\ fired = {} /\ hungUp = {} /\ late = [c \in Conns |-> 0] /\ stopped = FALSE

GameStep ==
  NextSend \/ Charge \/ TrySend \/ Refund \/ Repay \/ Weigh \/ Scan \/ RemovePlayer \/ Abandon

WriterStep(c) == Select(c) \/ Release(c) \/ Credit(c) \/ Gather(c) \/ Write(c) \/ WriteFails(c)

QueuesNext ==
  \/ \E c \in Conns :
       \/ Arrive(c) \/ Enter(c) \/ Depart(c)
       \/ \E n \in 1 .. MaxFrame : c \in seated /\ Speak({c}, n)
       \/ WriterStep(c) \/ HangUp(c) \/ Abort(c)
  \/ \E n \in 1 .. MaxFrame : playing # {} /\ Speak(playing, n)
  \/ GameStep \/ Stop

(* Code that is running goes on running. *)
Fairness == WF_queueVars(GameStep)

Safety == QueuesInit /\ [][QueuesNext]_queueVars
QueuesSpec   == Safety /\ Fairness

(* ---- properties ------------------------------------------------------------------------------------ *)

(* Type correctness of the whole state; nothing goes below zero. *)
QueuesTypeOK ==
  /\ arrived \subseteq Conns /\ seated \subseteq arrived /\ playing \subseteq seated
  /\ mine \in [Conns -> Nat] /\ total \in Nat
  /\ queue \in [Conns -> Seq(1 .. MaxFrame)] /\ \A c \in Conns : Len(queue[c]) <= QueueDepth
  /\ work \in Seq([to : SUBSET Conns, size : 1 .. MaxFrame])
  /\ game \in [at : {"idle", "charged", "reserved", "refund", "repay", "weigh", "scan", "remove",
                     "abandon"},
               conn : Conns \cup {0}, amount : Nat, next : 0 .. Connections + 1]
  /\ writer \in [Conns -> [at : {"select", "release", "credit", "gather", "write", "ended"},
                           amount : Nat, batched : Nat]]
  /\ fired \subseteq arrived \ seated /\ hungUp \subseteq arrived
  /\ late \in [Conns -> Nat] /\ stopped \in BOOLEAN

SumOver(f) == FoldFunction(LAMBDA m, n : m + n, 0, f)
Waiting(c) == FoldSeq(LAMBDA m, n : m + n, 0, queue[c])

Settled(c) ==
  /\ writer[c].at \notin {"release", "credit"}
  /\ game.conn = c => game.at \in {"idle", "weigh", "scan"}

(* Once nobody is between the two halves of an update, the server's total is what the   *)
(* connections hold between them: no abandon racing a release leaks a byte or takes it   *)
(* off twice (the comment of QueuedBytes::release).  And each is charged for exactly the   *)
(* frames in its queue while it has a player, and for nothing after that.                   *)
BudgetExact ==
  /\ (\A c \in Conns : Settled(c)) => total = SumOver(mine)
  /\ \A c \in Conns : Settled(c) => mine[c] = IF c \in seated THEN Waiting(c) ELSE 0

(* When a handler returns, what is queued is within the budget, also after the notices     *)
(* of those who were shed for it.                                                           *)
WithinBudget == (At("idle") /\ work = << >>) => SumOver(mine) <= Budget

(* Once its Closer has fired, a connection is sent at most one more batch of what was        *)
(* queued ("the bound here is one WRITE_BATCH").                                              *)
BacklogAbandoned == \A c \in Conns : late[c] < WriteBatch + MaxFrame

(* A send that sheds, tells everybody, and sheds again still returns.                          *)
GameReturns == game # Idle \/ work # << >> ~> game = Idle /\ work = << >>
===============================================================================
