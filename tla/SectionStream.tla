---------------------------- MODULE SectionStream ----------------------------
(***************************************************************************)
(* How the tiles of the world reach the clients.  The game task encodes a    *)
(* section once, caches the encoding (section_cache) and drops it when a     *)
(* tile of the section is set (World::set_tile marks, flush_dirty_sections   *)
(* drops).  A joining client has the block it asks for queued, a playing one *)
(* has the sections around it queued when it crosses a border, and every     *)
(* tick drains the queues by a shared budget.  A section is sent to a client *)
(* once (sent_sections); from then on the client follows the world by the    *)
(* tile squares that are broadcast.                                          *)
(*                                                                           *)
(* Sections are one row 0 .. NumSections - 1 of the grid.  The tiles of a    *)
(* section are a version number, and so is what a client was given of them.  *)
(* The handshake before the tile request, and the outbound queue a frame     *)
(* goes through, are SlotTable's and OutboundBudget's.                       *)
(***************************************************************************)
EXTENDS Integers, Sequences, FiniteSets, FiniteSetsExt

CONSTANTS
  NumPlayers,   \* slots of the player table
  NumSections,  \* sections of the world
  SpawnBlock,   \* the sections sections_for wants around the world's spawn
  Reach,        \* SECTION_REACH
  MayOutgrow,   \* bound of the model: sections an edit can make too large to send
  EditMax,      \* bound of the model: changes of tiles in one run
  AskMax,       \* bound of the model: SpawnTileData frames of one session
  MaxPending    \* bound of the model on the queue of a client that walks

Players  == 0 .. NumPlayers - 1
Sections == 0 .. NumSections - 1
Server   == -1            \* the game itself as the author of an edit
None     == -1            \* nothing received, nothing cached, no last_section

ASSUME SizesAssumption == /\ NumPlayers \in Nat \ {0}
                          /\ NumSections \in Nat \ {0}
                          /\ {Reach, EditMax, AskMax, MaxPending} \subseteq Nat
ASSUME BlockAssumption == SpawnBlock \in (SUBSET Sections) \ {{}} /\ MayOutgrow \subseteq Sections

VARIABLES
  tiles,     \* World.tiles: the version of each section
  oversize,  \* the sections whose encoding does not fit in a frame
  dirty,     \* World.dirty_sections
  cache,     \* section_cache: the version encoded, or None
  hard,      \* progress.hard_mode
  state,     \* Player.state, from the tile request on
  at,        \* the section Player.position is in
  last,      \* Player.last_section
  pending,   \* Player.pending_sections
  sent,      \* Player.sent_sections
  copy,      \* the version each client has of each section, or None
  asks,      \* tile requests handled in this session
  missed     \* history: sections held that changed without a word to the client

world  == <<tiles, oversize, dirty, hard>>
client == <<state, at, last, asks>>
vars   == <<tiles, oversize, dirty, cache, hard, state, at, last, pending, sent,
            copy, asks, missed>>

Version == 0 .. EditMax
States  == {"gone", "joining", "tilesSent", "playing"}

TypeOK ==
  /\ tiles \in [Sections -> Version] /\ cache \in [Sections -> Version \cup {None}]
  /\ oversize \subseteq Sections /\ dirty \subseteq Sections /\ hard \in BOOLEAN
  /\ state \in [Players -> States] /\ asks \in [Players -> 0 .. AskMax]
  /\ at \in [Players -> Sections] /\ last \in [Players -> Sections \cup {None}]
  /\ pending \in [Players -> Seq(Sections)]
  /\ sent \in [Players -> SUBSET Sections] /\ missed \in [Players -> SUBSET Sections]
  /\ copy \in [Players -> [Sections -> Version \cup {None}]]

Init ==
  /\ tiles = [s \in Sections |-> 0] /\ cache = [s \in Sections |-> None]
  /\ oversize \in SUBSET MayOutgrow /\ dirty = {} /\ hard = FALSE
  /\ state = [p \in Players |-> "gone"] /\ asks = [p \in Players |-> 0]
  /\ at = [p \in Players |-> 0] /\ last = [p \in Players |-> None]
  /\ pending = [p \in Players |-> <<>>]
  /\ sent = [p \in Players |-> {}] /\ missed = [p \in Players |-> {}]
  /\ copy = [p \in Players |-> [s \in Sections |-> None]]

IsPlaying(p)   == state[p] = "playing"
InOrder(S)     == CHOOSE q \in [1 .. Cardinality(S) -> S] :
                    \A i, j \in DOMAIN q : i < j => q[i] < q[j]
Surroundings(s) == (s - Reach .. s + Reach) \cap Sections
TotalEdits     == FoldSet(LAMBDA s, n : tiles[s] + n, 0, Sections)

(* ---- sending ---------------------------------------------------------------- *)

(* flush_dirty_sections: the cache without what has changed since. *)
Flushed_Never(c, d) == c
Flushed(c, d) == [s \in Sections |-> IF s \in d THEN None ELSE c[s]]

(* send_section for every pair of S: the sections new to a client are encoded   *)
(* or taken from the flushed cache; one that cannot be encoded is not claimed.  *)
Claimed(want) == {q \in want : q[2] \notin oversize \/ Flushed(cache, dirty)[q[2]] # None}

SendSections(S) ==
  LET flushed == Flushed(cache, dirty)
      want    == {q \in S : q[2] \notin sent[q[1]]}
      encoded == {q[2] : q \in want} \ oversize
      frames  == [s \in Sections |-> IF flushed[s] = None /\ s \in encoded
                                       THEN tiles[s] ELSE flushed[s]]
  IN  /\ cache' = frames
      /\ sent' = [p \in Players |-> sent[p] \cup {q[2] : q \in {r \in Claimed(want) : r[1] = p}}]
      /\ copy' = [p \in Players |-> [s \in Sections |->
                    IF <<p, s>> \in want THEN frames[s] ELSE copy[p][s]]]

(* finish_join_stream: InitialSpawn once the queue of a joining client is empty. *)
FinishJoin(P) ==
  state' = [p \in Players |->
              IF p \in P /\ state[p] = "joining" THEN "tilesSent" ELSE state[p]]

(* ---- the clients ---------------------------------------------------------------- *)

Join(p) ==
  /\ state[p] = "gone"
  /\ state' = [state EXCEPT ![p] = "joining"]
  /\ at' = [at EXCEPT ![p] = 0]
  /\ last' = [last EXCEPT ![p] = None]
  /\ asks' = [asks EXCEPT ![p] = 0]
  /\ UNCHANGED <<world, cache, pending, sent, copy, missed>>

Leave(p) ==
  /\ state[p] # "gone"
  /\ state' = [state EXCEPT ![p] = "gone"]
  /\ pending' = [pending EXCEPT ![p] = <<>>]
  /\ sent' = [sent EXCEPT ![p] = {}]
  /\ missed' = [missed EXCEPT ![p] = {}]
  /\ copy' = [copy EXCEPT ![p] = [s \in Sections |-> None]]
  /\ UNCHANGED <<world, cache, at, last, asks>>

(* on_spawn_tile_data: the block around the spawn and, when the request names a *)
(* place, the one around that; the queue is replaced, whatever was in it.       *)
AskTiles(p, place) ==
  /\ state[p] # "gone"
  /\ asks[p] < AskMax
  /\ asks' = [asks EXCEPT ![p] = @ + 1]
  /\ pending' = [pending EXCEPT ![p] = InOrder(SpawnBlock \cup place)]
  /\ UNCHANGED <<world, cache, state, at, last, sent, copy, missed>>

(* on_player_spawn *)
Spawn(p) ==
  /\ state[p] = "tilesSent"
  /\ state' = [state EXCEPT ![p] = "playing"]
  /\ UNCHANGED <<world, cache, at, last, asks, pending, sent, copy, missed>>

(* on_player_controls, a teleport, a respawn: the position is somewhere else. *)
Move(p, s) ==
  /\ IsPlaying(p) /\ s # at[p]
  /\ Len(pending[p]) <= MaxPending
  /\ at' = [at EXCEPT ![p] = s]
  /\ UNCHANGED <<world, cache, state, last, asks, pending, sent, copy, missed>>

(* on_request_section, which the gate lets through in play only.  An oversized  *)
(* or already sent section changes nothing but the flush.                       *)
RequestSection(p, s) ==
  /\ IsPlaying(p)
  /\ IF s \in sent[p] THEN UNCHANGED <<cache, sent, copy, dirty>>
     ELSE SendSections({<<p, s>>}) /\ dirty' = {}
  /\ UNCHANGED <<tiles, oversize, hard, client, pending, missed>>

(* ---- the world changes --------------------------------------------------------- *)

(* square_in_section_range: the corners of the square. *)
InRange_FirstCorner(p, lo, hi) == lo \in sent[p]
InRange(p, lo, hi) == lo \in sent[p] \/ hi \in sent[p]

(* broadcast_tile_square: to the players in the world, not to the author. *)
Told(p, author, lo, hi) == IsPlaying(p) /\ p # author /\ InRange(p, lo, hi)

(* World::set_tile's mark on the section. *)
Marked(S) == dirty \cup S

(* on_tile_square, on_tile_manipulation, on_chest_update, wiring, growth: tiles  *)
(* of the sections lo .. hi change and those who hold one of them are told.  A   *)
(* client that already lacked a change still lacks it afterwards.  The edit may  *)
(* make sections of big outgrow a frame; none shrinks back in one run.           *)
Edit(author, lo, hi, big) ==
  LET S == lo .. hi IN
  /\ author \in Players => IsPlaying(author)
  /\ TotalEdits + Cardinality(S) <= EditMax
  /\ tiles' = [s \in Sections |-> IF s \in S THEN tiles[s] + 1 ELSE tiles[s]]
  /\ oversize' = oversize \cup big
  /\ dirty' = Marked(S)
  /\ copy' = [p \in Players |-> [s \in Sections |->
                IF /\ s \in S /\ copy[p][s] = tiles[s]
                   /\ p = author \/ Told(p, author, lo, hi)
                  THEN tiles'[s] ELSE copy[p][s]]]
  /\ missed' = [p \in Players |->
                  IF IsPlaying(p) THEN missed[p] ELSE missed[p] \cup (S \cap sent[p])]
  /\ UNCHANGED <<cache, hard, client, pending, sent>>

(* start_hardmode: the stripes convert tiles of S, the cache is cleared, and     *)
(* packet 7 goes out, which carries no tiles.                                    *)
StartHardmode(S) ==
  /\ ~hard
  /\ TotalEdits + Cardinality(S) <= EditMax
  /\ hard' = TRUE
  /\ tiles' = [s \in Sections |-> IF s \in S THEN tiles[s] + 1 ELSE tiles[s]]
  /\ dirty' = Marked(S)
  /\ cache' = [s \in Sections |-> None]
  /\ missed' = [p \in Players |-> missed[p] \cup (S \cap sent[p])]
  /\ UNCHANGED <<oversize, client, pending, sent, copy>>

(* ---- the tick ------------------------------------------------------------------- *)

(* check_player_sections: the sections around a player that has crossed a        *)
(* border since the last tick and has not been sent them.                       *)
Crossed_OnlyOnce(p) == IsPlaying(p) /\ last[p] = None
Crossed(p) == IsPlaying(p) /\ last[p] # at[p]
Queue(p) ==
  IF Crossed(p) THEN pending[p] \o InOrder(Surroundings(at[p]) \ sent[p]) ELSE pending[p]

(* drain_section_streams_bounded: slots in ascending order; the budget is looked *)
(* at after a section that did not empty its slot's queue, so the drain stops    *)
(* inside the queue of one slot (cut) after n of its sections, or not at all.    *)
Popped(p, cut, n) == IF p < cut THEN Len(Queue(p)) ELSE IF p = cut THEN n ELSE 0

Drain(cut, n) ==
  LET pops(p) == Popped(p, cut, n)
      out == UNION {{<<p, Queue(p)[i]>> : i \in 1 .. pops(p)} : p \in Players}
  IN  /\ SendSections(out)
      /\ pending' = [p \in Players |-> SubSeq(Queue(p), pops(p) + 1, Len(Queue(p)))]
      /\ FinishJoin({p \in Players : pops(p) > 0 /\ pops(p) = Len(Queue(p))})

(* One tick: flush, check_player_sections, drain. *)
Tick ==
  /\ UNCHANGED <<tiles, oversize, hard, at, asks, missed>>
  /\ dirty' = {}
  /\ last' = [p \in Players |-> IF Crossed(p) THEN at[p] ELSE last[p]]
  /\ \/ Drain(NumPlayers, 0)
     \/ \E cut \in Players : \E n \in 1 .. Len(Queue(cut)) - 1 : Drain(cut, n)

Places == {{}} \cup {Surroundings(s) : s \in Sections}

Next ==
  \/ \E p \in Players : Join(p) \/ Leave(p) \/ Spawn(p)
  \/ \E p \in Players, place \in Places : AskTiles(p, place)
  \/ \E p \in Players, s \in Sections : Move(p, s) \/ RequestSection(p, s)
  \/ \E author \in Players \cup {Server}, lo \in Sections :
       \E hi \in {lo, lo + 1} \cap Sections : \E big \in SUBSET (MayOutgrow \cap (lo .. hi)) :
         Edit(author, lo, hi, big)
  \/ \E S \in SUBSET Sections : StartHardmode(S)
  \/ Tick

(* The game loop ticks on a timer for as long as the server runs. *)
Spec == Init /\ [][Next]_vars /\ WF_vars(Tick)

(* ---- properties ------------------------------------------------------------------- *)

(* A section that a client is sent for the first time has the tiles it has at    *)
(* that moment, and one that the server counts as sent did go out: the cache is  *)
(* never stale when it is read (dispatch.rs, send_section; systems.rs,           *)
(* flush_dirty_sections).                                                        *)
SentIsCurrent ==
  [][\A p \in Players : \A s \in sent'[p] \ sent[p] : copy'[p][s] = tiles'[s]]_vars

(* The client of a player in the world has the tiles the world has, in every     *)
(* section it was sent, but for those that changed before it was in the world or *)
(* with the start of hardmode: the squares of broadcast_tile_square miss nobody  *)
(* else, whoever made the change.                                                *)
FollowsWorld ==
  \A p \in Players :
    IsPlaying(p) => \A s \in sent[p] \ missed[p] : copy[p][s] = tiles[s]

(* A client waits for tiles: it has asked for them to join, or has crossed a     *)
(* border.  It is served when the join block is out or the surroundings are, but *)
(* for what does not fit in a frame; a second request replaces the queue.        *)
Waits(p)  == \/ state[p] = "joining" /\ asks[p] > 0
             \/ IsPlaying(p) /\ last[p] # at[p]
Served(p) ==
  IF IsPlaying(p) THEN asks[p] > 1 \/ Surroundings(at[p]) \subseteq sent[p] \cup oversize
  ELSE state[p] # "joining"

(* From some time on nobody joins or moves: the slots are drained in ascending   *)
(* order, so what the lower ones keep asking for goes before the higher ones.    *)
Settles ==
  <>[][\A p \in Players : at'[p] = at[p] /\ (state[p] = "gone" => state'[p] = "gone")]_vars

(* Nobody is left waiting: once the others settle, a client that waits for tiles *)
(* is served or gone (drain_section_streams, check_player_sections).             *)
StreamsArrive == Settles => \A p \in Players : Waits(p) ~> Served(p)
=============================================================================
