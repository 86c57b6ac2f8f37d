# Terrustia: models, checks and proofs

TLA+ models of the concurrent core of Terrustia, the dedicated server in this repository, with the
TLC configurations that model-check them and TLAPS proofs of the properties that matter most. File
names below are relative to `src/crates/terrustia/src` unless they start with another directory.

1. [The system](#the-system)
2. [The modules](#the-modules)
3. [The runs](#the-runs)
4. [Where code and documentation disagree](#where-code-and-documentation-disagree)
5. [Fairness](#fairness)
6. [The proofs](#the-proofs)
7. [What is not modelled](#what-is-not-modelled)
8. [Plan](#plan)

## The system

One *game task* owns the world, the player table, the accounts and everything else that is
game state (`GameServer`, `game/server/mod.rs`). Nothing in it is locked: it handles one event or one tick at a time
(`game/server/tick.rs`, `run`). Everything concurrent is around it, and talks to it through
channels:

```
 socket -> read_loop --.                                 .-> queue -> write_loop -> socket
 socket -> read_loop ---+-> event channel -> game task --+-> queue -> write_loop -> socket
 console, panel, main --'                    |     ^
                                             v     |  (channels polled in a tick)
                                 blocking threads: writing the world, hashing passwords
```

What follows is each component's state, its operations, what makes it hard and what makes it correct.

**Player table and handshake** (`game/server/mod.rs`, `dispatch.rs`, `tick.rs`, `net/connection.rs`).
State: `players` (one optional `Player` per slot), `slot_epochs`, each player's `ConnState`, section queue and deadline;
per connection task, the slot and epoch it was assigned. Operations: Join, Leave and Packet events, kick, ban, and the
tick's reaper and section drain. Hard: the game task may empty a slot and reseat it while packets
of its previous owner are still in the channel; the stages of the handshake can be sent in any order, twice, or never.
Correct when: an event acts on the connection that sent it or on nothing; nobody is inside without their
own password; the end of the join is sent exactly once and before anybody plays; a stalled handshake does not keep a slot.

**Background saves** (`game/server/mod.rs`). State: an armed save and its age, per-section dirty marks, a
spare copy of the world that is refreshed a few sections per tick, the handle of the writing thread, two
channels from it, a count of failures. Operations: arm, drain, fire, note the outcome, reclaim the
buffer, roll back, the shutdown save. Hard: the copy is made over many ticks while the world is edited;
outcomes and buffers come back later than the thread ends. Correct when: what is fired is the live
world; one thread at a time writes; the last save is the newest; an armed save fires.

**World file** (`world/wld_save.rs`, `safe_write.rs`, `config.rs`). State: the directory, as processes see it and as the
disk has it. Operations: the steps of a save (write, verify, rotate, copy, rename, sync), of a rollback, and of a start.
Hard: each step may fail, and the process or the machine may stop between any two.
Correct when: no file anybody reads later is ever a fragment; a save reported as good survives; a failed
save costs the oldest backup at most, and the world never; a rollback can be taken back at any moment.

**Accounts, sessions and password hashing** (`admin/store.rs`, `game/server/mod.rs`, `console.rs`, `panel/auth.rs`).
State: accounts and groups, the claim token, a session per slot, `auth_in_flight`. Operations:
register, login, logout, claim from chat, console or panel, and the outcomes of hashes. Hard: a check is
made before a hash and relied on after it, ticks later; the asker may be gone by then. Correct when: a session belongs to
whoever gave the password; a claimed server has an owner; no reservation leaks.

**Outbound queues** (`net/connection.rs`, `game/server/mod.rs`). State: a bounded queue and two
byte counters per connection (one shared by the server), a `Closer`. Operations: reserve, release, abandon, send, shed,
disconnect, the write loop, the abort when reading ends. Hard: two atomics changed one after the other by two
tasks; a send can shed, which sends, which can shed. Correct when: the counters agree once nobody is between two halves;
the budget holds when a handler returns; the call returns.

**Process lifecycle** (`main.rs`, `panel/mod.rs`, `console.rs`, `tick.rs`). State: who holds a sender of
the event channel, `stopping`, a pending switch of worlds. Operations: signals, stops, panics, toggling
the panel. Hard: main waits for the game task, which waits for senders held by tasks main does not know. Correct when: main
never returns unsaved; a crash is reported as one; a stop stops.

**Sections and tile broadcasts** (`game/server/dispatch.rs`, `mod.rs`, `systems.rs`, `world/world.rs`). State: a cache with the
encoding of each section, the marks of sections whose tiles have changed, and per player the sections queued and sent. Operations: a
tile request, moving, editing, the start of hardmode, and the tick that drops stale encodings and drains the queues. Hard: a client is sent a
section once and has to be told of everything after that; a square can span two sections; the drain stops
on a budget in the middle. Correct when: what is sent is what the world has at that moment; a client in the world misses nothing of what it was
sent; nobody waits for ever.

**Chests, tile entities and dropped items** (`dispatch.rs`, `systems.rs`, `world/items.rs`, `quick_stack.rs`). State: chests and their ids, who has which open; furniture, who holds it, the
travel map of pylons; items, their reservations and whose they are. Operations: some thirty handlers and two steps of the tick.
Hard: everything is kept under the number of a slot, of a chest or of an item, and all three numbers are used again. Correct when: one at a time;
nothing changes behind the back of who was let in; no hold outlives its holder; nothing is taken twice.

**Admin store, throttle and panel** (`admin/`, `panel/`, `game/server/panel.rs`). State: accounts and groups with their permissions; failures and windows
per key; sessions, logins, requests and sockets of the panel. Operations: logins and logouts, the requests that change accounts and groups, `/group` and
`/register` in chat, the sockets' ticks. Hard: each handler is a task that asks the game task and waits; what it was told may be stale when it is used. Correct when:
nobody gains a power nobody had; the last administrator stays; a socket ends with its session; the right password gets in.

**Listener** (`net/listener.rs`). State: open connections, in all and per address. Correct when: the counts follow every way a connection ends.

**Audit log** (`admin/audit.rs`). State: a file of lines and its numbered segments. Operations: append, rotate. Hard: every
step may fail, and the process may end between any two. Correct when: what can be read is the end of what was written.

**Lunar apocalypse** (`game/lunar.rs`, `systems.rs`, `ai/hardmode/pillar.rs`). State: a tracker that is not saved, the pillars, what the world remembers. Operations: the kills, a tick, a
save, a start. Hard: what was beaten is not noted when it happens but read off who still stands, a tick later; a restart puts the tracker together again. Correct when:
nothing is won by a restart, and a shield falls only to its own escort.

The remaining components (frame codec, console, configuration, update, world data, generation, simulation, the other events, NPCs,
player packets, the protocol crate, the tools) are listed with their reasons in
[What is not modelled](#what-is-not-modelled) and in `PROJECT.json`.

## The modules

| Module | What it models | Its abstraction |
|---|---|---|
| `SlotTable` | connection tasks, event channel, player table, handshake, section queue, reaper, kick, ban | a packet is a record `[id, arg]`; a section queue is its length; the wire and the world are left out |
| `SavePipeline` | arm, drain, fire, write, note, reclaim, roll back, shutdown save | a copy of the world is the set of sections in which it is *behind* the live world |
| `WorldFile` | every directory operation of `save`, `rotate_backups`, `copy_atomic`, `roll_back`, and the next start | the contents of a file are a version number, or "unreadable" |
| `DurableWorld` | nothing in the code: what the world file promises to whoever opens it | the abstract specification `WorldFile` implements |
| `AuthPipeline` | accounts, sessions, hashes, claiming | a password verifies or does not; the player table is who sits where |
| `OutboundBudget` | `QueuedBytes`, `Closer`, `send_bytes`, shedding, `disconnect`, `write_loop` | a frame is its length; every atomic operation is a step |
| `Shutdown` | who holds a sender, and how `main` ends | a task is whether it still holds one |
| `SectionStream` | tile requests, movement, edits and their broadcasts, hardmode, the section cache, the drain | one row of sections; the tiles of a section are a version number |
| `Sessions` | who sits in a slot, for the three below | gone, joining or playing |
| `Chests` | opening, editing, quick stacks, crafting, mimics, breaking, placing | a chest holds amounts of a few kinds |
| `TileEntities` | making, holding and removing furniture that keeps something; pylons | an entity is its id and kind |
| `DroppedItems` | the table of items, reservations, offers, pickups, releases, bags | an item is whose it is and for how long |
| `Holdings` | the three together: what a session's start and end do to all of them | |
| `AdminStore` | accounts, groups and permissions | which permission grants which is a constant |
| `Throttle` | check, failure and success, around a hash | a window is the seconds left |
| `PanelSessions` | sessions, logins, requests, sockets, on top of the two | a request is of one of two kinds |
| `Listener` | places taken and given back | |
| `AuditLog` | one append, with its rotation, in its steps on the disk | an event is its number, a spoilt line is `Torn` |
| `LunarEvent` | kills, tick, save and restart of the lunar apocalypse | a pillar is its shield and whether it can be hurt |
| `MC*` | the TLC instances | |
| `*_proofs` | theorems and their proofs | |

Two MC modules hold several components, as a run of each would be a question of a few seconds. `MCHoldings` composes `Holdings` with `LunarEvent`, and
`MCFrontDoors` the panel, the listener and the log. Their parts share nothing but the sessions of players, or of the panel, so a
variable `focus`, chosen at the start, says which part of it a behaviour uses; every interleaving within the part is there, and the interleavings between
parts, which no property could tell apart, are not.

### SlotTable

`events` is the mpsc channel of `ServerEvent`; `Connect`, `Forward` and `Close` are `serve` and
`read_loop`, which block while it is full. `HandleEvent` is one receive of the game loop: `HandleJoin` is
`allocate_slot`, `DropGhost` the epoch check that opens the handling of Packet and Leave, `RefuseEarly` is
`handshake_allows` saying no, and each `On...` action is the handler of that packet, early returns included.
A packet whose payload does not decode changes nothing and is not enumerated; `Play` stands for every packet of a
player in the world. `Sent` is the consequence every send can have: a recipient whose queue is full or closed is dropped, and the notice of
that can drop others, so a handler that sends may leave any of the recipients out of the table. This
over-approximates `OutboundBudget`, where the reasons are. `TickOver` is the part of a tick that touches the table, in
the code's order: reap (every 60th tick), queue sections for players who walked, drain the queues under one budget, finish
the joins the drain completed. Which sections a budget in milliseconds
gets to is a choice of where the drain stops. `issued`, `proved` and `joinTails` are history variables; no guard reads them.

### SavePipeline

A tick is three steps (`TickSave`, `NoteFinishedSave`, `ReclaimSnapshotBuffer`), between which the
writing thread may run; an event is one. `Edit(x)` marks a section and puts it into every copy's set,
the disk's included; copying takes it out. So "the buffer is the live world" is "its set is empty". The
thread is a record in `server.writers`, present while `JoinHandle::is_finished` would say no, with the three
steps the code has: rename, send the outcome, send the buffer. `WriterPanics` is a thread that panics while it writes: it is finished, and neither
its outcome nor its buffer comes back. `LoopBreaks` is every other way out
of the loop: the channel closing or a caught panic. `spilled` is history.

### WorldFile

`disk` is what every process sees, `ondisk` the same with only the bytes that were flushed, `survivors`
the directories a power cut may leave: every one since the last sync of the directory. That assumes of
the file system that a rename is atomic, that operations on one directory reach the disk in
order, that `fsync` of a file keeps its contents, and that `sync_parent_dir` works (it is a no-op on
some platforms; the run says nothing about those). A save and a rollback may overlap: the
save is a blocking thread. Temporary files are known to one thread and rewritten before use, so they are fields of that thread.
`writer.clean`, `alone` and `before` are history.

### AuthPipeline

`StartAuth` is the reservation of `start_auth`, `HashFinishes` a blocking thread posting its
answer, `NoteRegistered` and `NoteSignedIn` what `note_finished_auth` does with one. It polls all there
are in one tick; one at a time is the same, as an outcome not yet polled is one whose thread took longer.
`PanelClaim`/`PanelInsertAccount` are the two halves of the panel's claim, with its hash between. Departures release the
reservation and the session but not the hash, as in `disconnect`. The attempt throttle, which only turns requests away, is in
`Throttle`; here it is a request not made.

### OutboundBudget

`game` is the program counter of the game task inside `send_bytes` and what it calls; `work` its stack
of sends still to make, innermost first. `NextSend/Charge` are the halves of `reserve`, `Refund/Repay` and
`Release/Credit` those of `release`, `RemovePlayer/Abandon` those of `abandon`. `writer` is the program counter of each `write_loop`. `Abort`
may only land where the loop waits, as an aborted tokio task stops at its next await.

### Shutdown

`senders` is who keeps the event channel open. `aborted` tasks drop theirs when they are next polled; a
console with a terminal reads on a blocking thread and cannot be aborted (`Sticky`). The tasks that axum
spawns for panel connections are outside the repository; one that outlives the panel's server task could keep a sender too, and is
not modelled.

### SectionStream

`tiles` is a version per section, `cache` the version encoded, `copy` what each client has. `Edit` is every handler that sets tiles and broadcasts
the square, whoever the author is; a square spans one section or two neighbours. `StartHardmode` changes tiles without a broadcast, as the code does, and tells
clients nothing until they are sent the section again: `missed` records that, and what changes between a client's join block and its spawn. `Tick` is
`flush_dirty_sections`, `check_player_sections`, the drain and the joins it completes, in the code's order; where the drain stops
is a choice (`cut`, `n`). A section whose encoding does not fit in a frame (`oversize`) is skipped.

### Sessions, Chests, TileEntities, DroppedItems and Holdings

Each handler is an action. In `Chests`, packet 31 (`OnChestOpen`) is checked against who has the chest open and packet 33
(`OnPlayerChest`) is taken at its word; `told` is history and tells the two apart. `OnCraftRequest` checks the stock of a list of chests and pays from them in order;
`BreakChest` and `PlaceChest` free and reuse ids. In `TileEntities`, `TickEntities` is one step of the tick: it removes the entities whose tile has gone, and what it then tells
the clients is what the code then tells them. In `DroppedItems`, what a client believes and what is in flight from it are variables of their own: a client takes an item
when the last it heard is that the item is its own, and says so later (`Grab`, then `OnItemDespawn`). `TickItems` ages every item, lets
reservations run out and offers what is free. `Holdings` says what a join, a spawn and a departure do to all three at once.

### AdminStore, Throttle and PanelSessions

`AdminStore` has the operations of the game task, each for the account that asked (`actor`), with the rules the code checks: who may reach which group, and that the last
account able to edit groups stays. `PanelSessions` has the tasks around it: `Ask` is a request waiting for its authorisation, `Answer` the game task's reply, `CarryOut` its effect, and
anything may happen in between. `Login` passes the throttle and starts a hash, `LoginEnds` records the outcome and issues a session. `Upgrade` and `FeedTick` are a
socket, which looks again at every tick whether its session may still see the panel. `Second` is the clock of windows and attempts, `Idle` that of
sessions; they are independent, which is more behaviours than one clock.

### Listener and AuditLog

`ClaimPlace` and `GiveBack` are `claim` and the guard's `drop`; each holds the lock throughout. In `AuditLog`, `call` is where the call of `append` is:
`DropOldest`, one `ShiftSegment` per segment, `RollLive`, `Write`; each may fail as it does in the code, and `CrashInCall` ends the process there. A write that stops
before its newline leaves `midLine`, and the next line is joined to it.

### LunarEvent

`lunar` is the tracker, `towers` the pillars among the NPCs, with the copy of the shield and the flag that a blow looks at, `progress` what the world remembers. `TickLunar` is
`tick_lunar` followed by each pillar's routine. `Save` copies the standing pillars and the world as one step, as how a save can fail is in `SavePipeline` and `WorldFile`;
`Restart` is any end of the process and the next start. `tale` and `cleared` are history. Left out are `/spawn`, a second pillar of one kind, and the collapse of a
pillar, a branch the server never enters.

## The runs

A `pass` run finishes without error; a `violation` run checks one statement found in the
repository's own text and shows it broken. Deadlock is checked in `slots_*` (the game loop always has a tick) and
`world_files` (a server can always stop and start). The others come to rest when the game task has stopped, the
process has returned, or the bound on edits, drops or events is used up, and do not check it.

| Run | Question | Bounds, and why they are enough |
|---|---|---|
| `slots_ghosts` | Do packets of a lost slot, or an early or repeated handshake packet, ever act for the next owner or get past the password? | one slot, three connections, epochs 0..2, channel of 2, one bannable name: a ghost in the channel while its slot is reseated, twice, with the newcomer's own packet behind it, and the wrap of the epoch just out of reach of `NotWrapped` |
| `slots_join` | Is the end of the join sent once, before play, to one player per name, and does the reaper give slots back? | two slots and connections, queues of up to 2 sections, channel of 1: a budget that stops in the middle of either queue, requests for tiles repeated while the queue is full and after it was emptied |
| `saves` | Are the saves ordered, whole and fired, also when a writer panics or the world is rolled back? | two sections drained one a tick against a deadline of two ticks, channels of two: a drain that finishes and one that is cut off; two outcomes outstanding; a snapshot without a buffer after a panic. 1.8 million states |
| `auth_sessions` | Do sessions, reservations and the claim stay right while hashes are under way? | two connections, slots and names, ceiling 2; symmetric in all three |
| `auth_late` (violation) | Is a session always its owner's? | one slot, two visitors |
| `budget_queues` | Do two lock-free counters, a shed that sends, and the write tasks keep the budget? | two connections, queue 2, budget 2, frames of length 1: one fills its queue alone, both pass the budget, both are shed in one call. With frames of one length the batch limit is a number of frames. 1.1 million states |
| `shutdown_ends` | Does whatever ends the process save and return? | two clients; main knows none of them, so a third adds nothing |
| `world_files` | Do the files survive failures, crashes and power cuts, and is that `DurableWorld`? | the code's three backups; starts with no file and with a chain of any length, so that two more saves lose the oldest backup of a full one; one rollback (two saves, a rollback and a power cut in any order is what the properties relate); every step may fail. 370 000 states |
| `sections` | Does a client have what the world has, and does everybody get their tiles? | two clients, two sections, two edits of one or both, one tile request a session, starts with and without a section that does not fit. `Reach` is 0 where the code has 1: with two sections a reach of 1 would be the whole world and nobody would cross into anything. 210 000 states |
| `holds` | Do chests, furniture and items stay with whom they belong to; and is the lunar apocalypse only won by fighting? | two players; two chest ids and two places, so that an id is reused for another place; one spot whose furniture is dug and rebuilt, with a new id; two item slots, so that one is recycled, and reservations of two ticks; three pillars with shields of two. 130 000 states |
| `pylon` (violation) | Is a pylon taken off the map by the call that takes it out of the world? | as `holds`, pylons only |
| `doors` | Do the panel's rules hold between a request's authorisation and its effect; do windows close, sockets end, counts match; can the log be read? | two accounts, two groups, four permissions of which one grants all, two requests at once; one owner and two who guess at any account without end, one of them from his address, with windows of up to 2 seconds and counts of failures up to where the window grows no more; two sessions; four sockets of which three share an address limited to two; segments of two lines, three segments and eight events, so that the oldest segment is dropped. 540 000 states |

### What the properties say

- `GhostsAreHarmless`: an event whose epoch is current was sent by whoever sits in the slot. Under
  `NotWrapped`: a slot reseated as often as there are epochs (2^32 in the code) hands one out again.
- `AdmittedByOwnPassword`: past the greeting means this connection's password was handled and right.
- `JoinTailOnce`: a session gets the end of the join at most once, and whoever plays got it, whatever order packets come in.
- `NamesUnique`: two players in the world share a name only if one has the name its slot started with, which is
  compared with nothing.
- `SlotsComeBack`: whoever does not finish joining loses the slot.
- `OneSaveAtATime`, `FinalSaveIsNewest`, `RollbackIsLast`, `ArmedFires`: the save path.
- `FiredIsLive`: what fires is the live world, unless a save was once given a second buffer while the first was on
  its way back (`spilled`); see below.
- `WholeAndNewest`: no file that is read later is a fragment, and a save that was reported survives a power cut. `BackupsSurvive`: a save that fails leaves
  the world, and all files if it fails before it is verified; one that gets as far as the last rename, whether that fails or not, has shifted the backups by one, so that it costs
  the oldest and no other. `RollbackReversible`: at every moment of a rollback no save overlaps, the world it replaces is in its place or beside it and the
  backup is where it was; when it is done, this is so after a power cut too. `ImplementsDurableWorld`: all of it refines the
  abstract specification, an atomic register with a chain of old values.
- `SessionProved`, `HashesReserved`: sessions and the ceiling on hashes, as long as nobody has left with
  a hash under way (`late`). `ClaimedHasOwner`: without that condition.
- `BudgetExact`, `WithinBudget`, `BacklogAbandoned`, `GameReturns`: the queues.
- `SavedBeforeReturn`, `StopStops`, `SignalStopsWhenEmptied`: the end of the process.
- `SentIsCurrent`: what is sent for the first time is what the world has then, so no stale encoding is ever served. `FollowsWorld`: a client in the world has what the world has, in
  all it was sent, but for `missed`. `StreamsArrive`: once the others settle, who waits for tiles gets them. The condition (`Settles`) is needed, as slots are drained in
  ascending order and lower ones can keep the budget busy.
- `NoClobber`: what is in a chest somebody was let into changes only by that player or by one who used packet 33. `HoldsAreHonest`: furniture is open for one player who is in the world.
- `OneTaker`: two clients take one item only if its reservation ran out under one of them (`lapsed`). `BagsAreTheirs`: a boss's bag stays its player's. `ReservationsLapse`: nothing but a
  bag stays reserved for an empty slot.
- `NothingWonUnfought`: a pillar counts as beaten only if it went down in the history of this world, and nobody is called down while one that was raised has not.
  `OpenOnlyWhenCleared`: a pillar seen and left open had its escort killed.
- `PowerOnlyMoves`: no operation lets anybody do what nobody could do before. `SomebodyAdministers`: as long as accounts are moved from the panel only, somebody can edit groups.
- `FeedsEnd`: a socket does not outlive the right to it. `WindowsClose`: however many go on guessing, every window of the throttle closes again.
- `PlacesAccountedFor`: the listener's counts are those of the connections there are.
- `HistoryIsAnEnd`: what can be read of the log is the end of what was written whole, in order, nothing twice and nothing missing between.

Each of them is broken by a plausible mistake in the code, listed under `mutants` in `PROJECT.json`; a mutant is an
operator beside the one it would replace (`NextEpoch_Stuck` beside `NextEpoch`).

## Where code and documentation disagree

Two disagreements are kept as runs, each with its counterexample:

1. `auth_late`, `SessionAlwaysProved`: "whoever reuses this slot starts as nobody" (`mod.rs:2920`). The
   answer of a login is applied to a slot number; its asker may have left.
2. `pylon`, `MapIsTrue`: "so a pylon can be taken off the travel map by the same call that takes it out of the world" (`systems.rs:5685`).
   The tick removes the entities first and looks them up afterwards (`systems.rs:5762`), finds none, and tells nobody.

Seven more are stated as definitions that no run checks; TLC refutes each in the instance of its module, when it is made a property of that
module's cfg:

- `FiredIsAlwaysLive` (`SavePipeline`): "bit-identical to the live world" (`mod.rs:1961`). A save armed and
  fired by a packet after its predecessor finished, and before a tick reclaimed the buffer, snapshots the whole world
  and leaves the marks; two buffers are then in turn, and each drains marks the other has not seen.
- `RollbackStands` (`SavePipeline`): "must not be written over what was just restored" (`mod.rs:2239`). A writer already
  running when the world is rolled back renames its snapshot over the restored file, and the end of the loop awaits it.
- `SignalStops` (`Shutdown`): "A real `SIGTERM` stops the server" (`README.md:342`). Each connection holds a sender,
  and nothing ends it: one client that stays keeps the game task waiting.
- `FailureCostsNothing` (`WorldFile`): "a failure anywhere costs nothing that was already there" (`wld_save.rs:994`). The rotation comes before
  the last rename, and a failure of that rename does not undo it (`wld_save.rs:1037`): the oldest backup is gone and the first is a copy of the world. A rename that keeps
  failing, as the code expects of Windows while something holds the file, pushes one backup out at each save until the chain holds one world only.
- `WaitsAtMostThatLong` (`PanelSessions`): "a real owner trying their own account mid-attack waits at most that long" (`throttle.rs:11`). Who guesses first after a window has
  closed opens it anew, and an attempt is refused if either of its windows is open: TLC's trace has one who guesses at the account from elsewhere and another at some other account from the
  owner's address, in turn, and from then on there is no moment at which the owner is not refused. Each window by itself does close again and again (`WindowsClose`).
- `GeneratedOnce` (`WorldFile`): "generation happens exactly once" (`config.rs:169`). A process that dies between the two
  renames of a rollback leaves no file under the world's name, and the next start generates one.
- `StillToCome` (`LunarEvent`): "When the last one falls the sky counts down a minute and the Moon Lord arrives" (`lunar.rs:9`). A restart during the countdown
  or while he is here, `/butcher`, or nobody alive at the end of the countdown (`systems.rs:6980`) loses him for this world: the cultist does not come back (`systems.rs:8387`), and the
  pillars, which would bring him, are gone.

Others met while modelling, which the models contain but no run singles out:

*Sessions and saves*
- A ban looks for its name among players in the world and is looked up at the door; somebody between the two plays on.
- A player may keep the default name of their slot while another has given that name as theirs.
- A request for a save while another is armed takes over its reason, so whoever asked first is not told how it went.
- A writer that panics posts no outcome, so that save is counted neither as a success nor as a failure, and does not bring the alarm nearer.
- A departure releases a reservation but not its hash, so departures can take the hashes above the ceiling.
- Two registrations under way with the claim token both make owners.
- When the game task is gone, the farewell frames it queued are lost to the abort that follows (`connection.rs:337`).
- With a terminal, a console thread keeps its sender until a key is pressed, so a signal on an empty server waits for one.
- A rollback checks a backup that a save running beside it may shift before it is copied, and ignores an error of its own undo (`mod.rs:2230`).

*Tiles*
- Between the end of its join block and its spawn a client is told of no change (`mod.rs:3070`), and the start of hardmode tells nobody (`systems.rs:7735`); both leave the client behind until it rejoins.
- The chests and signs encoded with a section are cached with it and can be stale, as only tiles mark a section (`dispatch.rs:737`).

*Chests, furniture, items*
- A chest that is broken while open leaves its number in `open_chest`, and the next chest placed may get that number (`world.rs:394`).
- Edits of a mannequin or hat rack look at no hold, where `dispatch.rs:4600` says a client cannot edit an entity it has not claimed.
- Furniture of another kind placed before the tick gets no entity of its own.
- A bag belongs to the number of a slot, so the next occupant inherits it; released, it stays reserved for nobody (`dispatch.rs:2895`). Its landing is told to all (`systems.rs:9441`).
- A reservation runs out without a word to the client, so two can take one item; a full table may throw away an item that is being taken.

*Panel and store*
- `/group` in chat, and the console's group command, have no rule about the last administrator; after it the panel may delete the last account, and the server is then unclaimed (`store.rs:175`).
- A session is honoured for an account made anew under the same name (`auth.rs:154`), and at its effect a request's permission is not looked at again, only its reach.

*Lunar event and log*
- A table of NPCs that is full when the cultist dies raises fewer pillars, or none, and the sky counts down anyway. `/butcher` counts pillars as beaten.
- A pillar can be hurt until its first tick, since its table entry is not invulnerable (`npc_data.rs`, 422, 493, 507, 517). The last pillar killed and saved before the next tick loses the countdown.
- A write of the log that stops mid-line spoils the next line as well, as its comment says. While renames of segments work and that of the live file fails, every event drops the oldest segment.

## Fairness

Safety is checked of `Init /\ [][Next]_vars`; fairness is stated where a liveness property needs it, and always of the
smallest step the code runs unconditionally.

- `SlotTable`: `HandleEvent` and `Reap` (tokio's select polls both branches; the ticker keeps coming round) and time
  passing (`DeadlinePasses`). Nothing of the clients. Weak fairness of `Reap` is justified since it is
  always enabled; that it comes between any two events is not assumed.
- `SavePipeline`: the tick, the end of the loop and the blocking thread. Events (edits and requests) have
  none and may come for ever, which is the point of `ArmedFires`.
- `SectionStream`: the tick. Clients and edits have none.
- `Holdings`: the tick of items, for as long as the server runs.
- `PanelSessions`: a socket's own timer (`FeedTick`), a hash that ends (`LoginEnds`), and the clock (`Second`). Those who guess have
  none. That `FeedTick` is fair presumes that the client goes on reading: `send_ws` has no timeout, so that a socket whose client has stopped reading is neither fed nor closed.
- `OutboundBudget`: code that is running goes on running (`GameStep`). The write tasks have none: a client that never reads must not
  block the game task.
- `Shutdown`: tasks that can run do, and an aborted task is dropped. Clients have none;
  `SignalStopsWhenEmptied` assumes in the property itself that they are gone for good.

`AuthPipeline`, `WorldFile`, `Listener`, `AuditLog` and `LunarEvent` have no liveness properties: nothing waits for a file, a hash or a place that has not
been said above, a start after a crash is a human decision, and whether a boss is fought is the players'.

## The proofs

`tlapm` checks them with Z3, Zenon and LS4. None uses fairness. Every safety and action property that a passing run checks is
the statement of a theorem, and so is the refinement of `DurableWorld`; the proofs about several small components are in one module.

| Theorem | States |
|---|---|
| `SlotTable_proofs!TypeCorrect` | `TypeOK`, for every number of connections, slots, epochs and messages |
| `SlotTable_proofs!NoGhostActs` | `GhostsAreHarmless`, the reason slots have epochs |
| `SlotTable_proofs!NoOneElsesPassword` | `AdmittedByOwnPassword` |
| `SlotTable_proofs!OneTail` | `JoinTailOnce` |
| `SlotTable_proofs!NoSharedName` | `NamesUnique` |
| `Shutdown_proofs!TypeCorrect` | `TypeOK`, for every set of clients, terminal or not |
| `Shutdown_proofs!AlwaysSaved` | `SavedBeforeReturn` |
| `Shutdown_proofs!CrashesReported` | `CrashIsReported`, which no run checks |
| `SavePipeline_proofs!OneThreadWrites` | `OneSaveAtATime`, for every number of sections, drain rate, deadline and alarm |
| `SavePipeline_proofs!WhatIsFiredIsLive` | `FiredIsLive` |
| `SavePipeline_proofs!LastSaveIsNewest` | `FinalSaveIsNewest` |
| `SavePipeline_proofs!RestoredStays` | `RollbackIsLast` |
| `WorldFile_proofs!FilesTyped` | `TypeOK`, for every number of backups |
| `WorldFile_proofs!NothingTornOrLost` | `WholeAndNewest` |
| `WorldFile_proofs!RollbacksReverse` | `RollbackReversible` |
| `WorldFile_proofs!SavesKeepBackups` | `BackupsSurvive` |
| `WorldFile_proofs!WorldFileIsDurable` | `ImplementsDurableWorld`, the refinement |
| `AuthPipeline_proofs!TypeCorrect` | `TypeOK`, for every set of connections, slots and names and every ceiling |
| `AuthPipeline_proofs!CeilingHolds` | `HashesReserved` |
| `AuthPipeline_proofs!SessionsAreProved` | `SessionProved` |
| `AuthPipeline_proofs!ClaimedOnce` | `ClaimedHasOwner` |
| `Outbound_proofs!QueuesTyped` | `QueuesTypeOK`, for every number of connections, queue depth and budget |
| `Outbound_proofs!CountsAgree` | `BudgetExact` |
| `Outbound_proofs!ShedUntilItFits` | `WithinBudget` |
| `Outbound_proofs!OneMoreBatch` | `BacklogAbandoned` |
| `Outbound_proofs!ClientsFollow` | `FollowsWorld`, for every number of clients and sections, reach and spawn |
| `Outbound_proofs!NothingStaleIsSent` | `SentIsCurrent` |
| `FrontDoors_proofs!PowerNeverGrows` | `PowerOnlyMoves`, for every set of permissions and whatever grants what |
| `FrontDoors_proofs!AnAdministratorStays` | `SomebodyAdministers` |
| `FrontDoors_proofs!PlacesAreCounted` | `PlacesAccountedFor`, for every set of sockets, addresses and limits |
| `FrontDoors_proofs!LogIsAnEnd` | `HistoryIsAnEnd`, for every segment length and number of segments |
| `Holdings_proofs!HoldsStayHonest` | `HoldsAreHonest`, for every number of players, spots and entities |
| `Holdings_proofs!ChestsAreTheirs` | `NoClobber`, for every number of players, chests, places and kinds |
| `Holdings_proofs!TakenOnce` | `OneTaker`, for every number of players and items and every reservation |
| `Holdings_proofs!BagsStayTheirs` | `BagsAreTheirs` |
| `Holdings_proofs!WonOnlyByFighting` | `NothingWonUnfought`, for every set of pillars, strength and countdown |
| `Holdings_proofs!OpenedByItsEscort` | `OpenOnlyWhenCleared` |

**SlotTable.** Assumptions: the constants' own (`Conns` finite and without `Nobody`; positive sizes). That
a current event is the occupant's is not inductive: it has to be known why no *older* event can become current when a slot is
handed out. The invariant `IInv` adds that an epoch is the number of times its slot was handed out as long as it has not wrapped
(`CountsEpochs`), that every stamp in a task or in the channel is one already issued (`StampsIssued`), that no two connections were given the same
(`StampsUnique`), that a connection has one Join in the channel at most and only before it is served (`JoinOnce`), that an event carries its sender's
stamp (`Stamped`) and that who is seated has the current one (`Seated`). Then a new epoch is one no event
carries, and an event with the current stamp is from the connection that has it. `Admitted` says of every
occupant that got anywhere, or is owed sections, that it proved the password; the sections matter because finishing a
join stream advances its player as well. The proof factors what handlers have in
common: a handler changes the table only by *evolving* players in place or emptying slots (`Evolves`, `Stays`), and both
keep the stamps (`StampsKept`, `HandlerKeeps`); each action then has to show only that. A second invariant on top says of every
occupant that the tail was sent if and only if its player is that far (`Tails`), and that two occupants with one name include one who has it from the
slot, in the world or still on the way in (`NamesApart`: that clients in the world satisfy it is not inductive, as a name is taken before the world is entered).
What is not a Join, a new name or the end of a section queue leaves all that alone (`Steady`).

**Shutdown.** Assumption: client names are not task names. `SavedBeforeReturn` needs that the game task has
ended when main returns, which is so for two different reasons: main saw it end, or awaited it (`WokenByGame`,
`ReturnedAfter`), and that it saves before it ends (`EndedIsSaved`). `CrashIsReported` needs that a switch implies a stop (`SwitchStops`).

**SavePipeline.** Assumption: the marks for "no buffer" and "the restored file" are not copies of the world. While a save is armed nobody writes (`ServerOK`), since arming looks at the handle and
firing disarms; that is why firing never starts a second thread. As long as nothing spilled there is one buffer, in `spare_world`, with the thread or in the channel, and every section in which it is behind the world is
marked (`Tidy`): so the copies made at the firing leave nothing behind. `Ended` and `Cut` say that nothing writes after the shutdown save, and that a server whose world was rolled back has no path.

**WorldFile.** Assumption: at least one backup is kept. The invariant says of every directory a power cut may leave what the property says of the present one:
whole worlds (`Sound`), all older than what is on its way (`Fresh`), none older than what was promised and, while something is promised, none newer than the world there is
(`Keeps`). The last is what a rollback would break if its first step did not withdraw the promise. `Apart` is that a save and a rollback under way at once know of each
other; `Reverses` and `Shifts` say how far a rollback, or a save, that has the files to itself has come, and each step carries its part to the next.
For the refinement the durable value is the world in the directory and the promise the last version reported: the rename is `Replace`, the sync of the directory by a save that was
alone is `Report`, the steps of a rollback are `Withdraw`, a power cut is `PowerCut`, or `Withdraw` while nothing is promised, and everything else stutters, the rotation of
backups included.

**AuthPipeline.** Assumptions: finitely many connections, slots and names, and a positive ceiling. A reservation has a hash (`Reserved`), which needs no condition. The converse, that every hash has its own
reservation and the asker is still in the slot (`AtTheirSeats`), is what makes a session its owner's, and is false as soon as somebody leaves with a hash under
way: `disconnect` frees the slot and its reservation but not the hash, and the next visitor may reserve again. `late` marks those behaviours, and `auth_late` shows one; that is why
two of the properties have it as a condition and cannot do without. `ClaimedHasOwner` does not need it: a registration that does not claim was asked of a claimed server (`Claims`), and no account is ever deleted.

**SectionStream.** Assumptions: sizes are natural numbers and the spawn block is not empty. A cached encoding may be stale only where the section is marked (`Fresh`), and sending encodes the marked ones
first. `Follows` is then kept by an edit because its square goes to everybody in the world who holds one of its sections, and what anyone else loses by it is in `missed`. That the sections around a
player can be put in order at all (`InOrder`, a choice of a sequence) is proved by induction on the set.

**OutboundBudget.** Assumptions: the sizes are positive. The counters are written by three kinds of code without a lock, so the invariant is a ledger. A
connection is charged for its queue, for a frame that is on its way in or being taken back, and for what its write task has taken out and not yet released (`Charged`); the total
is the sum of the charges, but for what is in the middle: a frame charged to the connection and not yet to the total, an amount credited or abandoned on one side only (`Books`). From
that follows that no unsigned subtraction goes below zero. `WithinBudget` needs what the scan for the deepest queue knows while write tasks go on emptying queues behind
it: there is a connection without whose queue the rest fits, and the scan either has not come to it or prefers a queue that was at least as deep when it was looked
at, without which, whatever was written since, the rest fits too (`Best`, `Room`). `Batches` bounds what goes out after a `Closer` has fired. What a sum over
connections or over a queue does when one of them changes is proved first, of the folds the model uses.

**PanelSessions.** Assumptions: a permission grants itself and granting is transitive (`CoversAssumption`, the wildcards of `group.rs`), the default group exists, and at the start somebody
can edit groups (`OwnerAssumption`: whoever claims a server is made owner). Whoever moves or makes an account, or edits a group, does so for a group within reach, that is one that grants only what their own does; with
transitivity, what anybody can do afterwards the actor could do before (`MoveKeepsPowers`). For the last administrator, the guards of the three panel operations leave out
exactly the steps that would empty `Capable`; `/group` is excluded by the history variable `chatMoved`. Both are proved of `StoreNext` first, which every step of the panel refines.

**Listener.** Assumptions: finitely many sockets, positive limits (`config.rs:333-345` makes them so). The invariant is the property with its types; the work is in the cardinalities of the sets of
connections from an address when one is added or taken away.

**AuditLog.** Assumption: a missing file is not a list of lines. In every step of an append a segment is moved either onto nothing or, when dropping failed, onto the oldest
(`Vacant`), so what is lost is the oldest each time and what is left is an end. The rest is where the spoilt line can be (`TornLast`) and that what is about to be
written is newer than everything there (`EventsNew`). The arguments for the panel, the listener and the log are in `FrontDoors_proofs`.

**Holdings.** `HoldsAreHonest` with its types is inductive. `NoClobber` needs that of two players who have one chest open, one was told (`CInv`): whoever is let in by
packet 31 found nobody else there, and the chest that is placed under a number still open is empty.
`OneTaker` needs more than that an item has one owner: a client goes on believing what it last heard. As long as no reservation of the item ran out, whoever counts on it is its
owner, and whoever took it is on record as having said so (`Honest`). `BagsAreTheirs` needs `Meant`. A boss's bags are dealt to the players one after the other, which the
model writes as a fold; that the fold is defined and changes only free places is by induction on the set of players.
The lunar event's proofs are in the same module, as its run is.

**LunarEvent.** Assumption: a strength of at least 2, so that half of it is a shield (`SHIELD_STRENGTH` is 100), and that no pillar is the mark for none. `NothingWonUnfought` needs that the pillars that were raised and did not go down are
those that stand, in the running world and in the file (`Told`); that while one stands the tracker is up and nothing else under way (`Tracked`). `OpenOnlyWhenCleared` needs that
count and kills add up to the strength and that the copy on the pillar is never below the count (`Shields`).

**Induction over data.** The library's induction theorems take an operator as a parameter, which the installed provers cannot instantiate. What a fold over a finite set
yields is proved instead from the fact that strict inclusion is well-founded on the subsets of a finite set, stated for a set of subsets (`SubsetInduction`), and the existence of
the function behind the fold from the theorem on recursive functions; that covers the folds here, over players, connections and queues.

**Only model-checked.** What is temporal beyond `[]`: `SlotsComeBack`, `ArmedFires`, `GameReturns`, `StopStops`, `SignalStopsWhenEmptied`, `StreamsArrive`, `ReservationsLapse`,
`FeedsEnd`, `WindowsClose` need `ENABLED` and fairness, which the installed provers do not do. The types of `SavePipeline`, `SectionStream`,
`Holdings`, `LunarEvent` and the parts of `FrontDoors` are proved as far as their invariants need them, inside those.

## What is not modelled

- *Pure data and formats*: the frame codec, the protocol crate, world file encoding, configuration, tables. No state, one
  thread, covered by property tests and a fuzzer in the repository. The generated tables (recipes, projectiles, NPCs, drops, tile objects, and most of `spawn.rs`) are
  a large part of the repository's lines.
- *World generation and simulation, NPC AI*: tens of thousands of lines of sequential numeric behaviour that
  mirrors the original game. Its reference is that game; there is no property to state that is not the code again.
- *The other events* (invasion, moons, army, rains, feasts): counters that the game task advances by itself, one at a time.
- *Outside services*: update, UPnP, HTTP. Best effort, no state that anything else relies on.
- *Panel pages*: requests that only read, and those that become the events modelled here.
- *Inside the modelled parts*: payloads that do not decode; a process that dies without unwinding other than in
  `WorldFile`, `AuditLog` and `LunarEvent`; the replacement process of a world switch; platforms where a directory cannot be synced. In
  `SectionStream`: a grid of two dimensions, squares that span three sections, sections that shrink back, the queue a frame goes through. In `Chests`: names, locks, wires, requests that
  name a chest or a kind twice, banks (every id below -1 is -1), several stacks in one quick stack, a world before hardmode. In `TileEntities`: what an entity holds. In `DroppedItems`: where items lie, what they are, shimmer, the owner's own updates. In
  `AdminStore`: the console's group command, mutes and the whitelist; names that differ in case. In `Throttle`: the jitter, the log line, the sweep of old keys; a login in chat records its failure when its hash ends,
  the panel's when it was checked, and the model has the panel's. In `Listener`: the wait after a failed accept.

## Plan

Done, in the order of what they protect: slots, saves, accounts, queues, shutdown, files; then sections, holdings, the panel and its store, the listener, the log, the lunar event.

Next, by importance. Where a new module and an existing one ask one question, they share a run.

1. The invasion and the other events with a save and a restart between their steps, as `LunarEvent` does it for its own.
2. The chests and signs that go with a section, in `SectionStream`, and signs' own edits.
3. An abstract session (nobody, greeted, admitted, playing, gone) that `SlotTable` implements.
4. Mutes and the whitelist, and the console's group command, in `AdminStore`.

Proofs, in order: the abstract session of 3 as a refinement, from `SlotTable`'s second invariant; what the run's `Holdings` adds to its parts, one invariant for chests, entities and items
at once; for the liveness properties, the safety facts they rest on (that a step under weak fairness stays possible until it is taken, and what it brings nearer), stated
without `ENABLED`.
