------------------------- MODULE SavePipeline_proofs -------------------------
(***************************************************************************)
(* One thread at a time writes the world, what is fired is the live world, the *)
(* last save is the newest and a restored file stays, for every number of       *)
(* sections, drain rate, deadline and alarm.                                     *)
(***************************************************************************)
EXTENDS SavePipeline, TLAPS

(* While a save is armed no thread is writing, and there is never a second one.  *)
ServerOK(g) ==
  /\ g \in Server
  /\ Len(g.writers) <= 1
  /\ g.pending # None => g.writers = << >>

(* There is one buffer, wherever it is, and every section in which it is behind the *)
(* world is marked.                                                                   *)
Tidy(g, R) ==
  /\ g.spare # None => g.writers = << >> /\ R = << >> /\ g.spare \subseteq g.marks
  /\ g.writers # << >> => R = << >>
  /\ Len(R) <= 1
  /\ \A i \in DOMAIN g.writers : g.writers[i].buffer \subseteq g.marks
  /\ \A i \in DOMAIN R : R[i] \subseteq g.marks

(* The game is over once the last save was tried, and nothing writes after it. *)
Ended ==
  /\ final # "none" => phase = "stopped"
  /\ phase = "stopped" => server.writers = << >>
  /\ FinalSaveIsNewest

(* A server whose world was rolled back has no path to save it to. *)
Cut == main = Restored => ~server.path

IInv ==
  /\ TypeOK
  /\ ServerOK(server)
  /\ spilled \/ (Tidy(server, returns) /\ lastFired = {})
  /\ Ended
  /\ Cut

USE SectionsAssumption, DrainAssumption, AlarmAssumption, NoneAssumption, SwitchesAssumption,
    QueuedAssumption

(* ---- sequences ------------------------------------------------------------------- *)

LEMMA AtMostOne ==
  ASSUME NEW S, NEW s \in Seq(S), Len(s) <= 1, NEW i \in DOMAIN s
  PROVE  i = 1 /\ Len(s) = 1 /\ s # << >> /\ s[1] \in S /\ s = << s[1] >>
<1> DEFINE n == Len(s)
<1>1. n \in Nat /\ n <= 1 /\ i \in 1 .. n
  OBVIOUS
<1>2. n = 1 /\ i = 1
  <2> HIDE DEF n
  <2> QED BY <1>1
<1>3. s[1] \in S /\ s # << >>
  BY <1>2
<1>4. s = << s[1] >>
  BY <1>2
<1> QED BY <1>2, <1>3, <1>4

LEMMA OnlyOne ==
  ASSUME NEW S, NEW e \in S
  PROVE  /\ << e >> \in Seq(S) /\ Len(<< e >>) <= 1 /\ << e >> # << >>
         /\ \A i \in DOMAIN << e >> : << e >>[i] = e
OBVIOUS

LEMMA SameLength ==
  ASSUME NEW S, NEW T, NEW s \in Seq(S), NEW t \in [DOMAIN s -> T]
  PROVE  t \in Seq(T) /\ Len(t) = Len(s) /\ DOMAIN t = DOMAIN s /\ (t = << >> <=> s = << >>)
OBVIOUS

LEMMA FirstAndRest ==
  ASSUME NEW S, NEW s \in Seq(S), s # << >>
  PROVE  /\ 1 \in DOMAIN s /\ Head(s) = s[1] /\ Head(s) \in S
         /\ Tail(s) \in Seq(S) /\ Len(Tail(s)) = Len(s) - 1
OBVIOUS

(* ---- what the steps of a save do to the server ---------------------------------- *)

LEMMA Admissible ==
  ASSUME NEW g \in Server, Len(g.writers) <= 1, g.pending = None \/ g.writers = << >>
  PROVE  ServerOK(g)
BY DEF ServerOK

LEMMA ArmKeeps ==
  ASSUME NEW g, ServerOK(g), NEW r \in Reasons
  PROVE  /\ ServerOK(Arm(g, r)) /\ Arm(g, r).path = g.path
         /\ \A R : Tidy(g, R) => Tidy(Arm(g, r), R)
<1>1. CASE ~g.path \/ StillSaving(g)
  BY <1>1 DEF Arm
<1>2. CASE g.path /\ g.writers = << >>
  <2>1. Arm(g, r) = Armed(g, r)
    BY <1>2 DEF Arm, StillSaving
  <2>2. /\ Armed(g, r) \in Server /\ Armed(g, r).writers = g.writers
        /\ Armed(g, r).spare = g.spare /\ Armed(g, r).marks = g.marks /\ Armed(g, r).path = g.path
    <3> DEFINE n == IF g.pending = None THEN 0 ELSE g.waited
    <3>1. n \in 0 .. DrainDeadline
      BY DEF ServerOK, Server
    <3>2. Armed(g, r) = [g EXCEPT !.pending = r, !.waited = n]
      BY DEF Armed
    <3> HIDE DEF n
    <3> QED BY <3>1, <3>2 DEF ServerOK, Server
  <2> QED BY <1>2, <2>1, <2>2 DEF ServerOK, Tidy
<1> QED BY <1>1, <1>2 DEF StillSaving

LEMMA WaitKeeps ==
  ASSUME NEW g, ServerOK(g), NEW n \in 0 .. DrainDeadline
  PROVE  /\ ServerOK([g EXCEPT !.waited = n]) /\ [g EXCEPT !.waited = n].path = g.path
         /\ \A R : Tidy(g, R) => Tidy([g EXCEPT !.waited = n], R)
BY DEF ServerOK, Server, Tidy

LEMMA DrainKeeps ==
  ASSUME NEW g, ServerOK(g)
  PROVE  /\ ServerOK(Drain(g)) /\ Drain(g).path = g.path
         /\ \A R : Tidy(g, R) => Tidy(Drain(g), R)
<1>1. CASE g.pending = None \/ g.spare = None
  BY <1>1 DEF Drain
<1>2. CASE g.pending # None /\ g.spare # None
  <2> DEFINE F == FirstMarked(g.marks, DrainPerTick)
  <2>1. Drain(g) = [g EXCEPT !.spare = g.spare \ F, !.marks = g.marks \ F]
    BY <1>2 DEF Drain, ServerOK, Server
  <2>2. /\ Drain(g) \in Server /\ Drain(g).writers = g.writers /\ Drain(g).pending = g.pending
        /\ Drain(g).spare = g.spare \ F /\ Drain(g).marks = g.marks \ F /\ Drain(g).path = g.path
    BY <1>2, <2>1 DEF ServerOK, Server
  <2>3. g.spare \in SUBSET Sections /\ g.spare \ F \in SUBSET Sections
    BY <1>2 DEF ServerOK, Server
  <2> QED BY <1>2, <2>2, <2>3 DEF ServerOK, Tidy
<1> QED BY <1>1, <1>2

(* A save that fires leaves the buffer with the thread, level with the world if it    *)
(* was the only one.                                                                   *)
LEMMA FireKeeps ==
  ASSUME TypeOK, NEW g, ServerOK(g), FireFrom(g)
  PROVE  /\ ServerOK(server') /\ server'.path = g.path
         /\ spilled' \in BOOLEAN /\ lastFired' \in SUBSET Sections
         /\ spilled \/ (Tidy(g, returns) /\ lastFired = {})
              => spilled' \/ (Tidy(server', returns) /\ lastFired' = {})
<1>1. Snapshot(g) \in SUBSET Sections
  BY DEF Snapshot, ServerOK, Server
<1>2. CASE ~Fires(g)
  <2>1. /\ server' \in Server /\ server'.writers = g.writers /\ server'.spare = g.spare
        /\ server'.marks = g.marks /\ server'.path = g.path
        /\ server'.pending \in {g.pending, None}
    BY <1>2 DEF FireFrom, TryFire, ServerOK, Server
  <2>2. lastFired' = lastFired /\ spilled' = spilled
    BY <1>2 DEF FireFrom, TypeOK
  <2> QED BY <2>1, <2>2 DEF ServerOK, Tidy, TypeOK
<1>3. CASE Fires(g)
  <2> DEFINE w == [at |-> "writing", buffer |-> Snapshot(g), reason |-> g.pending, ok |-> FALSE]
  <2>1. w \in Writer /\ g.writers = << >> /\ g.pending # None
    BY <1>1, <1>3 DEF Fires, ServerOK, Server, Writer
  <2>2. Append(g.writers, w) = << w >> /\ << w >> \in Seq(Writer) /\ Len(<< w >>) = 1
    BY <2>1
  <2>3. server' = [g EXCEPT !.pending = None, !.reason = g.pending, !.spare = None,
                            !.marks = IF g.spare = None THEN g.marks ELSE {},
                            !.writers = << w >>]
    BY <1>3, <2>2 DEF FireFrom, TryFire, Fired, ServerOK, Server
  <2>4. /\ server' \in Server /\ server'.writers = << w >> /\ server'.spare = None
        /\ server'.pending = None /\ server'.path = g.path
    BY <2>1, <2>2, <2>3 DEF ServerOK, Server
  <2>5. lastFired' = Snapshot(g) /\ spilled' = (spilled \/ (g.spare = None /\ returns # << >>))
    BY <1>3 DEF FireFrom
  <2>6. ASSUME ~spilled', Tidy(g, returns)
        PROVE  Tidy(server', returns) /\ lastFired' = {}
    <3>1. returns = << >>
      BY <2>5, <2>6 DEF Tidy
    <3>2. Snapshot(g) = {}
      BY <2>6 DEF Snapshot, Tidy
    <3>3. \A i \in DOMAIN server'.writers : server'.writers[i].buffer = {}
      BY <2>4, <3>2
    <3> QED BY <2>4, <2>5, <3>1, <3>2, <3>3 DEF Tidy
  <2>7. spilled' \in BOOLEAN /\ (spilled => spilled')
    BY <2>5 DEF TypeOK
  <2> QED BY <1>1, <2>2, <2>4, <2>5, <2>6, <2>7 DEF ServerOK
<1> QED BY <1>2, <1>3

(* What is noted of a save changes a count and nothing else. *)
LEMMA NotedKeeps ==
  ASSUME NEW g, ServerOK(g), NEW ok \in BOOLEAN
  PROVE  /\ ServerOK(Noted(g, ok)) /\ Noted(g, ok).path = g.path
         /\ Noted(g, ok).writers = g.writers
         /\ \A R : Tidy(g, R) => Tidy(Noted(g, ok), R)
<1> DEFINE n == IF ok THEN NoteSaveSucceeded(g.failures) ELSE NoteSaveFailed(g.failures)
<1>1. n \in 0 .. FailuresMax
  BY DEF NoteSaveSucceeded, NoteSaveFailed, ServerOK, Server
<1>2. Noted(g, ok) = [g EXCEPT !.failures = n]
  BY DEF Noted
<1> HIDE DEF n
<1>3. /\ Noted(g, ok) \in Server /\ Noted(g, ok).writers = g.writers
      /\ Noted(g, ok).pending = g.pending /\ Noted(g, ok).spare = g.spare
      /\ Noted(g, ok).marks = g.marks /\ Noted(g, ok).path = g.path
  BY <1>1, <1>2 DEF ServerOK, Server
<1> QED BY <1>3 DEF ServerOK, Tidy

(* ---- the thread ------------------------------------------------------------------ *)

(* As there is one at most, it is the first, and none is left when it has finished. *)
LEMMA OneWriter ==
  ASSUME ServerOK(server), NEW i \in DOMAIN server.writers
  PROVE  /\ i = 1 /\ Len(server.writers) = 1 /\ server.writers # << >>
         /\ server.writers[1] \in Writer /\ server.writers = << server.writers[1] >>
         /\ server.pending = None
<1>1. server.writers \in Seq(Writer)
  BY DEF ServerOK, Server
<1>2. Len(server.writers) <= 1 /\ (server.pending # None => server.writers = << >>)
  BY DEF ServerOK
<1>3. /\ i = 1 /\ Len(server.writers) = 1 /\ server.writers # << >>
      /\ server.writers[1] \in Writer /\ server.writers = << server.writers[1] >>
  BY <1>1, <1>2, AtMostOne
<1> QED BY <1>2, <1>3

LEMMA FinishedKeeps ==
  ASSUME ServerOK(server), NEW i \in DOMAIN server.writers, Finished(i)
  PROVE  /\ ServerOK(server') /\ server'.writers = << >> /\ server'.spare = server.spare
         /\ server'.marks = server.marks /\ server'.path = server.path
<1>1. Len(server.writers) = 1 /\ server.writers \in Seq(Writer)
  BY OneWriter DEF ServerOK, Server
<1> DEFINE f == [j \in 1 .. Len(server.writers) - 1 |->
                   IF j < i THEN server.writers[j] ELSE server.writers[j + 1]]
<1>2. f = << >>
  BY <1>1
<1>3. server' = [server EXCEPT !.writers = << >>]
  BY <1>2 DEF Finished
<1>4. << >> \in Seq(Writer) /\ Len(<< >>) <= 1 /\ server \in Server
  BY DEF ServerOK
<1>5. /\ server' \in Server /\ server'.writers = << >> /\ server'.spare = server.spare
      /\ server'.marks = server.marks /\ server'.path = server.path
  BY <1>3, <1>4 DEF Server
<1>6. ServerOK(server')
  BY <1>4, <1>5, Admissible
<1> QED BY <1>5, <1>6

(* ---- each step keeps the invariant --------------------------------------------------- *)

LEMMA InitKeeps == Init => IInv
<1> SUFFICES ASSUME Init PROVE IInv
  OBVIOUS
<1>1. << >> \in Seq(Writer) /\ << >> \in Seq(SUBSET Sections)
      /\ << >> \in Seq([ok : BOOLEAN, reason : Reasons]) /\ Len(<< >>) = 0
  OBVIOUS
<1>2. server \in Server /\ server.writers = << >> /\ server.spare = {} /\ server.pending = None
      /\ server.marks = {} /\ server.path
  BY <1>1 DEF Init, Server
<1>3. TypeOK
  BY <1>1, <1>2 DEF Init, TypeOK
<1>4. ServerOK(server)
  BY <1>1, <1>2 DEF ServerOK
<1>5. Tidy(server, returns)
  BY <1>1, <1>2 DEF Init, Tidy
<1>6. Ended /\ Cut
  BY <1>2 DEF Init, Ended, FinalSaveIsNewest, Cut
<1> QED BY <1>3, <1>4, <1>5, <1>6 DEF Init, IInv

LEMMA BehindType ==
  ASSUME NEW x \in Sections
  PROVE  /\ \A S \in SUBSET Sections : Behind(S, x) = S \cup {x} /\ Behind(S, x) \in SUBSET Sections
         /\ Behind(None, x) = None /\ Behind(Restored, x) = Restored
BY DEF Behind

(* An edit puts the section into every copy and marks it. *)
LEMMA EditKeeps ==
  ASSUME IInv, NEW x \in Sections, Edit(x)
  PROVE  IInv'
<1> DEFINE W == [i \in DOMAIN server.writers |->
                   Outrun(server.writers[i], x)]
           sp == Behind(server.spare, x)
<1>1. server \in Server /\ server.writers \in Seq(Writer) /\ returns \in Seq(SUBSET Sections)
  BY DEF IInv, TypeOK, ServerOK, Server
<1> DEFINE m == Marked(server, x)
<1>2. server' = [m EXCEPT !.spare = sp, !.writers = W]
  <2>1. m.spare = server.spare /\ m.writers = server.writers
    BY <1>1 DEF Marked, Server
  <2>2. server' = [m EXCEPT !.spare = Behind(m.spare, x),
                            !.writers = [i \in DOMAIN m.writers |-> Outrun(m.writers[i], x)]]
    BY DEF Edit
  <2> HIDE DEF m
  <2> QED BY <2>1, <2>2
<1>3. ASSUME NEW i \in DOMAIN server.writers
      PROVE  W[i] \in Writer /\ W[i].buffer = server.writers[i].buffer \cup {x}
  <2> DEFINE u == server.writers[i]
  <2>1. u \in Writer
    BY <1>1
  <2>2. u.buffer \in SUBSET Sections
    BY <2>1 DEF Writer
  <2>3. Behind(u.buffer, x) = u.buffer \cup {x} /\ u.buffer \cup {x} \in SUBSET Sections
    BY <2>2, BehindType
  <2>4. W[i] = [u EXCEPT !.buffer = u.buffer \cup {x}]
    BY <2>3 DEF Outrun
  <2>5. [u EXCEPT !.buffer = u.buffer \cup {x}] \in Writer
        /\ [u EXCEPT !.buffer = u.buffer \cup {x}].buffer = u.buffer \cup {x}
    <3> HIDE DEF u
    <3> QED BY <2>1, <2>3 DEF Writer
  <2> QED BY <2>4, <2>5
<1>4. /\ W \in Seq(Writer) /\ Len(W) = Len(server.writers) /\ DOMAIN W = DOMAIN server.writers
      /\ (W = << >> <=> server.writers = << >>)
  <2>1. W \in [DOMAIN server.writers -> Writer]
    BY <1>3
  <2> HIDE DEF W
  <2> QED BY <1>1, <2>1, SameLength
<1>5. /\ sp \in {None} \cup SUBSET Sections
      /\ server.spare = None => sp = None
      /\ server.spare # None => sp = server.spare \cup {x}
  BY <1>1, BehindType DEF Server
<1>6. /\ returns' \in Seq(SUBSET Sections) /\ Len(returns') = Len(returns)
      /\ DOMAIN returns' = DOMAIN returns
      /\ \A i \in DOMAIN returns : returns'[i] = returns[i] \cup {x}
  BY <1>1, BehindType DEF Edit
<1>7. main' \in {Restored} \cup SUBSET Sections /\ (main' = Restored => main = Restored)
  BY BehindType DEF IInv, TypeOK, Edit
<1> HIDE DEF W, sp
<1>8. /\ server' \in Server /\ server'.writers = W /\ server'.spare = sp
      /\ server'.marks = server.marks \cup {x} /\ server'.pending = server.pending
      /\ server'.path = server.path
  <2>1. /\ m \in Server /\ m.marks = server.marks \cup {x} /\ m.pending = server.pending
        /\ m.path = server.path
    BY <1>1 DEF Marked, Server
  <2> HIDE DEF m
  <2> QED BY <1>2, <1>4, <1>5, <2>1 DEF Server
<1>9. ServerOK(server')
  BY <1>1, <1>4, <1>8 DEF IInv, ServerOK
<1>10. TypeOK'
  BY <1>6, <1>7, <1>8 DEF Edit, IInv, TypeOK
<1>11. ASSUME Tidy(server, returns) PROVE Tidy(server', returns')
  <2>1. returns' = << >> <=> returns = << >>
    BY <1>1, <1>6
  <2> QED BY <1>3, <1>4, <1>5, <1>6, <1>8, <1>11, <2>1 DEF Tidy
<1>12. Ended'
  BY DEF Edit, IInv, Ended, FinalSaveIsNewest
<1>13. Cut'
  BY <1>7, <1>8 DEF IInv, Cut
<1> QED BY <1>9, <1>10, <1>11, <1>12, <1>13 DEF Edit, IInv

(* Firing happens in an event or at the start of a tick, with a server that a request, *)
(* a tick or the drain has been over.                                                    *)
LEMMA FiringKeeps ==
  ASSUME IInv, phase = "events", phase' \in {"events", "note"}, NEW g, ServerOK(g),
         g.path = server.path, Tidy(server, returns) => Tidy(g, returns), FireFrom(g),
         UNCHANGED <<stopping, results, returns, main, warned, final>>
  PROVE  IInv'
<1>1. /\ ServerOK(server') /\ server'.path = server.path
      /\ spilled' \in BOOLEAN /\ lastFired' \in SUBSET Sections
      /\ spilled \/ (Tidy(g, returns) /\ lastFired = {})
           => spilled' \/ (Tidy(server', returns) /\ lastFired' = {})
  BY FireKeeps DEF IInv
<1>2. TypeOK'
  BY <1>1 DEF IInv, TypeOK, ServerOK
<1>3. spilled' \/ (Tidy(server', returns') /\ lastFired' = {})
  BY <1>1 DEF IInv
<1>4. Ended'
  BY DEF IInv, Ended, FinalSaveIsNewest
<1>5. Cut'
  BY <1>1 DEF IInv, Cut
<1> QED BY <1>1, <1>2, <1>3, <1>4, <1>5 DEF IInv

LEMMA RequestSaveKeeps == IInv /\ RequestSave => IInv'
<1> SUFFICES ASSUME IInv, RequestSave PROVE IInv'
  OBVIOUS
<1> DEFINE g == Arm(server, "command")
<1>1. /\ ServerOK(g) /\ g.path = server.path /\ (Tidy(server, returns) => Tidy(g, returns))
  BY ArmKeeps DEF IInv, Reasons
<1>2. FireFrom(g) /\ phase = "events" /\ phase' = "events"
      /\ UNCHANGED <<stopping, results, returns, main, warned, final>>
  BY DEF RequestSave
<1> HIDE DEF g
<1> QED BY <1>1, <1>2, FiringKeeps

LEMMA TickSaveKeeps == IInv /\ TickSave => IInv'
<1> SUFFICES ASSUME IInv, TickSave PROVE IInv'
  OBVIOUS
<1> DEFINE n == IF server.pending # None /\ server.waited < DrainDeadline
                THEN server.waited + 1 ELSE server.waited
           late == [server EXCEPT !.waited = n]
<1>1. n \in 0 .. DrainDeadline
  BY DEF IInv, ServerOK, Server
<1>2. ServerOK(late) /\ late.path = server.path /\ \A R : Tidy(server, R) => Tidy(late, R)
  <2> HIDE DEF n
  <2> QED BY <1>1, WaitKeeps DEF IInv
<1>3. PICK due \in {FALSE, Autosaves} :
        LET g == IF due THEN Arm(late, "autosave") ELSE late IN
        IF due /\ Fires(g) THEN FireFrom(g) ELSE FireFrom(Drain(g))
  BY DEF TickSave
<1> DEFINE g == IF due THEN Arm(late, "autosave") ELSE late
<1> HIDE DEF late
<1>4. ServerOK(g) /\ g.path = server.path /\ \A R : Tidy(server, R) => Tidy(g, R)
  BY <1>2, ArmKeeps DEF Reasons
<1>5. FireFrom(g) \/ FireFrom(Drain(g))
  BY <1>3
<1> HIDE DEF g
<1>6. ServerOK(Drain(g)) /\ Drain(g).path = server.path
      /\ \A R : Tidy(server, R) => Tidy(Drain(g), R)
  BY <1>4, DrainKeeps
<1>7. phase = "events" /\ phase' = "note"
      /\ UNCHANGED <<stopping, results, returns, main, warned, final>>
  BY DEF TickSave
<1>8. CASE FireFrom(g)
  BY <1>4, <1>7, <1>8, FiringKeeps
<1>9. CASE FireFrom(Drain(g))
  BY <1>6, <1>7, <1>9, FiringKeeps
<1> QED BY <1>5, <1>8, <1>9

LEMMA StopKeeps == IInv /\ (RequestStop \/ LoopBreaks) => IInv'
<1> SUFFICES ASSUME IInv, RequestStop \/ LoopBreaks PROVE IInv'
  OBVIOUS
<1>1. TypeOK'
  BY DEF RequestStop, LoopBreaks, IInv, TypeOK
<1>2. Ended' /\ Cut'
  BY DEF RequestStop, LoopBreaks, IInv, Ended, FinalSaveIsNewest, Cut
<1> QED BY <1>1, <1>2 DEF RequestStop, LoopBreaks, IInv

LEMMA RollBackKeeps == IInv /\ RollBack => IInv'
<1> SUFFICES ASSUME IInv, RollBack PROVE IInv'
  OBVIOUS
<1>1. /\ server' \in Server /\ server'.writers = server.writers /\ server'.spare = server.spare
      /\ server'.marks = server.marks /\ server'.pending = server.pending
      /\ server'.path = FALSE
  BY DEF RollBack, RolledBack, IInv, ServerOK, Server
<1>2. TypeOK'
  BY <1>1 DEF RollBack, IInv, TypeOK
<1>3. ServerOK(server') /\ (Tidy(server, returns) => Tidy(server', returns))
  BY <1>1 DEF IInv, ServerOK, Tidy
<1>4. Ended' /\ Cut'
  BY <1>1 DEF RollBack, IInv, Ended, FinalSaveIsNewest, Cut
<1> QED BY <1>2, <1>3, <1>4 DEF RollBack, IInv

LEMMA NoteKeeps == IInv /\ NoteFinishedSave => IInv'
<1> SUFFICES ASSUME IInv, NoteFinishedSave PROVE IInv'
  OBVIOUS
<1>1. /\ ServerOK(server') /\ server'.path = server.path /\ server'.writers = server.writers
      /\ (Tidy(server, returns) => Tidy(server', returns))
      /\ results' \in Seq([ok : BOOLEAN, reason : Reasons]) /\ warned' \in BOOLEAN
  <2>1. CASE results = << >>
    BY <2>1 DEF NoteFinishedSave, IInv, TypeOK
  <2>2. CASE results # << >>
    <3>1. /\ Head(results) \in [ok : BOOLEAN, reason : Reasons]
          /\ Tail(results) \in Seq([ok : BOOLEAN, reason : Reasons])
      <4>1. results \in Seq([ok : BOOLEAN, reason : Reasons])
        BY DEF IInv, TypeOK
      <4> QED BY <2>2, <4>1, FirstAndRest
    <3> DEFINE o == Head(results).ok
    <3>2. o \in BOOLEAN
      BY <3>1
    <3>3. /\ server' = Noted(server, o) /\ warned' = Told(o, server.failures)
          /\ results' = Tail(results) /\ returns' = returns
      BY <2>2 DEF NoteFinishedSave
    <3> HIDE DEF o
    <3>4. Told(o, server.failures) \in BOOLEAN
      BY <3>2 DEF Told, IInv, TypeOK
    <3>5. /\ ServerOK(Noted(server, o)) /\ Noted(server, o).path = server.path
          /\ Noted(server, o).writers = server.writers
          /\ \A R : Tidy(server, R) => Tidy(Noted(server, o), R)
      BY <3>2, NotedKeeps DEF IInv
    <3> QED BY <3>1, <3>3, <3>4, <3>5
  <2> QED BY <2>1, <2>2
<1>2. TypeOK'
  BY <1>1 DEF NoteFinishedSave, IInv, TypeOK, ServerOK
<1>3. Ended' /\ Cut'
  BY <1>1 DEF NoteFinishedSave, IInv, Ended, FinalSaveIsNewest, Cut
<1> QED BY <1>1, <1>2, <1>3 DEF NoteFinishedSave, IInv

(* The buffer that comes back is the only one, so none is overwritten. *)
LEMMA ReclaimKeeps == IInv /\ ReclaimSnapshotBuffer => IInv'
<1> SUFFICES ASSUME IInv, ReclaimSnapshotBuffer PROVE IInv'
  OBVIOUS
<1>1. CASE returns = << >>
  <2>1. TypeOK'
    BY <1>1 DEF ReclaimSnapshotBuffer, IInv, TypeOK
  <2>2. Ended' /\ Cut'
    BY <1>1 DEF ReclaimSnapshotBuffer, IInv, Ended, FinalSaveIsNewest, Cut
  <2> QED BY <1>1, <2>1, <2>2 DEF ReclaimSnapshotBuffer, IInv
<1>2. CASE returns # << >>
  <2>1. returns \in Seq(SUBSET Sections)
    BY DEF IInv, TypeOK
  <2>2. /\ Head(returns) = returns[1] /\ Head(returns) \in SUBSET Sections
        /\ 1 \in DOMAIN returns
        /\ Tail(returns) \in Seq(SUBSET Sections) /\ Len(Tail(returns)) = Len(returns) - 1
    BY <1>2, <2>1
  <2>3. /\ server' = [server EXCEPT !.spare = Head(returns)] /\ returns' = Tail(returns)
    BY <1>2 DEF ReclaimSnapshotBuffer
  <2>4. /\ server' \in Server /\ server'.writers = server.writers
        /\ server'.spare = Head(returns) /\ server'.marks = server.marks
        /\ server'.pending = server.pending /\ server'.path = server.path
    BY <2>2, <2>3 DEF IInv, ServerOK, Server
  <2>5. TypeOK'
    BY <2>2, <2>3, <2>4 DEF ReclaimSnapshotBuffer, IInv, TypeOK
  <2>6. ServerOK(server')
    BY <2>4 DEF IInv, ServerOK
  <2>7. ASSUME Tidy(server, returns) PROVE Tidy(server', returns')
    <3>1. server.writers = << >> /\ Len(returns) <= 1
      BY <1>2, <2>7 DEF Tidy
    <3>2. Len(returns') = 0 /\ returns' = << >>
      BY <1>2, <2>1, <2>2, <2>3, <3>1
    <3> QED BY <2>2, <2>4, <2>7, <3>1, <3>2 DEF Tidy
  <2>8. Ended' /\ Cut'
    BY <2>4 DEF ReclaimSnapshotBuffer, IInv, Ended, FinalSaveIsNewest, Cut
  <2> QED BY <2>5, <2>6, <2>7, <2>8 DEF ReclaimSnapshotBuffer, IInv
<1> QED BY <1>1, <1>2

(* The last save is written with no thread left to write after it. *)
LEMMA ShutdownSaveKeeps == IInv /\ ShutdownSave => IInv'
<1> SUFFICES ASSUME IInv, ShutdownSave PROVE IInv'
  OBVIOUS
<1> DEFINE Kept ==
      /\ ServerOK(server') /\ server'.path = server.path /\ server'.writers = << >>
      /\ (Tidy(server, returns) => Tidy(server', returns))
      /\ warned' \in BOOLEAN /\ final' \in {"saved", "failed", "skipped"}
      /\ main' = main \/ (main' = {} /\ server.path)
      /\ final' = "saved" => main' = {}
<1>1. Kept
  <2>1. CASE ~server.path /\ final' = "skipped" /\ UNCHANGED <<server, main, warned>>
    BY <2>1 DEF ShutdownSave, IInv, TypeOK
  <2>2. ASSUME NEW ok \in BOOLEAN, server.path, final' = IF ok THEN "saved" ELSE "failed",
               main' = IF ok THEN {} ELSE main, server' = Noted(server, ok),
               warned' = Told(ok, server.failures)
        PROVE  Kept
    <3>1. Told(ok, server.failures) \in BOOLEAN
      BY DEF Told, IInv, TypeOK
    <3> QED BY <2>2, <3>1, NotedKeeps DEF ShutdownSave, IInv
  <2> QED BY <2>1, <2>2 DEF ShutdownSave
<1>2. TypeOK'
  BY <1>1 DEF ShutdownSave, IInv, TypeOK, ServerOK
<1>3. Ended'
  BY <1>1 DEF ShutdownSave, Ended, FinalSaveIsNewest
<1>4. Cut'
  <2>1. main' = Restored => main = Restored
    BY <1>1, NoneAssumption
  <2> QED BY <1>1, <2>1 DEF IInv, Cut
<1> QED BY <1>1, <1>2, <1>3, <1>4 DEF ShutdownSave, IInv

(* A thread renames its snapshot into place, or reports: what it holds stays the same. *)
LEMMA WriterMoves ==
  ASSUME IInv, NEW i \in DOMAIN server.writers, NEW w \in Writer,
         w.buffer = server.writers[i].buffer, server' = [server EXCEPT !.writers[i] = w]
  PROVE  /\ ServerOK(server') /\ server'.path = server.path /\ server'.writers # << >>
         /\ \A R : Tidy(server, R) => Tidy(server', R)
<1> DEFINE u == server.writers[1]
<1>1. /\ i = 1 /\ server.writers = << u >> /\ u \in Writer /\ server.pending = None
      /\ server \in Server /\ server.writers # << >> /\ 1 \in DOMAIN server.writers
  BY OneWriter DEF IInv, ServerOK
<1>2. [server.writers EXCEPT ![i] = w] = << w >>
  BY <1>1
<1>3. server' = [server EXCEPT !.writers = << w >>]
  BY <1>2
<1>4. << w >> \in Seq(Writer) /\ Len(<< w >>) <= 1 /\ << w >> # << >>
      /\ \A j \in DOMAIN << w >> : << w >>[j] = w
  BY OnlyOne
<1>5. w.buffer = u.buffer
  BY <1>1
<1> HIDE DEF u
<1>6. /\ server' \in Server /\ server'.writers = << w >> /\ server'.spare = server.spare
      /\ server'.marks = server.marks /\ server'.pending = None /\ server'.path = server.path
  BY <1>1, <1>3, <1>4 DEF Server
<1>7. ServerOK(server')
  <2>1. Len(server'.writers) <= 1
    BY <1>4, <1>6
  <2> QED BY <1>6, <2>1, Admissible
<1>8. ASSUME NEW R, Tidy(server, R) PROVE Tidy(server', R)
  <2>1. u.buffer \subseteq server.marks
    BY <1>1, <1>8 DEF Tidy, u
  <2> QED BY <1>1, <1>4, <1>5, <1>6, <1>8, <2>1 DEF Tidy
<1> QED BY <1>4, <1>6, <1>7, <1>8

LEMMA WriterLandsKeeps ==
  ASSUME IInv, NEW i \in DOMAIN server.writers, WriterLands(i)
  PROVE  IInv'
<1> DEFINE u == server.writers[i]
<1>1. PICK ok \in BOOLEAN :
        /\ server' = [server EXCEPT !.writers[i] = [u EXCEPT !.at = "landed", !.ok = ok]]
        /\ main'   = IF ok THEN u.buffer ELSE main
  BY DEF WriterLands
<1>2. u \in Writer /\ server.writers # << >>
  BY OneWriter DEF IInv
<1> DEFINE w == [u EXCEPT !.at = "landed", !.ok = ok]
<1>3. w \in Writer /\ w.buffer = u.buffer /\ u.buffer \in SUBSET Sections
  <2> HIDE DEF u
  <2> QED BY <1>2 DEF Writer
<1>4. /\ ServerOK(server') /\ server'.path = server.path /\ server'.writers # << >>
      /\ \A R : Tidy(server, R) => Tidy(server', R)
  <2> HIDE DEF w
  <2> QED BY <1>1, <1>3, WriterMoves DEF w
<1>5. main' \in SUBSET Sections \/ main' = main
  BY <1>1, <1>3
<1>6. TypeOK'
  BY <1>4, <1>5 DEF WriterLands, IInv, TypeOK, ServerOK
<1>7. Ended'
  BY <1>2 DEF WriterLands, IInv, Ended, FinalSaveIsNewest
<1>8. Cut'
  BY <1>4, <1>5 DEF IInv, Cut
<1> QED BY <1>4, <1>6, <1>7, <1>8 DEF WriterLands, IInv

LEMMA WriterReportsKeeps ==
  ASSUME IInv, NEW i \in DOMAIN server.writers, WriterReports(i)
  PROVE  IInv'
<1> DEFINE u == server.writers[i]
           r == [ok |-> u.ok, reason |-> u.reason]
           w == [u EXCEPT !.at = "reported"]
<1>1. u \in Writer /\ server.writers # << >>
  BY OneWriter DEF IInv
<1>2. r \in [ok : BOOLEAN, reason : Reasons] /\ w \in Writer /\ w.buffer = u.buffer
  <2> HIDE DEF u
  <2> QED BY <1>1 DEF Writer
<1>3. Append(results, r) \in Seq([ok : BOOLEAN, reason : Reasons])
  <2> HIDE DEF r
  <2> QED BY <1>2 DEF IInv, TypeOK
<1>4. server' = [server EXCEPT !.writers[i] = w] /\ results' = Append(results, r)
  BY DEF WriterReports
<1>5. /\ ServerOK(server') /\ server'.path = server.path /\ server'.writers # << >>
      /\ \A R : Tidy(server, R) => Tidy(server', R)
  <2> HIDE DEF w
  <2> QED BY <1>2, <1>4, WriterMoves DEF u
<1>6. TypeOK'
  <2> HIDE DEF r
  <2> QED BY <1>3, <1>4, <1>5 DEF WriterReports, IInv, TypeOK, ServerOK
<1>7. Ended' /\ Cut'
  BY <1>1, <1>5 DEF WriterReports, IInv, Ended, FinalSaveIsNewest, Cut
<1> QED BY <1>5, <1>6, <1>7 DEF WriterReports, IInv

LEMMA WriterReturnsKeeps ==
  ASSUME IInv, NEW i \in DOMAIN server.writers, WriterReturns(i)
  PROVE  IInv'
<1> DEFINE u == server.writers[i]
<1>1. u \in Writer /\ server.writers # << >> /\ i = 1
  BY OneWriter DEF IInv
<1>2. u.buffer \in SUBSET Sections /\ returns \in Seq(SUBSET Sections)
  BY <1>1 DEF Writer, IInv, TypeOK
<1>3. /\ returns' = Append(returns, u.buffer) /\ returns' \in Seq(SUBSET Sections)
      /\ UNCHANGED <<phase, stopping, results, main, warned, lastFired, spilled, final>>
  BY <1>2 DEF WriterReturns
<1>4. /\ ServerOK(server') /\ server'.writers = << >> /\ server'.spare = server.spare
      /\ server'.marks = server.marks /\ server'.path = server.path
  BY FinishedKeeps DEF WriterReturns, IInv
<1>5. TypeOK'
  BY <1>3, <1>4 DEF IInv, TypeOK, ServerOK
<1>6. ASSUME Tidy(server, returns) PROVE Tidy(server', returns')
  <2>1. returns = << >> /\ server.spare = None /\ u.buffer \subseteq server.marks
    BY <1>1, <1>6 DEF Tidy
  <2>2. returns' = << u.buffer >>
    BY <1>3, <2>1
  <2>3. Len(returns') = 1 /\ \A j \in DOMAIN returns' : returns'[j] = u.buffer
    BY <2>2
  <2> QED BY <1>4, <2>1, <2>3 DEF Tidy
<1>7. Ended' /\ Cut'
  BY <1>3, <1>4 DEF IInv, Ended, FinalSaveIsNewest, Cut
<1> QED BY <1>3, <1>4, <1>5, <1>6, <1>7 DEF IInv

LEMMA WriterPanicsKeeps ==
  ASSUME IInv, NEW i \in DOMAIN server.writers, WriterPanics(i)
  PROVE  IInv'
<1>1. /\ ServerOK(server') /\ server'.writers = << >> /\ server'.spare = server.spare
      /\ server'.marks = server.marks /\ server'.path = server.path
  BY FinishedKeeps DEF WriterPanics, IInv
<1>2. UNCHANGED <<phase, stopping, results, returns, main, warned, lastFired, spilled, final>>
  BY DEF WriterPanics
<1>3. TypeOK'
  BY <1>1, <1>2 DEF IInv, TypeOK, ServerOK
<1>4. Tidy(server, returns) => Tidy(server', returns')
  BY <1>1, <1>2 DEF Tidy
<1>5. Ended' /\ Cut'
  BY <1>1, <1>2 DEF IInv, Ended, FinalSaveIsNewest, Cut
<1> QED BY <1>1, <1>2, <1>3, <1>4, <1>5 DEF IInv

LEMMA NextKeeps == IInv /\ [Next]_vars => IInv'
<1> SUFFICES ASSUME IInv, [Next]_vars PROVE IInv'
  OBVIOUS
<1>1. ASSUME NEW x \in Sections, Edit(x) PROVE IInv'
  BY <1>1, EditKeeps
<1>2. CASE RequestSave
  BY <1>2, RequestSaveKeeps
<1>3. CASE RequestStop \/ LoopBreaks
  BY <1>3, StopKeeps
<1>4. CASE RollBack
  BY <1>4, RollBackKeeps
<1>5. CASE TickStep
  BY <1>5, TickSaveKeeps, NoteKeeps, ReclaimKeeps DEF TickStep
<1>6. CASE ShutdownSave
  BY <1>6, ShutdownSaveKeeps
<1>7. CASE WriterStep
  BY <1>7, WriterLandsKeeps, WriterReportsKeeps, WriterReturnsKeeps, WriterPanicsKeeps
     DEF WriterStep
<1>8. CASE UNCHANGED vars
  BY <1>8 DEF vars, IInv, TypeOK, Ended, FinalSaveIsNewest, Cut
<1> QED BY <1>1, <1>2, <1>3, <1>4, <1>5, <1>6, <1>7, <1>8 DEF Next

LEMMA Invariant == Safety => []IInv
<1> QED BY InitKeeps, NextKeeps, PTL DEF Safety

(* ---- what it comes to ------------------------------------------------------------------ *)

(* Two blocking threads never write the world file at once: save_world_in_background *)
(* asks save_task whether it has finished, and a save waits armed only while none is   *)
(* under way.                                                                           *)
THEOREM OneThreadWrites == Safety => []OneSaveAtATime
<1>1. IInv => OneSaveAtATime
  BY DEF IInv, ServerOK, OneSaveAtATime
<1> QED BY <1>1, Invariant, PTL

(* The snapshot try_fire_pending_save hands to the thread is the live world, as long as *)
(* there was one buffer: the sections in which it was behind were marked.                *)
THEOREM WhatIsFiredIsLive == Safety => []FiredIsLive
<1>1. IInv => FiredIsLive
  BY DEF IInv, FiredIsLive
<1> QED BY <1>1, Invariant, PTL

(* After the save at the end of the loop has succeeded the file is the world the game   *)
(* left, and no thread is there to replace it.                                           *)
THEOREM LastSaveIsNewest == Safety => []FinalSaveIsNewest
<1>1. IInv => FinalSaveIsNewest
  BY DEF IInv, Ended
<1> QED BY <1>1, Invariant, PTL

(* A file that roll_back restored is not replaced by anything but a thread that was     *)
(* already writing.                                                                      *)
THEOREM RestoredStays == Safety => RollbackIsLast
<1>1. IInv /\ [Next]_vars => [main = Restored /\ server.writers = << >> => main' = Restored]_vars
  <2> SUFFICES ASSUME IInv, Next, main = Restored, server.writers = << >>
               PROVE  main' = Restored
    BY DEF vars
  <2>1. ASSUME NEW x \in Sections, Edit(x) PROVE main' = Restored
    BY <2>1, BehindType DEF Edit
  <2>2. CASE ShutdownSave
    BY <2>2 DEF ShutdownSave, IInv, Cut
  <2>3. CASE WriterStep
    BY <2>3 DEF WriterStep
  <2>4. CASE RequestSave \/ RequestStop \/ RollBack \/ TickStep \/ LoopBreaks
    BY <2>4 DEF RequestSave, RequestStop, RollBack, TickStep, TickSave, NoteFinishedSave,
                ReclaimSnapshotBuffer, LoopBreaks
  <2> QED BY <2>1, <2>2, <2>3, <2>4 DEF Next
<1> QED BY <1>1, Invariant, PTL DEF Safety, RollbackIsLast
===============================================================================
