--------------------------- MODULE Outbound_proofs ---------------------------
(***************************************************************************)
(* What goes out to the clients: that what a client has of the world is what   *)
(* the world has (SectionStream), and that the two counters of the outbound     *)
(* queues agree and the queues stay within their budget (OutboundBudget).        *)
(*                                                                           *)
(* The cache of sections is stale only in sections that are marked (Fresh), and *)
(* sending drops the marked ones first; so what goes out is current, and the     *)
(* squares that follow keep it so (Follows), also for those who are not in the    *)
(* world yet, whose losses are noted.                                              *)
(*                                                                           *)
(* A connection is charged for what is queued for it and for the frame that is   *)
(* on its way into or out of its queue (Charged), and the total is the sum of      *)
(* these but for what is half done (Books); what the shedding of queues has seen     *)
(* so far is enough to make room (Room), although the write tasks go on meanwhile.    *)
(* What FoldFunction and FoldSeq add up is proved by induction on finite sets.         *)
(***************************************************************************)
EXTENDS SectionStream, OutboundBudget, FiniteSetTheorems, SequenceTheorems,
        WellFoundedInduction, TLAPS

(* A set that contains T whenever it contains all smaller sets, contains all finite sets. *)
LEMMA SubsetInduction ==
  ASSUME NEW S, IsFiniteSet(S), NEW G,
         \A T \in SUBSET S : (\A U \in SUBSET T : U # T => U \in G) => T \in G
  PROVE  SUBSET S \subseteq G
<1> DEFINE Bad == {T \in SUBSET S : T \notin G}
<1> SUFFICES ASSUME Bad # {} PROVE FALSE
  OBVIOUS
<1>1. IsWellFoundedOn(StrictSubsetOrdering(S), SUBSET S)
  <2>1. FiniteSubsetsOf(S) = SUBSET S
    BY FS_FiniteSubsetsOfFinite, Zenon
  <2>2. IsWellFoundedOn(StrictSubsetOrdering(S), FiniteSubsetsOf(S))
    BY FS_StrictSubsetOrderingWellFounded, Zenon
  <2> QED
    BY <2>1, <2>2, Zenon
<1>2. ASSUME NEW B, B \subseteq SUBSET S, B # {}
      PROVE  \E T \in B : \A U \in B : ~(<<U, T>> \in StrictSubsetOrdering(S))
  BY <1>1, <1>2, WFMin
<1>3. PICK T \in Bad : \A U \in Bad : ~(<<U, T>> \in StrictSubsetOrdering(S))
  <2>1. Bad \subseteq SUBSET S /\ Bad # {}
    OBVIOUS
  <2> HIDE DEF Bad
  <2> QED
    BY <1>2, <2>1
<1>4. ASSUME NEW U \in SUBSET T, U # T PROVE U \in G
  <2>1. <<U, T>> \in StrictSubsetOrdering(S)
    BY <1>4 DEF StrictSubsetOrdering
  <2> QED
    BY <1>3, <2>1
<1> QED
  BY <1>4


(* ---- sections: what a client has of the world ------------------------------------ *)

Typed ==
  /\ tiles \in [Sections -> Nat] /\ cache \in [Sections -> Nat \cup {None}]
  /\ state \in [Players -> States] /\ pending \in [Players -> Seq(Sections)]
  /\ sent \in [Players -> SUBSET Sections] /\ missed \in [Players -> SUBSET Sections]
  /\ copy \in [Players -> [Sections -> Nat \cup {None}]]

Fresh == \A s \in Sections \ dirty : cache[s] \in {None, tiles[s]}

Follows == \A p \in Players : \A s \in sent[p] \ missed[p] : copy[p][s] = tiles[s]

IInv == Typed /\ Fresh /\ Follows

(* What is sent is what the sections have: a marked section is encoded anew. *)
LEMMA SentAfresh ==
  ASSUME Typed, Fresh, NEW S \in SUBSET (Players \X Sections), SendSections(S)
  PROVE  /\ cache' \in [Sections -> Nat \cup {None}]
         /\ \A s \in Sections : cache'[s] \in {None, tiles[s]}
         /\ sent' \in [Players -> SUBSET Sections]
         /\ copy' \in [Players -> [Sections -> Nat \cup {None}]]
         /\ \A p \in Players : sent[p] \subseteq sent'[p]
         /\ \A p \in Players, s \in Sections :
              IF s \in sent'[p] \ sent[p] THEN copy'[p][s] = tiles[s]
              ELSE s \in sent[p] => copy'[p][s] = copy[p][s]
<1> DEFINE flushed == Flushed(cache, dirty)
           want    == {q \in S : q[2] \notin sent[q[1]]}
           encoded == {q[2] : q \in want} \ oversize
           frames  == [s \in Sections |-> IF flushed[s] = None /\ s \in encoded
                                            THEN tiles[s] ELSE flushed[s]]
<1>1. \A s \in Sections : flushed[s] \in {None, tiles[s]}
  BY DEF Flushed, Fresh, Typed
<1>2. /\ frames \in [Sections -> Nat \cup {None}]
      /\ \A s \in Sections : frames[s] \in {None, tiles[s]}
      /\ \A s \in Sections : flushed[s] # None \/ s \in encoded => frames[s] = tiles[s]
  <2> HIDE DEF flushed, encoded
  <2> QED
    BY <1>1 DEF Typed
<1>3. /\ cache' = frames
      /\ sent' = [p \in Players |-> sent[p] \cup {q[2] : q \in {r \in Claimed(want) : r[1] = p}}]
      /\ copy' = [p \in Players |-> [s \in Sections |->
                    IF <<p, s>> \in want THEN frames[s] ELSE copy[p][s]]]
  BY DEF SendSections
<1>4. /\ want \subseteq Players \X Sections
      /\ \A p \in Players, s \in Sections : <<p, s>> \in want <=> (<<p, s>> \in S /\ s \notin sent[p])
  OBVIOUS
<1>5. \A q \in Claimed(want) : /\ q \in want
                               /\ flushed[q[2]] # None \/ q[2] \in encoded
  BY DEF Claimed
<1> HIDE DEF flushed, encoded, frames, want
<1>6. sent' \in [Players -> SUBSET Sections]
  BY <1>3, <1>4, <1>5 DEF Typed
<1>7. copy' \in [Players -> [Sections -> Nat \cup {None}]]
  BY <1>2, <1>3 DEF Typed
<1>8. ASSUME NEW p \in Players, NEW s \in Sections, s \in sent'[p] \ sent[p]
      PROVE  copy'[p][s] = tiles[s]
  <2>1. PICK q \in Claimed(want) : q[1] = p /\ q[2] = s
    BY <1>3, <1>8
  <2>2. q = <<p, s>> /\ q \in want
    BY <1>4, <1>5, <2>1
  <2>3. frames[s] = tiles[s]
    BY <1>2, <1>5, <2>1
  <2> QED
    BY <1>3, <2>2, <2>3
<1>9. ASSUME NEW p \in Players, NEW s \in Sections, s \in sent[p]
      PROVE  copy'[p][s] = copy[p][s]
  BY <1>3, <1>4, <1>9
<1> QED
  BY <1>2, <1>3, <1>6, <1>7, <1>8, <1>9

(* It keeps the invariant, once the marks it saw to are gone. *)
LEMMA SendingKeeps ==
  ASSUME Typed, Fresh, Follows, NEW S \in SUBSET (Players \X Sections), SendSections(S),
         UNCHANGED <<tiles, missed>>
  PROVE  /\ cache' \in [Sections -> Nat \cup {None}] /\ sent' \in [Players -> SUBSET Sections]
         /\ copy' \in [Players -> [Sections -> Nat \cup {None}]]
         /\ Fresh' /\ Follows'
<1>1. Follows'
  <2> SUFFICES ASSUME NEW p \in Players, NEW s \in sent'[p] \ missed[p]
               PROVE  copy'[p][s] = tiles[s]
    BY DEF Follows
  <2>1. s \in Sections
    BY SentAfresh
  <2> QED
    BY <2>1, SentAfresh DEF Follows
<1>2. Fresh'
  BY SentAfresh DEF Fresh
<1> QED
  BY <1>1, <1>2, SentAfresh

LEMMA Initially == Init => IInv
  BY SizesAssumption DEF Init, IInv, Typed, Fresh, Follows, States, None

LEMMA MaxIsGreatest ==
  ASSUME NEW S \in SUBSET Int, IsFiniteSet(S), S # {}
  PROVE  Max(S) \in S /\ \A y \in S : y <= Max(S)
<1> DEFINE G == {T \in SUBSET S : T # {} => \E x \in T : \A y \in T : x >= y}
<1>1. ASSUME NEW T \in SUBSET S, \A U \in SUBSET T : U # T => U \in G PROVE T \in G
  <2> SUFFICES ASSUME T # {} PROVE \E x \in T : \A y \in T : x >= y
    OBVIOUS
  <2>1. PICK z \in T : TRUE
    OBVIOUS
  <2>2. T \ {z} \in G
    BY <1>1, <2>1
  <2>3. CASE T \ {z} = {}
    <3>1. \A y \in T : y = z
      BY <2>3
    <3> QED
      BY <2>1, <3>1
  <2>4. CASE T \ {z} # {}
    <3>1. PICK x \in T \ {z} : \A y \in T \ {z} : x >= y
      BY <2>2, <2>4
    <3>2. CASE x >= z
      BY <3>1, <3>2
    <3>3. CASE z >= x
      <4>1. \A y \in T : z >= y
        BY <2>1, <3>1, <3>3
      <4> QED
        BY <2>1, <4>1
    <3> QED
      BY <2>1, <3>1, <3>2, <3>3
  <2> QED
    BY <2>3, <2>4
<1>2. S \in G
  <2> HIDE DEF G
  <2> QED
    BY <1>1, SubsetInduction
<1>3. \E x \in S : \A y \in S : x >= y
  BY <1>2
<1> QED
  BY <1>3 DEF Max

(* Bags are dealt one after the other, to the player with the highest number last. *)

(* The ascending order of a set of sections exists, so InOrder is it. *)
LEMMA Ordered == ASSUME NEW S \in SUBSET Sections PROVE InOrder(S) \in Seq(Sections)
<1> DEFINE Up(q) == \A i, j \in DOMAIN q : i < j => q[i] < q[j]
           G == {T \in SUBSET S : \E q \in [1 .. Cardinality(T) -> T] : Up(q)}
<1>0. IsFiniteSet(S) /\ S \in SUBSET Int
  <2>1. IsFiniteSet(Sections) /\ Sections \subseteq Int
    BY SizesAssumption, FS_Interval DEF Sections
  <2> QED
    BY <2>1, FS_Subset
<1>1. ASSUME NEW T \in SUBSET S, \A U \in SUBSET T : U # T => U \in G PROVE T \in G
  <2> SUFFICES \E q \in [1 .. Cardinality(T) -> T] : Up(q)
    OBVIOUS
  <2>0. IsFiniteSet(T) /\ T \in SUBSET Int
    BY <1>0, FS_Subset
  <2>1. CASE T = {}
    <3>1. Cardinality(T) = 0
      BY <2>1, FS_EmptySet
    <3>2. [i \in 1 .. Cardinality(T) |-> 0] \in [1 .. Cardinality(T) -> T]
      BY <3>1
    <3>3. Up([i \in 1 .. Cardinality(T) |-> 0])
      BY <3>1
    <3> QED
      BY <3>2, <3>3
  <2>2. CASE T # {}
    <3> DEFINE x == Max(T)
               n == Cardinality(T \ {x})
    <3>1. x \in T /\ \A y \in T : y <= x
      BY <2>0, <2>2, MaxIsGreatest
    <3> HIDE DEF x
    <3>2. n \in Nat /\ Cardinality(T) = n + 1
      <4>1. IsFiniteSet(T \ {x})
        BY <2>0, FS_Subset
      <4>2. n \in Nat /\ Cardinality(T) \in Nat
        BY <2>0, <4>1, FS_CardinalityType
      <4>3. n = Cardinality(T) - 1
        BY <2>0, <3>1, FS_RemoveElement
      <4> QED
        BY <4>2, <4>3
    <3>3. PICK q \in [1 .. n -> T \ {x}] : Up(q)
      <4>1. T \ {x} \in SUBSET T /\ T \ {x} # T
        BY <3>1
      <4> QED
        BY <1>1, <4>1
    <3> DEFINE r == [i \in 1 .. n + 1 |-> IF i = n + 1 THEN x ELSE q[i]]
    <3> HIDE DEF n
    <3>4. r \in [1 .. n + 1 -> T]
      BY <3>1, <3>2, <3>3
    <3>5. ASSUME NEW i \in 1 .. n + 1, NEW j \in 1 .. n + 1, i < j PROVE r[i] < r[j]
      <4>0. i \in 1 .. n /\ i # n + 1
        BY <3>2, <3>5
      <4>1. r[i] = q[i] /\ q[i] \in T \ {x}
        BY <3>3, <4>0
      <4>2. q[i] \in Int /\ x \in Int /\ q[i] < x
        <5>1. q[i] \in T /\ q[i] # x
          BY <4>1
        <5>2. \A y \in T : y # x => y \in Int /\ x \in Int /\ y < x
          BY <2>0, <3>1
        <5> QED
          BY <5>1, <5>2
      <4>3. CASE j = n + 1
        BY <4>1, <4>2, <4>3
      <4>4. CASE j # n + 1
        <5>1. j \in 1 .. n /\ r[j] = q[j]
          BY <3>2, <4>4
        <5> QED
          BY <3>3, <3>5, <4>0, <4>1, <5>1
      <4> QED
        BY <4>3, <4>4
    <3> QED
      BY <3>2, <3>4, <3>5
  <2> QED
    BY <2>1, <2>2
<1>2. S \in G
  <2> HIDE DEF G
  <2> QED
    BY <1>0, <1>1, SubsetInduction
<1>3. \E q \in [1 .. Cardinality(S) -> S] : Up(q)
  BY <1>2
<1>4. InOrder(S) \in [1 .. Cardinality(S) -> S]
  BY <1>3 DEF InOrder
<1>5. Cardinality(S) \in Nat
  BY <1>0, FS_CardinalityType
<1>6. InOrder(S) \in [1 .. Cardinality(S) -> Sections]
  BY <1>4
<1> QED
  BY <1>5, <1>6, SeqDef

(* What is queued are sections, whatever a tick adds and takes. *)
LEMMA QueuesOfSections ==
  ASSUME Typed, NEW p \in Players
  PROVE  Queue(p) \in Seq(Sections) /\ Len(Queue(p)) \in Nat
<1>1. InOrder(Surroundings(at[p]) \ sent[p]) \in Seq(Sections)
  <2>1. Surroundings(at[p]) \ sent[p] \in SUBSET Sections
    BY DEF Surroundings
  <2> QED
    BY <2>1, Ordered
<1>2. pending[p] \in Seq(Sections)
  BY DEF Typed
<1>3. Queue(p) \in Seq(Sections)
  BY <1>1, <1>2, ConcatProperties DEF Queue
<1> QED
  BY <1>3

LEMMA TickSends ==
  ASSUME Typed, NEW cut \in 0 .. NumPlayers, NEW n \in Nat, Drain(cut, n),
         cut \in Players => n <= Len(Queue(cut))
  PROVE  /\ pending' \in [Players -> Seq(Sections)]
         /\ \E S \in SUBSET (Players \X Sections) : SendSections(S)
<1> DEFINE pops(p) == Popped(p, cut, n)
           out == UNION {{<<p, Queue(p)[i]>> : i \in 1 .. pops(p)} : p \in Players}
<1>1. \A p \in Players : pops(p) \in Nat /\ pops(p) <= Len(Queue(p))
  BY QueuesOfSections DEF Popped
<1>2. \A p \in Players : \A i \in 1 .. Len(Queue(p)) : Queue(p)[i] \in Sections
  BY QueuesOfSections, ElementOfSeq
<1>3. out \in SUBSET (Players \X Sections)
  <2> SUFFICES ASSUME NEW p \in Players, NEW i \in 1 .. pops(p)
               PROVE  <<p, Queue(p)[i]>> \in Players \X Sections
    OBVIOUS
  <2>1. i \in 1 .. Len(Queue(p))
    BY <1>1, QueuesOfSections
  <2> QED
    BY <1>2, <2>1
<1>4. SendSections(out) /\ pending' = [p \in Players |-> SubSeq(Queue(p), pops(p) + 1, Len(Queue(p)))]
  BY DEF Drain
<1>5. ASSUME NEW p \in Players PROVE SubSeq(Queue(p), pops(p) + 1, Len(Queue(p))) \in Seq(Sections)
  <2>1. pops(p) + 1 \in Int /\ Len(Queue(p)) \in Int
    BY <1>1, QueuesOfSections
  <2>2. \A i \in pops(p) + 1 .. Len(Queue(p)) : i \in 1 .. Len(Queue(p))
    BY <1>1, QueuesOfSections
  <2>3. \A i \in pops(p) + 1 .. Len(Queue(p)) : Queue(p)[i] \in Sections
    BY <1>2, <2>2
  <2> HIDE DEF pops
  <2> QED
    BY <2>1, <2>3, SubSeqProperties
<1> HIDE DEF pops, out
<1> QED
  BY <1>3, <1>4, <1>5

LEMMA TickDrains ==
  ASSUME Typed, Tick
  PROVE  \E cut \in 0 .. NumPlayers, n \in Nat :
           Drain(cut, n) /\ (cut \in Players => n <= Len(Queue(cut)))
<1>1. CASE Drain(NumPlayers, 0)
  BY <1>1, SizesAssumption DEF Players
<1>2. CASE \E cut \in Players : \E n \in 1 .. Len(Queue(cut)) - 1 : Drain(cut, n)
  <2>1. PICK cut \in Players : \E n \in 1 .. Len(Queue(cut)) - 1 : Drain(cut, n)
    BY <1>2
  <2>2. PICK n \in 1 .. Len(Queue(cut)) - 1 : Drain(cut, n)
    BY <2>1
  <2>3. n \in Nat /\ n <= Len(Queue(cut)) /\ cut \in 0 .. NumPlayers
    BY QueuesOfSections, SizesAssumption DEF Players
  <2> QED
    BY <2>2, <2>3
<1> QED
  BY <1>1, <1>2 DEF Tick

LEMMA TickKeeps == IInv /\ Tick => IInv'
<1> SUFFICES ASSUME IInv, Tick PROVE IInv'
  OBVIOUS
<1> USE DEF IInv
<1>1. PICK cut \in 0 .. NumPlayers, n \in Nat :
        Drain(cut, n) /\ (cut \in Players => n <= Len(Queue(cut)))
  BY TickDrains
<1>2. PICK S \in SUBSET (Players \X Sections) : SendSections(S)
  BY <1>1, TickSends
<1>3. pending' \in [Players -> Seq(Sections)]
  BY <1>1, TickSends
<1>4. UNCHANGED <<tiles, missed>> /\ dirty' = {}
  BY DEF Tick
<1>5. state' \in [Players -> States]
  <2>1. \E P \in SUBSET Players : FinishJoin(P)
    BY <1>1 DEF Drain
  <2> QED
    BY <2>1 DEF FinishJoin, Typed, States
<1> QED
  BY <1>2, <1>3, <1>4, <1>5, SendingKeeps DEF Typed

LEMMA RequestKeeps ==
  ASSUME NEW p \in Players, NEW s \in Sections PROVE IInv /\ RequestSection(p, s) => IInv'
<1> SUFFICES ASSUME IInv, RequestSection(p, s) PROVE IInv'
  OBVIOUS
<1> USE DEF IInv
<1>1. CASE s \in sent[p]
  BY <1>1 DEF RequestSection, client, Typed, Fresh, Follows
<1>2. CASE s \notin sent[p]
  <2>1. SendSections({<<p, s>>}) /\ {<<p, s>>} \in SUBSET (Players \X Sections)
    BY <1>2 DEF RequestSection
  <2>2. UNCHANGED <<tiles, missed, state, pending>>
    BY DEF RequestSection, client
  <2> QED
    BY <2>1, <2>2, SendingKeeps DEF Typed
<1> QED
  BY <1>1, <1>2

(* The squares: who is in the world and holds a section of one is told. *)
LEMMA EditKeeps ==
  ASSUME NEW author \in Players \cup {Server}, NEW lo \in Sections,
         NEW hi \in {lo, lo + 1} \cap Sections, NEW big
  PROVE  IInv /\ Edit(author, lo, hi, big) => IInv'
<1> SUFFICES ASSUME IInv, Edit(author, lo, hi, big) PROVE IInv'
  OBVIOUS
<1> USE DEF IInv
<1> DEFINE S == lo .. hi
<1>1. \A s \in S : s = lo \/ s = hi
  BY SizesAssumption DEF Sections
<1>2. /\ tiles' = [s \in Sections |-> IF s \in S THEN tiles[s] + 1 ELSE tiles[s]]
      /\ dirty' = dirty \cup S
      /\ copy' = [p \in Players |-> [s \in Sections |->
                    IF /\ s \in S /\ copy[p][s] = tiles[s]
                       /\ p = author \/ Told(p, author, lo, hi)
                      THEN tiles'[s] ELSE copy[p][s]]]
      /\ missed' = [p \in Players |->
                      IF IsPlaying(p) THEN missed[p] ELSE missed[p] \cup (S \cap sent[p])]
      /\ UNCHANGED <<cache, state, pending, sent>>
  BY DEF Edit, Marked, client
<1> HIDE DEF S
<1>3. tiles' \in [Sections -> Nat]
  BY <1>2 DEF Typed
<1>4. Typed'
  BY <1>2, <1>3 DEF Typed
<1>5. Fresh'
  BY <1>2 DEF Fresh, Typed
<1>6. Follows'
  <2> SUFFICES ASSUME NEW p \in Players, NEW s \in sent[p] \ missed'[p]
               PROVE  copy'[p][s] = tiles'[s]
    BY <1>2 DEF Follows
  <2>1. s \in Sections /\ s \notin missed[p] /\ copy[p][s] = tiles[s]
    BY <1>2 DEF Follows, Typed
  <2>2. CASE s \notin S
    BY <1>2, <2>1, <2>2
  <2>3. CASE s \in S
    <3>1. IsPlaying(p)
      BY <1>2, <2>3
    <3>2. p = author \/ Told(p, author, lo, hi)
      BY <1>1, <2>3, <3>1 DEF Told, InRange
    <3> QED
      BY <1>2, <2>1, <2>3, <3>2
  <2> QED
    BY <2>2, <2>3
<1> QED
  BY <1>4, <1>5, <1>6

LEMMA HardmodeKeeps == ASSUME NEW S \in SUBSET Sections PROVE IInv /\ StartHardmode(S) => IInv'
<1> SUFFICES ASSUME IInv, StartHardmode(S) PROVE IInv'
  OBVIOUS
<1> USE DEF IInv
<1>1. Typed'
  BY DEF StartHardmode, client, Typed, None
<1>2. Fresh'
  BY DEF StartHardmode, Fresh
<1>3. Follows'
  BY DEF StartHardmode, Follows, Typed
<1> QED
  BY <1>1, <1>2, <1>3

(* The clients' own steps: none of them touches the world. *)
LEMMA ClientKeeps ==
  ASSUME NEW p \in Players, NEW place \in Places, NEW s \in Sections
  PROVE  IInv /\ (Join(p) \/ Leave(p) \/ Spawn(p) \/ AskTiles(p, place) \/ Move(p, s)) => IInv'
<1> USE DEF IInv
<1>1. IInv /\ Join(p) => IInv'
  BY DEF Join, world, Typed, Fresh, Follows, States
<1>2. IInv /\ Leave(p) => IInv'
  BY DEF Leave, world, Typed, Fresh, Follows, States, None
<1>3. IInv /\ Spawn(p) => IInv'
  BY DEF Spawn, world, Typed, Fresh, Follows, States
<1>4. IInv /\ AskTiles(p, place) => IInv'
  <2>1. SpawnBlock \cup place \in SUBSET Sections
    BY BlockAssumption DEF Places, Surroundings
  <2>2. InOrder(SpawnBlock \cup place) \in Seq(Sections)
    BY <2>1, Ordered
  <2> QED
    BY <2>2 DEF AskTiles, world, Typed, Fresh, Follows
<1>5. IInv /\ Move(p, s) => IInv'
  BY DEF Move, world, Typed, Fresh, Follows
<1> QED
  BY <1>1, <1>2, <1>3, <1>4, <1>5

LEMMA StepKeeps == IInv /\ [Next]_vars => IInv'
<1> SUFFICES ASSUME IInv, [Next]_vars PROVE IInv'
  OBVIOUS
<1>1. {} \in Places /\ 0 \in Sections
  BY SizesAssumption DEF Places, Sections
<1>2. CASE \E p \in Players : Join(p) \/ Leave(p) \/ Spawn(p)
  BY <1>1, <1>2, ClientKeeps
<1>3. CASE \E p \in Players, place \in Places : AskTiles(p, place)
  BY <1>1, <1>3, ClientKeeps
<1>4. CASE \E p \in Players, s \in Sections : Move(p, s) \/ RequestSection(p, s)
  BY <1>1, <1>4, ClientKeeps, RequestKeeps
<1>5. CASE \E author \in Players \cup {Server}, lo \in Sections :
             \E hi \in {lo, lo + 1} \cap Sections : \E big \in SUBSET (MayOutgrow \cap (lo .. hi)) :
               Edit(author, lo, hi, big)
  BY <1>5, EditKeeps
<1>6. CASE \E S \in SUBSET Sections : StartHardmode(S)
  BY <1>6, HardmodeKeeps
<1>7. CASE Tick
  BY <1>7, TickKeeps
<1>8. CASE UNCHANGED vars
  BY <1>8 DEF vars, IInv, Typed, Fresh, Follows
<1> QED
  BY <1>2, <1>3, <1>4, <1>5, <1>6, <1>7, <1>8 DEF Next

LEMMA Invariance == Spec => []IInv
BY Initially, StepKeeps, PTL DEF Spec

(* Who is in the world has the tiles of the world, in every section it was sent, but   *)
(* for changes before it was in the world and those of hardmode, which no packet carries *)
(* (systems.rs, broadcast_tile_square; dispatch.rs, send_section).                        *)
THEOREM ClientsFollow == Spec => []FollowsWorld
<1>1. IInv => FollowsWorld
  BY DEF IInv, Follows, FollowsWorld
<1> QED
  BY <1>1, Invariance, PTL

(* No section goes out as it was before a change, and none is noted as sent that did     *)
(* not go out (dispatch.rs, send_section; systems.rs, flush_dirty_sections).               *)
THEOREM NothingStaleIsSent == Spec => SentIsCurrent
<1>1. ASSUME IInv, [Next]_vars
      PROVE  [\A p \in Players : \A s \in sent'[p] \ sent[p] : copy'[p][s] = tiles'[s]]_vars
  <2> SUFFICES ASSUME NEW p \in Players, NEW s \in sent'[p] \ sent[p]
               PROVE  copy'[p][s] = tiles'[s]
    OBVIOUS
  <2>1. IInv'
    BY <1>1, StepKeeps
  <2>2. s \in Sections
    BY <2>1 DEF IInv, Typed
  <2>3. CASE UNCHANGED sent
    BY <2>3
  <2>4. CASE \E S \in SUBSET (Players \X Sections) : SendSections(S) /\ UNCHANGED tiles
    BY <1>1, <2>2, <2>4, SentAfresh DEF IInv
  <2>5. ASSUME NEW q \in Players, Leave(q) PROVE FALSE
    BY <1>1, <2>5 DEF Leave, IInv, Typed
  <2>6. ASSUME NEW q \in Players, NEW t \in Sections, RequestSection(q, t)
        PROVE  copy'[p][s] = tiles'[s]
    <3>1. CASE t \in sent[q]
      BY <2>3, <2>6, <3>1 DEF RequestSection
    <3>2. CASE t \notin sent[q]
      <4>1. SendSections({<<q, t>>}) /\ UNCHANGED tiles /\ {<<q, t>>} \in SUBSET (Players \X Sections)
        BY <2>6, <3>2 DEF RequestSection
      <4> QED
        BY <2>4, <4>1
    <3> QED
      BY <3>1, <3>2
  <2>7. CASE Tick
    <3>1. \E S \in SUBSET (Players \X Sections) : SendSections(S)
      BY <1>1, <2>7, TickDrains, TickSends DEF IInv
    <3> QED
      BY <2>4, <2>7, <3>1 DEF Tick
  <2>8. ASSUME [Next]_vars, sent' # sent
        PROVE  \/ \E q \in Players : Leave(q)
               \/ \E q \in Players, t \in Sections : RequestSection(q, t)
               \/ Tick
    BY <2>8 DEF Next, vars, Join, Spawn, AskTiles, Move, Edit, StartHardmode
  <2> QED
    BY <1>1, <2>3, <2>5, <2>6, <2>7, <2>8
<1> QED
  BY <1>1, Invariance, PTL DEF Spec, SentIsCurrent

(* ---- sums -------------------------------------------------------------------- *)

Pick(S) == CHOOSE x \in S : TRUE

(* g has the sums of f over the subsets of D, as FoldFunction defines them. *)
Adds(g, f, D) ==
  g = [T \in SUBSET D |-> IF T = {} THEN 0 ELSE f[Pick(T)] + g[T \ {Pick(T)}]]

(* A function from a finite set, of which there is a sum. *)
Parts(f, D) == IsFiniteSet(D) /\ f \in [D -> Nat]

LEMMA PickIsIn == \A S : S # {} => Pick(S) \in S
BY DEF Pick

(* Two such functions agree where both are defined. *)
LEMMA AddsAgree ==
  ASSUME NEW f, NEW g, NEW h, NEW D, NEW E, IsFiniteSet(D), Adds(g, f, D), Adds(h, f, E),
         NEW T \in SUBSET D, T \in SUBSET E
  PROVE  g[T] = h[T]
<1> DEFINE G == {S \in SUBSET T : g[S] = h[S]}
<1>1. ASSUME NEW S \in SUBSET T, \A U \in SUBSET S : U # S => U \in G PROVE S \in G
  <2>1. /\ g[S] = IF S = {} THEN 0 ELSE f[Pick(S)] + g[S \ {Pick(S)}]
        /\ h[S] = IF S = {} THEN 0 ELSE f[Pick(S)] + h[S \ {Pick(S)}]
    BY DEF Adds
  <2>2. S # {} => g[S \ {Pick(S)}] = h[S \ {Pick(S)}]
    <3> SUFFICES ASSUME S # {} PROVE S \ {Pick(S)} \in G
      OBVIOUS
    <3>1. S \ {Pick(S)} \in SUBSET S /\ S \ {Pick(S)} # S
      BY PickIsIn
    <3> QED
      BY <1>1, <3>1
  <2> QED
    BY <2>1, <2>2
<1>2. IsFiniteSet(T)
  BY FS_Subset
<1>3. T \in G
  <2> HIDE DEF G
  <2> QED
    BY <1>1, <1>2, SubsetInduction
<1> QED
  BY <1>3

(* There is one for every finite set. *)
LEMMA AddsExist == ASSUME NEW f, NEW D, IsFiniteSet(D) PROVE \E g : Adds(g, f, D)
<1> DEFINE G == {T \in SUBSET D : \E g : Adds(g, f, T)}
           W(T) == CHOOSE g : Adds(g, f, T)
<1>1. ASSUME NEW T \in SUBSET D, \A U \in SUBSET T : U # T => U \in G PROVE T \in G
  <2> DEFINE g == [S \in SUBSET T |-> IF S = {} THEN 0
                                        ELSE f[Pick(S)] + W(S \ {Pick(S)})[S \ {Pick(S)}]]
  <2>1. \A U \in SUBSET T : U # T => Adds(W(U), f, U)
    BY <1>1
  <2>2. \A S \in SUBSET T : S # {} => S \ {Pick(S)} \in SUBSET T /\ S \ {Pick(S)} # T
    BY PickIsIn
  <2> HIDE DEF W
  <2>3. ASSUME NEW S \in SUBSET T, S # T PROVE g[S] = W(S)[S]
    <3>1. W(S)[S] = IF S = {} THEN 0 ELSE f[Pick(S)] + W(S)[S \ {Pick(S)}]
      BY <2>1, <2>3 DEF Adds
    <3>2. S # {} => W(S)[S \ {Pick(S)}] = W(S \ {Pick(S)})[S \ {Pick(S)}]
      <4> SUFFICES ASSUME S # {} PROVE W(S)[S \ {Pick(S)}] = W(S \ {Pick(S)})[S \ {Pick(S)}]
        OBVIOUS
      <4> DEFINE U == S \ {Pick(S)}
      <4>1. U \in SUBSET T /\ U # T /\ U \in SUBSET S
        BY <2>2
      <4>2. Adds(W(S), f, S) /\ Adds(W(U), f, U) /\ IsFiniteSet(S)
        BY <2>1, <2>3, <4>1, FS_Subset
      <4> HIDE DEF U
      <4>3. W(S)[U] = W(U)[U]
        BY <4>1, <4>2, AddsAgree
      <4> QED
        BY <4>3 DEF U
    <3> QED
      BY <3>1, <3>2
  <2>4. ASSUME NEW S \in SUBSET T
        PROVE  g[S] = IF S = {} THEN 0 ELSE f[Pick(S)] + g[S \ {Pick(S)}]
    BY <2>2, <2>3
  <2>5. g = [S \in SUBSET T |-> g[S]]
    OBVIOUS
  <2> HIDE DEF g
  <2>6. Adds(g, f, T)
    BY <2>4, <2>5 DEF Adds
  <2> QED
    BY <2>6
<1>2. D \in G
  <2> HIDE DEF G
  <2> QED
    BY <1>1, SubsetInduction
<1> QED
  BY <1>2

(* SumOver is its value at the whole domain. *)
LEMMA SumIsAdded ==
  ASSUME NEW D, NEW f, Parts(f, D)
  PROVE  \E g : Adds(g, f, D) /\ SumOver(f) = g[D]
<1> DEFINE iter == CHOOSE g : g = [s \in SUBSET D |-> IF s = {} THEN 0
                      ELSE f[CHOOSE x \in s : TRUE] + g[s \ {CHOOSE x \in s : TRUE}]]
<1>0. IsFiniteSet(D) /\ f \in [D -> Nat]
  BY DEF Parts
<1>1. SumOver(f) = iter[D]
  BY <1>0 DEF SumOver, FoldFunction, FoldFunctionOnSet, MapThenFoldSet
<1>2. iter = CHOOSE g : Adds(g, f, D)
  BY DEF Adds, Pick
<1> HIDE DEF iter
<1> QED
  BY <1>0, <1>1, <1>2, AddsExist

(* It does not matter which element is taken first. *)
InAnyOrder(g, f, D) ==
  \A T \in SUBSET D : g[T] \in Nat /\ \A x \in T : g[T] = f[x] + g[T \ {x}]

LEMMA AddsAny ==
  ASSUME NEW D, NEW f, NEW g, Parts(f, D), Adds(g, f, D) PROVE InAnyOrder(g, f, D)
<1> USE DEF Parts
<1> DEFINE G == {T \in SUBSET D : g[T] \in Nat /\ \A x \in T : g[T] = f[x] + g[T \ {x}]}
<1>1. ASSUME NEW T \in SUBSET D, \A U \in SUBSET T : U # T => U \in G PROVE T \in G
  <2>1. CASE T = {}
    <3>1. g[T] = 0
      BY <2>1 DEF Adds
    <3> QED
      BY <2>1, <3>1
  <2>2. CASE T # {}
    <3> DEFINE c == Pick(T)
    <3>1. c \in T /\ g[T] = f[c] + g[T \ {c}]
      BY <2>2, PickIsIn DEF Adds
    <3> HIDE DEF c
    <3>2. T \ {c} \in G
      BY <1>1, <3>1
    <3>3. f[c] \in Nat /\ g[T \ {c}] \in Nat
      BY <3>1, <3>2
    <3>4. ASSUME NEW x \in T, x # c PROVE g[T] = f[x] + g[T \ {x}]
      <4>1. T \ {x} \in G
        BY <1>1
      <4> DEFINE R == (T \ {c}) \ {x}
      <4>2. R = (T \ {x}) \ {c}
        OBVIOUS
      <4>3. g[T \ {c}] = f[x] + g[R]
        BY <3>2, <3>4
      <4>4. g[T \ {x}] = f[c] + g[R]
        BY <3>1, <3>4, <4>1, <4>2
      <4>5. R \in G
        <5>1. R \in SUBSET T /\ R # T
          BY <3>1
        <5> QED
          BY <1>1, <5>1
      <4>6. f[x] \in Nat /\ g[R] \in Nat
        BY <4>5
      <4> HIDE DEF R
      <4> QED
        BY <3>1, <3>3, <4>3, <4>4, <4>6
    <3>5. \A x \in T : g[T] = f[x] + g[T \ {x}]
      BY <3>1, <3>4
    <3>6. g[T] \in Nat
      BY <3>1, <3>3
    <3> QED
      BY <3>5, <3>6
  <2> QED
    BY <2>1, <2>2
<1>2. \A T \in SUBSET D : T \in G
  <2>1. SUBSET D \subseteq G
    <3> HIDE DEF G
    <3> QED
      BY <1>1, SubsetInduction
  <2> HIDE DEF G
  <2> QED
    BY <2>1
<1> QED
  BY <1>2 DEF InAnyOrder

LEMMA AddsWhole ==
  ASSUME NEW D, NEW f, NEW g, Parts(f, D), Adds(g, f, D)
  PROVE  /\ g[D] \in Nat
         /\ \A x \in D : f[x] \in Nat /\ g[D \ {x}] \in Nat /\ g[D] = f[x] + g[D \ {x}]
<1>1. \A T \in SUBSET D : g[T] \in Nat /\ \A x \in T : g[T] = f[x] + g[T \ {x}]
  BY AddsAny DEF InAnyOrder
<1>2. \A x \in D : f[x] \in Nat
  BY DEF Parts
<1>3. D \in SUBSET D /\ \A x \in D : D \ {x} \in SUBSET D
  OBVIOUS
<1> QED
  BY <1>1, <1>2, <1>3

(* to takes the parts of f one by one to those of e, all but x. *)
Moves(to, f, D, e, E, x) ==
  /\ to \in [D -> E] /\ \A y, z \in D : y # z => to[y] # to[z]
  /\ \A y \in D : f[y] = e[to[y]]
  /\ x \in E /\ {to[y] : y \in D} = E \ {x}

LEMMA AddsMoved ==
  ASSUME NEW D, NEW E, NEW f, NEW e, NEW g, NEW h, NEW to, NEW x,
         Parts(f, D), Parts(e, E), Adds(g, f, D), Adds(h, e, E), Moves(to, f, D, e, E, x)
  PROVE  g[D] = h[E \ {x}]
<1> DEFINE img(T) == {to[y] : y \in T}
           G == {T \in SUBSET D : g[T] = h[img(T)]}
<1>00. InAnyOrder(g, f, D) /\ InAnyOrder(h, e, E)
  BY AddsAny
<1>0. to \in [D -> E] /\ (\A y, z \in D : y # z => to[y] # to[z]) /\ (\A y \in D : f[y] = e[to[y]])
  BY DEF Moves
<1>1. ASSUME NEW T \in SUBSET D, \A U \in SUBSET T : U # T => U \in G PROVE T \in G
  <2>1. CASE T = {}
    <3>1. img(T) = {}
      BY <2>1
    <3>2. g[T] = 0 /\ h[img(T)] = 0
      BY <2>1, <3>1 DEF Adds
    <3> QED
      BY <3>2
  <2>2. CASE T # {}
    <3>1. PICK y \in T : TRUE
      BY <2>2
    <3>2. img(T \ {y}) = img(T) \ {to[y]} /\ to[y] \in img(T) /\ img(T) \in SUBSET E
      BY <1>0
    <3>3. T \ {y} \in G
      BY <1>1
    <3>4. g[T] = f[y] + g[T \ {y}]
      BY <1>00, <3>1 DEF InAnyOrder
    <3>5. h[img(T)] = e[to[y]] + h[img(T) \ {to[y]}]
      <4>1. \A U \in SUBSET E : h[U] \in Nat /\ \A z \in U : h[U] = e[z] + h[U \ {z}]
        BY <1>00 DEF InAnyOrder
      <4> HIDE DEF img
      <4> QED
        BY <3>2, <4>1
    <3>6. f[y] = e[to[y]]
      BY <1>0
    <3> HIDE DEF img
    <3> QED
      BY <3>2, <3>3, <3>4, <3>5, <3>6
  <2> QED
    BY <2>1, <2>2
<1>2. D \in G
  <2>1. IsFiniteSet(D)
    BY DEF Parts
  <2> HIDE DEF G
  <2> QED
    BY <1>1, <2>1, SubsetInduction
<1>3. img(D) = E \ {x}
  BY DEF Moves
<1> HIDE DEF img
<1> QED
  BY <1>2, <1>3

(* A sum is one part and the sum of the others, wherever those stand. *)
LEMMA SumMoved ==
  ASSUME NEW D, NEW E, NEW f, NEW e, NEW to, NEW x,
         Parts(f, D), Parts(e, E), Moves(to, f, D, e, E, x)
  PROVE  SumOver(e) = e[x] + SumOver(f)
<1>1. PICK g : Adds(g, f, D) /\ SumOver(f) = g[D]
  BY SumIsAdded
<1>2. PICK h : Adds(h, e, E) /\ SumOver(e) = h[E]
  BY SumIsAdded
<1>3. g[D] = h[E \ {x}]
  BY <1>1, <1>2, AddsMoved
<1>4. x \in E
  BY DEF Moves
<1>5. h[E] = e[x] + h[E \ {x}]
  BY <1>2, <1>4, AddsWhole
<1> QED
  BY <1>1, <1>2, <1>3, <1>5

LEMMA SumAtLeast ==
  ASSUME NEW D, NEW f, Parts(f, D)
  PROVE  SumOver(f) \in Nat /\ \A x \in D : f[x] <= SumOver(f)
<1>1. PICK g : Adds(g, f, D) /\ SumOver(f) = g[D]
  BY SumIsAdded
<1>2. /\ g[D] \in Nat
      /\ \A x \in D : f[x] \in Nat /\ g[D \ {x}] \in Nat /\ g[D] = f[x] + g[D \ {x}]
  BY <1>1, AddsWhole
<1>3. ASSUME NEW x \in D PROVE f[x] <= g[D]
  <2>1. f[x] \in Nat /\ g[D \ {x}] \in Nat /\ g[D] = f[x] + g[D \ {x}]
    BY <1>2, Zenon
  <2> QED
    BY <2>1
<1> QED
  BY <1>1, <1>2, <1>3

LEMMA SumOfNone ==
  ASSUME NEW D, NEW f, Parts(f, D), \A x \in D : f[x] = 0
  PROVE  SumOver(f) = 0
<1>1. PICK g : Adds(g, f, D) /\ SumOver(f) = g[D]
  BY SumIsAdded
<1>a. Adds(g, f, D)
  BY <1>1
<1> DEFINE G == {T \in SUBSET D : g[T] = 0}
<1>2. ASSUME NEW T \in SUBSET D, \A U \in SUBSET T : U # T => U \in G PROVE T \in G
  <2>1. CASE T = {}
    BY <1>a, <2>1 DEF Adds
  <2>2. CASE T # {}
    <3>1. PICK x \in T : TRUE
      BY <2>2
    <3>2. g[T \ {x}] = 0
      BY <1>2
    <3>3. g[T] = f[x] + g[T \ {x}]
      BY <1>a, AddsAny DEF InAnyOrder
    <3> QED
      BY <3>2, <3>3
  <2> QED
    BY <2>1, <2>2
<1>3. D \in G
  <2>1. IsFiniteSet(D)
    BY DEF Parts
  <2> HIDE DEF G
  <2> QED
    BY <1>2, <2>1, SubsetInduction
<1> QED
  BY <1>1, <1>3

(* One part changes, and the sum by as much. *)
LEMMA SumExcept ==
  ASSUME NEW D, NEW f, NEW e, Parts(f, D), Parts(e, D), NEW x \in D,
         \A y \in D \ {x} : e[y] = f[y]
  PROVE  SumOver(e) - e[x] = SumOver(f) - f[x]
<1> DEFINE S == D \ {x}
           r == [y \in S |-> f[y]]
           to == [y \in S |-> y]
<1>1. Parts(r, S)
  BY FS_Subset DEF Parts
<1>2. Moves(to, r, S, f, D, x) /\ Moves(to, r, S, e, D, x)
  BY DEF Moves
<1> HIDE DEF S, r, to
<1>3. SumOver(f) = f[x] + SumOver(r)
  BY <1>1, <1>2, SumMoved
<1>4. SumOver(e) = e[x] + SumOver(r)
  BY <1>1, <1>2, SumMoved
<1>5. SumOver(r) \in Nat
  BY <1>1, SumAtLeast
<1>6. f[x] \in Nat /\ e[x] \in Nat
  BY DEF Parts
<1> QED
  BY <1>3, <1>4, <1>5, <1>6

(* What is appended to a queue adds to it, and what is taken off is missing. *)
LEMMA SumOfAppended ==
  ASSUME NEW s \in Seq(Nat), NEW n \in Nat
  PROVE  SumOver(Append(s, n)) = SumOver(s) + n
<1> DEFINE k == Len(s)
           a == Append(s, n)
           D == 1 .. k
           E == 1 .. k + 1
           to == [i \in D |-> i]
<1>1. k \in Nat /\ s \in [D -> Nat]
  OBVIOUS
<1>2. a \in Seq(Nat) /\ Len(a) = k + 1 /\ a[k + 1] = n /\ \A i \in D : a[i] = s[i]
  BY AppendProperties
<1>3. a \in [E -> Nat]
  <2> HIDE DEF a, k
  <2> QED
    BY <1>2
<1> HIDE DEF a, k
<1>4. Moves(to, s, D, a, E, k + 1)
  <2>1. to \in [D -> E] /\ \A y, z \in D : y # z => to[y] # to[z]
    BY <1>1
  <2>2. (\A y \in D : s[y] = a[to[y]]) /\ k + 1 \in E
    BY <1>1, <1>2
  <2>3. {to[y] : y \in D} = D /\ D = E \ {k + 1}
    BY <1>1
  <2> HIDE DEF to, D, E
  <2> QED
    BY <2>1, <2>2, <2>3 DEF Moves
<1>5. Parts(s, D) /\ Parts(a, E)
  <2>1. IsFiniteSet(D) /\ IsFiniteSet(E)
    BY <1>1, FS_Interval
  <2> HIDE DEF D, E
  <2> QED
    BY <1>1, <1>3, <2>1 DEF Parts
<1> HIDE DEF D, E, to
<1>6. SumOver(a) = a[k + 1] + SumOver(s)
  BY <1>4, <1>5, SumMoved
<1>7. SumOver(s) \in Nat
  BY <1>5, SumAtLeast
<1> QED
  BY <1>2, <1>6, <1>7 DEF a

LEMMA SumOfTail ==
  ASSUME NEW s \in Seq(Nat), s # << >>
  PROVE  SumOver(s) = Head(s) + SumOver(Tail(s)) /\ SumOver(Tail(s)) \in Nat
<1> DEFINE k == Len(s)
           t == Tail(s)
           D == 1 .. k - 1
           E == 1 .. k
           to == [i \in D |-> i + 1]
<1>1. k \in Nat \ {0} /\ s \in [E -> Nat] /\ Head(s) = s[1]
  BY EmptySeq
<1>2. t \in Seq(Nat) /\ Len(t) = k - 1 /\ \A i \in 1 .. Len(t) : t[i] = s[i + 1]
  BY HeadTailProperties
<1>3. t \in [D -> Nat]
  <2> HIDE DEF t, k
  <2> QED
    BY <1>2
<1> HIDE DEF t, k
<1>4. /\ to \in [D -> E] /\ 1 \in E
      /\ \A i \in D, j \in D : i # j => to[i] # to[j]
      /\ \A i \in D : t[i] = s[to[i]]
  BY <1>1, <1>2
<1>5. {to[i] : i \in D} = E \ {1}
  <2>1. \A j \in E \ {1} : j - 1 \in D /\ j = to[j - 1]
    BY <1>1
  <2>2. \A i \in D : to[i] \in E \ {1}
    BY <1>1
  <2> HIDE DEF to, D, E
  <2> QED
    BY <2>1, <2>2
<1>6. Parts(t, D) /\ Parts(s, E)
  <2>1. IsFiniteSet(D) /\ IsFiniteSet(E)
    BY <1>1, FS_Interval
  <2> HIDE DEF D, E
  <2> QED
    BY <1>1, <1>3, <2>1 DEF Parts
<1>9. Moves(to, t, D, s, E, 1)
  BY <1>4, <1>5, Zenon DEF Moves
<1> HIDE DEF D, E, to
<1>7. SumOver(s) = s[1] + SumOver(t)
  BY <1>6, <1>9, SumMoved
<1>8. SumOver(t) \in Nat
  BY <1>6, SumAtLeast
<1> QED
  BY <1>1, <1>7, <1>8 DEF t

LEMMA SumOfSequence ==
  /\ \A s \in Seq(Nat) : SumOver(s) \in Nat
  /\ SumOver(<< >>) = 0
<1>1. ASSUME NEW s \in Seq(Nat) PROVE SumOver(s) \in Nat
  <2>1. Parts(s, 1 .. Len(s))
    BY FS_Interval DEF Parts
  <2> QED
    BY <2>1, SumAtLeast
<1>2. SumOver(<< >>) = 0
  <2>1. Parts(<< >>, {})
    BY FS_EmptySet DEF Parts
  <2> QED
    BY <2>1, SumOfNone
<1> QED
  BY <1>1, <1>2

(* ---- the queues ---------------------------------------------------------------- *)

(* A connection is charged for what is in its queue, for what the game task is about to *)
(* put there or to take back, and for what its write task took out and has not released.   *)
Queued(c) == SumOver(queue[c])
Sending(c) == game.conn = c /\ game.at \in {"charged", "reserved", "refund"}
Offered(c) == IF Sending(c) THEN game.amount ELSE 0
Taken(c) == IF writer[c].at = "release" THEN writer[c].amount ELSE 0
Held(c) == Queued(c) + Offered(c) + Taken(c)
Charged == \A c \in Conns : mine[c] = IF c \in seated THEN Held(c) ELSE 0

(* The total is what the connections are charged for, but for what is half done: taken     *)
(* off a connection and not yet off the total, or the other way round.                      *)
Debt(c) == IF writer[c].at = "credit" THEN writer[c].amount ELSE 0
Owed == [c \in Conns |-> Debt(c)]
Ahead == IF At("charged") THEN game.amount ELSE 0
Unpaid == IF At("repay") \/ At("abandon") THEN game.amount ELSE 0
Books == total + Ahead = SumOver(mine) + SumOver(Owed) + Unpaid

(* Where the game task can be, and with whom. *)
Standing == {"idle", "charged", "reserved", "refund", "repay", "weigh", "scan", "remove", "abandon"}
GameStates == [at : Standing, conn : Conns \cup {0}, amount : Nat, next : 0 .. Connections + 1]
Sends == [to : SUBSET Conns, size : 1 .. MaxFrame]
Stands ==
  /\ At("idle") => game = Idle
  /\ ~At("idle") /\ ~At("scan") => game.conn \in arrived
  /\ game.at \in {"charged", "reserved", "refund", "repay", "weigh"} => game.conn \in seated
  /\ game.at \in {"charged", "reserved"} => game.amount \in 1 .. MaxFrame
  /\ At("scan") => game.conn \in seated \cup {0} /\ game.next # 0
  /\ At("abandon") => game.conn \notin seated
Unused == \A c \in Conns \ arrived : queue[c] = << >> /\ writer[c].at = "select"

(* Between two sends the queues are within the budget; a send puts only one of them over. *)
(* c is who was sent to last.  A queue that the scan prefers to that of c was the deeper     *)
(* one when it was looked at, and without it what is left fits, whatever was written since.    *)
Best(c) ==
  /\ SumOver(mine) - mine[c] <= Budget
  /\ game.conn \notin {0, c} => SumOver(mine) - mine[c] - mine[game.conn] + game.amount <= Budget
  /\ c < game.next => game.conn # 0 /\ mine[c] <= game.amount
Room ==
  /\ At("idle") \/ At("abandon") => SumOver(mine) <= Budget
  /\ At("scan") => \E c \in seated : Best(c)
  /\ ~At("idle") /\ ~At("abandon") /\ ~At("scan") => SumOver(mine) - mine[game.conn] <= Budget

(* A batch is never longer than this, and after the Closer fired it is the last. *)
Batches ==
  \A c \in Conns :
    /\ writer[c].batched < WriteBatch + MaxFrame
    /\ late[c] < WriteBatch + MaxFrame
    /\ c \notin fired => late[c] = 0
    /\ late[c] > 0 => writer[c].at \in {"select", "ended"}

Shape == QueuesTypeOK /\ Stands /\ Unused /\ Batches
Ledger == Charged /\ Books /\ Room
QInv == Shape /\ Ledger

LEMMA Sizes ==
  /\ Connections \in Nat \ {0} /\ Budget \in Nat \ {0} /\ QueueDepth \in Nat \ {0}
  /\ WriteBatch \in Nat \ {0} /\ MaxFrame \in Nat \ {0}
  /\ IsFiniteSet(Conns) /\ Conns \subseteq Nat /\ 0 \notin Conns
BY SizeAssumption, FS_Interval DEF Conns

(* The first of the targets is one of them. *)
LEMMA LeastIsIn == ASSUME NEW S \in SUBSET Conns, S # {} PROVE Least(S) \in S
<1> DEFINE G == {T \in SUBSET S : T = {} \/ \E x \in T : \A y \in T : x <= y}
<1>1. S \subseteq Nat /\ IsFiniteSet(S)
  BY Sizes, FS_Subset
<1>2. ASSUME NEW T \in SUBSET S, \A U \in SUBSET T : U # T => U \in G PROVE T \in G
  <2>1. CASE T = {}
    BY <2>1
  <2>2. CASE T # {}
    <3>1. PICK z \in T : TRUE
      BY <2>2
    <3>2. T \ {z} \in G
      BY <1>2
    <3> QED
      BY <1>1, <3>1, <3>2
  <2> QED
    BY <2>1, <2>2
<1>3. S \in G
  <2> HIDE DEF G
  <2> QED
    BY <1>1, <1>2, SubsetInduction
<1>4. \E x \in S : \A y \in S : x <= y
  BY <1>3
<1> QED
  BY <1>4 DEF Least

(* ---- the shape of the state ------------------------------------------------------ *)

LEMMA ShapeInitially == QueuesInit => Shape
<1> SUFFICES ASSUME QueuesInit PROVE Shape
  OBVIOUS
<1> USE DEF QueuesInit
<1>1. /\ queue \in [Conns -> Seq(1 .. MaxFrame)] /\ (\A c \in Conns : Len(queue[c]) <= QueueDepth)
      /\ work \in Seq([to : SUBSET Conns, size : 1 .. MaxFrame])
  BY Sizes, EmptySeq
<1>2. game \in [at : {"idle", "charged", "reserved", "refund", "repay", "weigh", "scan", "remove",
                     "abandon"},
                conn : Conns \cup {0}, amount : Nat, next : 0 .. Connections + 1]
  BY Sizes DEF Idle, Stand
<1>3. writer \in [Conns -> [at : {"select", "release", "credit", "gather", "write", "ended"},
                           amount : Nat, batched : Nat]]
  BY DEF Task
<1>4. QueuesTypeOK
  BY <1>1, <1>2, <1>3 DEF QueuesTypeOK
<1>5. Stands /\ Unused
  BY DEF Stands, Unused, At, Idle, Stand, Task
<1>6. Batches
  BY Sizes DEF Batches, Task
<1> QED
  BY <1>4, <1>5, <1>6 DEF Shape

LEMMA EntryShapes ==
  ASSUME Shape, NEW c \in Conns
  PROVE  /\ Arrive(c) => Shape'
         /\ Enter(c) => Shape'
         /\ Depart(c) => Shape'
         /\ HangUp(c) => Shape'
         /\ Stop => Shape'
<1> USE DEF Shape
<1>1. Arrive(c) => Shape'
  BY DEF Arrive, Ready, QueuesTypeOK, Stands, Unused, Batches, At, Idle, Stand
<1>2. Enter(c) => Shape'
  BY DEF Enter, Ready, QueuesTypeOK, Stands, Unused, Batches, At, Idle, Stand
<1>3. Depart(c) => Shape'
  BY DEF Depart, Ready, QueuesTypeOK, Stands, Unused, Batches, At, Idle, Stand
<1>4. HangUp(c) => Shape'
  BY DEF HangUp, Ready, QueuesTypeOK, Stands, Unused, Batches, At, Idle, Stand
<1>5. Stop => Shape'
  BY DEF Stop, Ready, QueuesTypeOK, Stands, Unused, Batches, At, Idle, Stand
<1> QED
  BY <1>1, <1>2, <1>3, <1>4, <1>5

LEMMA SpeakShapes ==
  ASSUME Shape, NEW S \in SUBSET Conns, NEW n \in 1 .. MaxFrame, Speak(S, n)
  PROVE  Shape'
<1>1. work' \in Seq([to : SUBSET Conns, size : 1 .. MaxFrame])
  BY DEF Speak
<1> QED
  BY <1>1 DEF Speak, Shape, QueuesTypeOK, Stands, Unused, Batches, At, Idle, Stand

LEMMA StandIs ==
  ASSUME NEW spot \in Standing, NEW c \in Conns \cup {0}, NEW n \in Nat, NEW k \in 0 .. Connections + 1
  PROVE  /\ Stand(spot, c, n, k) \in GameStates
         /\ Stand(spot, c, n, k).at = spot /\ Stand(spot, c, n, k).conn = c
         /\ Stand(spot, c, n, k).amount = n /\ Stand(spot, c, n, k).next = k
BY DEF Stand, GameStates

LEMMA IdleIs == Idle \in GameStates /\ Idle.at = "idle" /\ Idle.conn = 0
BY Sizes DEF Idle, Stand, GameStates, Standing

(* What a step of the game task has to keep: the write tasks are left alone. *)
Untouched == UNCHANGED <<arrived, writer, hungUp, late, stopped>>
Counts ==
  mine \in [Conns -> Nat] /\ total \in Nat /\ work \in Seq(Sends) /\ game \in GameStates
Frames == queue \in [Conns -> Seq(1 .. MaxFrame)] /\ \A c \in Conns : Len(queue[c]) <= QueueDepth
Seats == seated \subseteq arrived /\ playing \subseteq seated /\ fired \subseteq arrived \ seated

LEMMA ShapeGives == Shape => Counts /\ Frames /\ Seats /\ Stands /\ arrived \subseteq Conns
BY DEF Shape, QueuesTypeOK, Counts, Frames, Seats, GameStates, Standing, Sends

LEMMA GameShapes ==
  ASSUME Shape, Untouched, Counts', Frames', Seats', Stands', fired \subseteq fired',
         \A c \in Conns \ arrived : queue'[c] = queue[c]
  PROVE  Shape'
<1>1. QueuesTypeOK'
  BY DEF Shape, QueuesTypeOK, Untouched, Counts, Frames, Seats, GameStates, Standing, Sends
<1>2. Unused'
  BY DEF Shape, Unused, Untouched
<1>3. Batches'
  BY DEF Shape, Batches, Untouched
<1> QED
  BY <1>1, <1>2, <1>3 DEF Shape

LEMMA NextSendShapes == ASSUME Shape, NextSend PROVE Shape'
<1> DEFINE send == Head(work)
           c == Least(send.to)
<1>0. Counts /\ Frames /\ Seats /\ Stands /\ arrived \subseteq Conns
  BY ShapeGives
<1>1. work \in Seq(Sends) /\ work # << >>
  BY <1>0 DEF NextSend, Counts
<1>2. send \in Sends /\ Tail(work) \in Seq(Sends)
  <2> HIDE DEF Sends
  <2> QED
    BY <1>1
<1>3. send.to # {} => c \in Conns
  BY <1>2, LeastIsIn DEF Sends
<1>4. work' \in Seq(Sends)
  <2>1. [send EXCEPT !.to = @ \ {c}] \in Sends
    BY <1>2 DEF Sends
  <2> HIDE DEF send, c
  <2>2. << [send EXCEPT !.to = @ \ {c}] >> \o Tail(work) \in Seq(Sends)
    BY <1>2, <2>1
  <2>3. \/ work' = Tail(work)
        \/ work' = << [send EXCEPT !.to = @ \ {c}] >> \o Tail(work)
    BY DEF NextSend, send, c
  <2> QED
    BY <1>2, <2>2, <2>3
<1>5. \/ UNCHANGED <<mine, game>>
      \/ /\ c \in seated /\ c \in Conns
         /\ mine' = [mine EXCEPT ![c] = @ + send.size]
         /\ game' = Stand("charged", c, send.size, 0)
  BY <1>3 DEF NextSend
<1>6. UNCHANGED <<arrived, seated, playing, total, queue, writer, fired, hungUp, late, stopped>>
  BY DEF NextSend
<1>7. send.size \in 1 .. MaxFrame /\ send.size \in Nat
  BY <1>2, Sizes DEF Sends
<1> HIDE DEF send, c
<1>8. CASE UNCHANGED <<mine, game>>
  <2>1. Counts' /\ Frames' /\ Seats' /\ Stands'
    BY <1>0, <1>4, <1>6, <1>8 DEF Counts, Frames, Seats, Stands, At
  <2> QED
    BY <1>6, <2>1, GameShapes DEF Untouched
<1>9. CASE /\ c \in seated /\ c \in Conns
           /\ mine' = [mine EXCEPT ![c] = @ + send.size]
           /\ game' = Stand("charged", c, send.size, 0)
  <2>1. game' \in GameStates /\ game'.at = "charged" /\ game'.conn = c /\ game'.amount = send.size
    BY <1>7, <1>9, StandIs, Sizes DEF Standing
  <2>2. mine' \in [Conns -> Nat]
    BY <1>0, <1>7, <1>9 DEF Counts
  <2>3. Counts' /\ Frames' /\ Seats'
    BY <1>0, <1>4, <1>6, <2>1, <2>2 DEF Counts, Frames, Seats
  <2>4. Stands'
    BY <1>0, <1>6, <1>7, <1>9, <2>1 DEF Stands, At, Seats
  <2> QED
    BY <1>6, <2>3, <2>4, GameShapes DEF Untouched
<1> QED
  BY <1>5, <1>8, <1>9

LEMMA ChargeShapes == ASSUME Shape, Charge PROVE Shape'
<1>0. Counts /\ Frames /\ Seats /\ Stands
  BY ShapeGives
<1>4. total' \in Nat
  BY <1>0 DEF Charge, Counts, GameStates
<1>1. game' \in GameStates
  BY <1>0 DEF Charge, Counts, GameStates, Standing
<1>2. Counts' /\ Frames' /\ Seats'
  BY <1>0, <1>1, <1>4 DEF Charge, Counts, Frames, Seats
<1>3. Stands'
  BY <1>0 DEF Charge, Stands, At, Counts, GameStates
<1> QED
  BY <1>2, <1>3, GameShapes DEF Charge, Untouched

LEMMA TrySendShapes == ASSUME Shape, TrySend PROVE Shape'
<1> DEFINE c == game.conn
<1>0. Counts /\ Frames /\ Seats /\ Stands /\ arrived \subseteq Conns
  BY ShapeGives
<1>1. c \in arrived /\ c \in Conns /\ game.amount \in 1 .. MaxFrame
  BY <1>0 DEF TrySend, Stands, At, Seats
<1>2. /\ UNCHANGED <<arrived, seated, playing, mine, total, work, writer, fired, hungUp, late, stopped>>
      /\ game' = [game EXCEPT !.at = "weigh"] \/ game' = [game EXCEPT !.at = "refund"]
      /\ At("reserved")
      /\ \/ Len(queue[c]) < QueueDepth /\ queue' = [queue EXCEPT ![c] = Append(@, game.amount)]
         \/ queue' = queue
  BY DEF TrySend
<1>3. Frames' /\ \A d \in Conns \ {c} : queue'[d] = queue[d]
  <2>1. CASE queue' = queue
    BY <1>0, <2>1 DEF Frames
  <2>2. CASE Len(queue[c]) < QueueDepth /\ queue' = [queue EXCEPT ![c] = Append(@, game.amount)]
    <3>1. Append(queue[c], game.amount) \in Seq(1 .. MaxFrame)
      BY <1>0, <1>1 DEF Frames
    <3>2. Len(Append(queue[c], game.amount)) <= QueueDepth
      BY <1>0, <1>1, <2>2, Sizes DEF Frames
    <3> QED
      BY <1>0, <1>1, <2>2, <3>1, <3>2 DEF Frames
  <2> QED
    BY <1>2, <2>1, <2>2
<1>4. game' \in GameStates /\ game'.at \in {"weigh", "refund"} /\ game'.conn = game.conn
  BY <1>0, <1>2 DEF Counts, GameStates, Standing
<1>5. Counts' /\ Seats'
  BY <1>0, <1>2, <1>4 DEF Counts, Seats
<1>6. Stands'
  BY <1>0, <1>2, <1>4 DEF Stands, At
<1> QED
  BY <1>1, <1>2, <1>3, <1>5, <1>6, GameShapes DEF Untouched

LEMMA RemovedIs ==
  ASSUME Shape, NEW c \in Conns, NEW n \in Nat
  PROVE  /\ Removed(c, n) \in Nat /\ Removed(c, n) <= mine[c]
         /\ mine[c] - Removed(c, n) \in Nat
         /\ n <= mine[c] => Removed(c, n) = n
BY DEF Shape, QueuesTypeOK, Removed, Lesser

LEMMA RefundShapes == ASSUME Shape, Refund PROVE Shape'
<1> DEFINE c == game.conn
           n == Removed(c, game.amount)
<1>0. Counts /\ Frames /\ Seats /\ Stands /\ arrived \subseteq Conns
  BY ShapeGives
<1>1. c \in arrived /\ c \in Conns /\ c \in seated /\ game.amount \in Nat
  BY <1>0 DEF Refund, Stands, At, Seats, Counts, GameStates
<1>2. n \in Nat /\ mine[c] - n \in Nat
  BY <1>1, RemovedIs
<1>3. /\ UNCHANGED <<arrived, seated, playing, total, queue, work, writer, fired, hungUp, late, stopped>>
      /\ mine' = [mine EXCEPT ![c] = @ - n] /\ game' = Stand("repay", c, n, 0)
  BY DEF Refund
<1> HIDE DEF n
<1>4. game' \in GameStates /\ game'.at = "repay" /\ game'.conn = c
  BY <1>1, <1>2, <1>3, Sizes DEF Stand, GameStates, Standing
<1>5. mine' \in [Conns -> Nat]
  BY <1>0, <1>1, <1>2, <1>3 DEF Counts
<1>6. Counts' /\ Frames' /\ Seats'
  BY <1>0, <1>3, <1>4, <1>5 DEF Counts, Frames, Seats
<1>7. Stands'
  BY <1>1, <1>3, <1>4 DEF Stands, At
<1> QED
  BY <1>3, <1>6, <1>7, GameShapes DEF Untouched

LEMMA RepayShapes == ASSUME Shape, Repay PROVE Shape'
<1>0. Counts /\ Frames /\ Seats /\ Stands /\ arrived \subseteq Conns
  BY ShapeGives
<1>1. game.conn \in arrived /\ game.conn \in Conns
  BY <1>0 DEF Repay, Stands, At
<1>2. total' \in Nat
  BY <1>0 DEF Repay, Saturating, Counts, GameStates
<1>3. game' \in GameStates /\ game'.at = "remove" /\ game'.conn = game.conn
  BY <1>1, Sizes DEF Repay, Stand, GameStates, Standing
<1>4. Counts' /\ Frames' /\ Seats'
  BY <1>0, <1>2, <1>3 DEF Repay, Counts, Frames, Seats
<1>5. Stands'
  BY <1>1, <1>3 DEF Repay, Stands, At
<1> QED
  BY <1>4, <1>5, GameShapes DEF Repay, Untouched

LEMMA WeighShapes == ASSUME Shape, Weigh PROVE Shape'
<1>0. Counts /\ Frames /\ Seats /\ Stands
  BY ShapeGives
<1>1. \/ game' = Idle /\ game'.at = "idle"
      \/ game'.at = "scan" /\ game'.conn = 0 /\ game'.next = 1
  BY StandIs, IdleIs, Sizes DEF Weigh, Standing
<1>2. game' \in GameStates
  BY StandIs, IdleIs, Sizes DEF Weigh, Standing
<1>3. Counts' /\ Frames' /\ Seats'
  BY <1>0, <1>2 DEF Weigh, Counts, Frames, Seats
<1>4. Stands'
  BY <1>1 DEF Stands, At
<1> QED
  BY <1>3, <1>4, GameShapes DEF Weigh, Untouched

LEMMA ScanShapes == ASSUME Shape, Scan PROVE Shape'
<1> DEFINE c == game.next
<1>0. Counts /\ Frames /\ Seats /\ Stands
  BY ShapeGives
<1>1. UNCHANGED <<arrived, seated, playing, mine, total, queue, work, writer, fired, hungUp, late,
                  stopped>>
  BY DEF Scan
<1>2. game' \in GameStates /\ Stands'
  <2>1. CASE c \notin Conns /\ game.conn = 0
    <3>1. game' = Idle
      BY <2>1 DEF Scan
    <3> QED
      BY <3>1, IdleIs DEF Stands, At
  <2>2. CASE c \notin Conns /\ game.conn # 0
    <3>1. game' = [game EXCEPT !.at = "remove"]
      BY <2>2 DEF Scan
    <3>2. game' \in GameStates /\ game'.at = "remove" /\ game'.conn = game.conn
      BY <1>0, <3>1 DEF Counts, GameStates, Standing
    <3>3. game.conn \in arrived
      BY <1>0, <2>2 DEF Scan, Stands, Seats
    <3> QED
      BY <1>1, <3>2, <3>3 DEF Stands, At
  <2>3. CASE c \in Conns
    <3>1. c \in Nat /\ c + 1 \in 0 .. Connections + 1 /\ c + 1 # 0 /\ mine[c] \in Nat
      BY <1>0, <2>3, Sizes DEF Conns, Counts
    <3>2. \/ c \in seated /\ game' = Stand("scan", c, mine[c], c + 1)
          \/ game' = [game EXCEPT !.next = c + 1]
      BY <2>3 DEF Scan
    <3>3. game' \in GameStates /\ game'.at = "scan" /\ game'.next = c + 1
      <4>1. CASE game' = Stand("scan", c, mine[c], c + 1)
        BY <2>3, <3>1, <4>1, StandIs DEF Standing
      <4>2. CASE game' = [game EXCEPT !.next = c + 1]
        BY <1>0, <3>1, <4>2 DEF Scan, At, Counts, GameStates
      <4> QED
        BY <3>2, <4>1, <4>2
    <3>4. game'.conn \in seated \cup {0}
      <4>1. CASE c \in seated /\ game' = Stand("scan", c, mine[c], c + 1)
        BY <4>1 DEF Stand
      <4>2. CASE game' = [game EXCEPT !.next = c + 1]
        BY <1>0, <4>2 DEF Scan, At, Counts, GameStates, Stands
      <4> QED
        BY <3>2, <4>1, <4>2
    <3> QED
      BY <1>1, <3>1, <3>3, <3>4 DEF Stands, At
  <2> QED
    BY <2>1, <2>2, <2>3
<1>3. Counts' /\ Frames' /\ Seats'
  BY <1>0, <1>1, <1>2 DEF Counts, Frames, Seats
<1> QED
  BY <1>1, <1>2, <1>3, GameShapes DEF Untouched

LEMMA RemovePlayerShapes == ASSUME Shape, RemovePlayer PROVE Shape'
<1> DEFINE c == game.conn
<1>0. Counts /\ Frames /\ Seats /\ Stands /\ arrived \subseteq Conns
  BY ShapeGives
<1>1. c \in Conns /\ c \in arrived /\ mine[c] \in Nat
  BY <1>0 DEF RemovePlayer, Stands, At, Counts
<1>2. /\ UNCHANGED <<arrived, total, queue, work, writer, fired, hungUp, late, stopped>>
      /\ seated' = seated \ {c} /\ playing' = playing \ {c}
      /\ mine' = [mine EXCEPT ![c] = 0]
      /\ game' = Stand("abandon", c, mine[c], 0) \/ game' = Stand("abandon", c, mine[c], 1)
  BY DEF RemovePlayer, Unseated
<1>3. game' \in GameStates /\ game'.at = "abandon" /\ game'.conn = c
  BY <1>1, <1>2, Sizes DEF Stand, GameStates, Standing
<1>4. mine' \in [Conns -> Nat]
  BY <1>0, <1>2 DEF Counts
<1>5. Counts' /\ Frames' /\ Seats'
  BY <1>0, <1>2, <1>3, <1>4 DEF Counts, Frames, Seats
<1>6. Stands'
  BY <1>1, <1>2, <1>3 DEF Stands, At
<1> QED
  BY <1>2, <1>5, <1>6, GameShapes DEF Untouched

LEMMA AbandonShapes == ASSUME Shape, Abandon PROVE Shape'
<1> DEFINE c == game.conn
<1>0. Counts /\ Frames /\ Seats /\ Stands /\ arrived \subseteq Conns
  BY ShapeGives
<1>1. c \in Conns /\ c \in arrived /\ c \notin seated
  BY <1>0 DEF Abandon, Stands, At
<1>2. total' \in Nat
  BY <1>0 DEF Abandon, HandedBack, Saturating, Counts, GameStates
<1>3. work' \in Seq(Sends)
  <2>1. \A S \in SUBSET Conns : [to |-> S, size |-> 1] \in Sends
    BY Sizes DEF Sends
  <2>2. playing \in SUBSET Conns /\ playing \ {c} \in SUBSET Conns /\ work \in Seq(Sends)
    BY <1>0 DEF Counts, Seats
  <2> HIDE DEF c
  <2>3. Notices(c) \in Seq(Sends)
    BY <2>1, <2>2 DEF Notices
  <2> QED
    BY <2>2, <2>3 DEF Abandon, c
<1>4. /\ UNCHANGED <<arrived, seated, playing, mine, queue, writer, hungUp, late, stopped>>
      /\ fired' = fired \cup {c} /\ game' = Idle
  BY DEF Abandon
<1>5. Counts' /\ Frames' /\ Seats'
  BY <1>0, <1>1, <1>2, <1>3, <1>4, IdleIs DEF Counts, Frames, Seats
<1>6. Stands'
  BY <1>4, IdleIs DEF Stands, At
<1> QED
  BY <1>4, <1>5, <1>6, GameShapes DEF Untouched

(* What a step of a write task has to keep: the game task is left alone. *)
WriterStates == [at : {"select", "release", "credit", "gather", "write", "ended"},
                 amount : Nat, batched : Nat]
Alone == UNCHANGED <<arrived, seated, playing, work, game, fired, hungUp, stopped>>
Tasks == writer \in [Conns -> WriterStates]
Lates == late \in [Conns -> Nat]

LEMMA WriterShapes ==
  ASSUME Shape, NEW c \in arrived, Alone, mine' \in [Conns -> Nat], total' \in Nat, Frames',
         NEW t \in WriterStates, writer' = [writer EXCEPT ![c] = t],
         t.batched < WriteBatch + MaxFrame,
         \A d \in Conns \ {c} : queue'[d] = queue[d] /\ late'[d] = late[d],
         Lates', late'[c] < WriteBatch + MaxFrame, c \notin fired => late'[c] = 0,
         late'[c] > 0 => t.at \in {"select", "ended"}
  PROVE  Shape'
<1>0. Tasks /\ c \in Conns
  BY DEF Shape, QueuesTypeOK, Tasks, WriterStates
<1>1. Tasks' /\ writer'[c] = t /\ \A d \in Conns \ {c} : writer'[d] = writer[d]
  BY <1>0 DEF Tasks
<1>2. QueuesTypeOK'
  BY <1>1 DEF Shape, QueuesTypeOK, Alone, Frames, Tasks, WriterStates, Lates
<1>3. Stands'
  BY DEF Shape, Stands, Alone, At
<1>4. Unused'
  BY <1>1 DEF Shape, Unused, Alone
<1>5. Batches'
  BY <1>1 DEF Shape, Batches, Alone
<1> QED
  BY <1>2, <1>3, <1>4, <1>5 DEF Shape

LEMMA WriterHas ==
  ASSUME Shape, NEW c \in arrived
  PROVE  /\ c \in Conns /\ Frames /\ Lates /\ mine \in [Conns -> Nat] /\ total \in Nat
         /\ writer[c] \in WriterStates /\ writer[c].amount \in Nat /\ writer[c].batched \in Nat
         /\ writer[c].batched < WriteBatch + MaxFrame /\ late[c] < WriteBatch + MaxFrame
         /\ (c \notin fired => late[c] = 0) /\ (late[c] > 0 => writer[c].at \in {"select", "ended"})
         /\ late[c] \in Nat
<1>1. c \in Conns
  BY DEF Shape, QueuesTypeOK
<1>2. Frames /\ Lates /\ mine \in [Conns -> Nat] /\ total \in Nat /\ late[c] \in Nat
  BY <1>1 DEF Shape, QueuesTypeOK, Frames, Lates
<1>3. writer[c] \in WriterStates /\ writer[c].amount \in Nat /\ writer[c].batched \in Nat
  BY <1>1 DEF Shape, QueuesTypeOK, WriterStates
<1> QED
  BY <1>1, <1>2, <1>3 DEF Shape, Batches

LEMMA TaskIs ==
  ASSUME NEW spot \in {"select", "release", "credit", "gather", "write", "ended"},
         NEW n \in Nat, NEW b \in Nat
  PROVE  /\ Task(spot, n, b) \in WriterStates
         /\ Task(spot, n, b).at = spot /\ Task(spot, n, b).amount = n /\ Task(spot, n, b).batched = b
BY DEF Task, WriterStates

LEMMA TaskShapes ==
  ASSUME Shape, NEW c \in arrived, Alone, mine' \in [Conns -> Nat], total' \in Nat,
         NEW spot \in {"select", "release", "credit", "gather", "write", "ended"},
         NEW n \in Nat, NEW b \in Nat, b < WriteBatch + MaxFrame,
         WriterGoes(c, spot, n, b), UNCHANGED <<queue, late>>,
         spot \in {"select", "ended"} \/ writer[c].at \notin {"select", "ended"}
  PROVE  Shape'
<1>1. c \in Conns /\ Frames' /\ Lates' /\ (late[c] > 0 => spot \in {"select", "ended"})
  BY WriterHas DEF Frames, Lates
<1> DEFINE t == Task(spot, n, b)
<1>2. t \in WriterStates /\ t.at = spot /\ t.batched = b /\ writer' = [writer EXCEPT ![c] = t]
  BY TaskIs DEF WriterGoes
<1>3. late'[c] < WriteBatch + MaxFrame /\ (c \notin fired => late'[c] = 0)
      /\ (late'[c] > 0 => t.at \in {"select", "ended"})
  BY <1>1, <1>2, WriterHas
<1> HIDE DEF t
<1> QED
  BY <1>1, <1>2, <1>3, WriterShapes

LEMMA PopShapes ==
  ASSUME Shape, NEW c \in arrived, Alone, UNCHANGED <<mine, total, late>>, NEW b \in Nat,
         b < WriteBatch, Pop(c, "release", b), c \notin fired \/ writer[c].at = "gather"
  PROVE  Shape'
<1> DEFINE n == Head(queue[c])
           t == Task("release", n, b + n)
<1>0. c \in Conns /\ Frames /\ Lates
  BY WriterHas
<1>1. queue[c] \in Seq(1 .. MaxFrame) /\ queue[c] # << >> /\ Len(queue[c]) <= QueueDepth
  BY <1>0 DEF Frames, Pop
<1>2. n \in 1 .. MaxFrame /\ Tail(queue[c]) \in Seq(1 .. MaxFrame)
      /\ Len(Tail(queue[c])) <= QueueDepth
  <2> DEFINE F == 1 .. MaxFrame
  <2>1. Len(queue[c]) \in Nat /\ Len(queue[c]) # 0 /\ queue[c] \in Seq(F)
    BY <1>1, EmptySeq
  <2> HIDE DEF F, n
  <2>2. Head(queue[c]) \in F /\ Tail(queue[c]) \in Seq(F) /\ Len(Tail(queue[c])) = Len(queue[c]) - 1
    BY <1>1, <2>1, HeadTailProperties
  <2> QED
    BY <1>1, <2>1, <2>2, Sizes DEF F, n
<1>3. queue' = [queue EXCEPT ![c] = Tail(@)] /\ writer' = [writer EXCEPT ![c] = t]
  BY DEF Pop, WriterGoes
<1>4. Frames' /\ \A d \in Conns \ {c} : queue'[d] = queue[d]
  BY <1>0, <1>2, <1>3 DEF Frames
<1>7. n \in Nat /\ b + n \in Nat /\ b + n < WriteBatch + MaxFrame
  BY <1>2, Sizes
<1>5. t \in WriterStates /\ t.at = "release" /\ t.batched = b + n
  <2> HIDE DEF n
  <2> QED
    BY <1>7 DEF Task, WriterStates
<1>6. late'[c] < WriteBatch + MaxFrame /\ late'[c] = 0 /\ Lates' /\ mine' \in [Conns -> Nat]
      /\ total' \in Nat
  BY WriterHas DEF Lates
<1>8. t.batched < WriteBatch + MaxFrame /\ (late'[c] > 0 => t.at \in {"select", "ended"})
      /\ (c \notin fired => late'[c] = 0) /\ (\A d \in Conns \ {c} : late'[d] = late[d])
  BY <1>5, <1>6, <1>7
<1>9. \A d \in Conns \ {c} : queue'[d] = queue[d] /\ late'[d] = late[d]
  BY <1>4, <1>8
<1>10. Frames'
  BY <1>4
<1> HIDE DEF t, n
<1> QED
  BY <1>3, <1>5, <1>6, <1>8, <1>9, <1>10, WriterShapes

LEMMA SelectShapes == ASSUME Shape, NEW c \in Conns, Select(c) PROVE Shape'
<1>0. c \in arrived /\ writer[c].at = "select" /\ Alone /\ UNCHANGED <<mine, total, late>>
  BY DEF Select, WriterAt, Alone
<1>1. CASE Pop(c, "release", 0) /\ c \notin fired
  BY <1>0, <1>1, PopShapes, Sizes
<1>2. CASE WriterGoes(c, "ended", 0, 0) /\ UNCHANGED queue
  BY <1>0, <1>2, TaskShapes, WriterHas, Sizes
<1> QED
  BY <1>1, <1>2 DEF Select, SeesClose

LEMMA ReleaseShapes == ASSUME Shape, NEW c \in Conns, Release(c) PROVE Shape'
<1> DEFINE n == Removed(c, writer[c].amount)
<1>0. c \in arrived /\ writer[c].at = "release" /\ Alone /\ UNCHANGED <<total, queue, late>>
      /\ mine' = [mine EXCEPT ![c] = @ - n] /\ WriterGoes(c, "credit", n, writer[c].batched)
  BY DEF Release, WriterAt, Alone
<1>1. n \in Nat /\ mine[c] - n \in Nat
  BY <1>0, WriterHas, RemovedIs
<1> HIDE DEF n
<1>2. mine' \in [Conns -> Nat] /\ total' \in Nat
  BY <1>0, <1>1, WriterHas
<1> QED
  BY <1>0, <1>1, <1>2, WriterHas, TaskShapes

LEMMA CreditShapes == ASSUME Shape, NEW c \in Conns, Credit(c) PROVE Shape'
<1>0. c \in arrived /\ writer[c].at = "credit" /\ Alone /\ UNCHANGED <<mine, queue, late>>
      /\ total' = Saturating(total, writer[c].amount)
      /\ WriterGoes(c, "gather", 0, writer[c].batched)
  BY DEF Credit, WriterAt, Alone
<1>1. mine' \in [Conns -> Nat] /\ total' \in Nat
  BY <1>0, WriterHas DEF Saturating
<1> QED
  BY <1>0, <1>1, WriterHas, TaskShapes

LEMMA GatherShapes == ASSUME Shape, NEW c \in Conns, Gather(c) PROVE Shape'
<1>0. c \in arrived /\ writer[c].at = "gather" /\ Alone /\ UNCHANGED <<mine, total, late>>
  BY DEF Gather, WriterAt, Alone
<1>1. CASE writer[c].batched < WriteBatch /\ Pop(c, "release", writer[c].batched)
  BY <1>0, <1>1, PopShapes, WriterHas
<1>2. CASE WriterGoes(c, "write", 0, writer[c].batched) /\ UNCHANGED queue
  BY <1>0, <1>2, TaskShapes, WriterHas
<1> QED
  BY <1>1, <1>2 DEF Gather

LEMMA WriteShapes == ASSUME Shape, NEW c \in Conns, Write(c) PROVE Shape'
<1> DEFINE t == Task("select", 0, 0)
<1>0. c \in arrived /\ writer[c].at = "write" /\ Alone /\ UNCHANGED <<mine, total, queue>>
      /\ writer' = [writer EXCEPT ![c] = t]
      /\ late' = IF c \in fired THEN [late EXCEPT ![c] = @ + writer[c].batched] ELSE late
  BY DEF Write, WriterAt, Alone, WriterGoes
<1>1. /\ c \in Conns /\ Frames /\ Lates /\ late[c] = 0 /\ writer[c].batched \in Nat
      /\ writer[c].batched < WriteBatch + MaxFrame
  BY <1>0, WriterHas
<1>2. /\ Lates' /\ (\A d \in Conns \ {c} : late'[d] = late[d])
      /\ late'[c] < WriteBatch + MaxFrame /\ (c \notin fired => late'[c] = 0)
  <2>1. CASE c \notin fired
    BY <1>0, <1>1, <2>1, Sizes DEF Lates
  <2>2. CASE c \in fired
    <3>1. late' = [late EXCEPT ![c] = @ + writer[c].batched] /\ late[c] + writer[c].batched \in Nat
      BY <1>0, <1>1, <2>2
    <3> QED
      BY <1>1, <2>2, <3>1 DEF Lates
  <2> QED
    BY <2>1, <2>2
<1>3. t \in WriterStates /\ t.at = "select" /\ t.batched = 0 /\ t.batched < WriteBatch + MaxFrame
  BY TaskIs, Sizes
<1>4. Frames' /\ mine' \in [Conns -> Nat] /\ total' \in Nat
  BY <1>0, WriterHas DEF Frames
<1> HIDE DEF t
<1> QED
  BY <1>0, <1>1, <1>2, <1>3, <1>4, WriterShapes

LEMMA EndShapes ==
  ASSUME Shape, NEW c \in Conns PROVE (WriteFails(c) => Shape') /\ (Abort(c) => Shape')
<1>1. ASSUME c \in arrived, WriterGoes(c, "ended", 0, 0), Alone, UNCHANGED <<mine, total, queue, late>>
      PROVE  Shape'
  BY <1>1, TaskShapes, WriterHas, Sizes
<1> QED
  BY <1>1 DEF WriteFails, Abort, WriterAt, Alone

LEMMA ShapeKeeps == ASSUME Shape, [QueuesNext]_queueVars PROVE Shape'
<1>1. CASE UNCHANGED queueVars
  BY <1>1 DEF queueVars, Shape, QueuesTypeOK, Stands, Unused, Batches, At
<1>2. ASSUME NEW c \in Conns, Arrive(c) \/ Enter(c) \/ Depart(c) \/ HangUp(c) \/ Stop PROVE Shape'
  BY <1>2, EntryShapes
<1>3. ASSUME NEW S \in SUBSET Conns, NEW n \in 1 .. MaxFrame, Speak(S, n) PROVE Shape'
  BY <1>3, SpeakShapes
<1>4. CASE GameStep
  BY <1>4, NextSendShapes, ChargeShapes, TrySendShapes, RefundShapes, RepayShapes, WeighShapes,
     ScanShapes, RemovePlayerShapes, AbandonShapes DEF GameStep
<1>5. ASSUME NEW c \in Conns, WriterStep(c) \/ Abort(c) PROVE Shape'
  BY <1>5, SelectShapes, ReleaseShapes, CreditShapes, GatherShapes, WriteShapes, EndShapes
     DEF WriterStep
<1>6. playing \in SUBSET Conns /\ 1 \in Conns
  BY Sizes DEF Shape, QueuesTypeOK, Conns
<1>7. CASE Stop
  BY <1>2, <1>6, <1>7
<1>8. CASE \E n \in 1 .. MaxFrame : Speak(playing, n)
  BY <1>3, <1>6, <1>8
<1>9. CASE \E c \in Conns, n \in 1 .. MaxFrame : Speak({c}, n)
  BY <1>3, <1>9
<1> QED
  BY <1>1, <1>2, <1>4, <1>5, <1>7, <1>8, <1>9 DEF QueuesNext

(* ---- the counts ----------------------------------------------------------------- *)

LEMMA Amounts ==
  ASSUME Shape
  PROVE  /\ \A c \in Conns : /\ Queued(c) \in Nat /\ Offered(c) \in Nat /\ Taken(c) \in Nat
                            /\ Debt(c) \in Nat /\ mine[c] \in Nat
                            /\ mine[c] <= SumOver(mine) /\ Debt(c) <= SumOver(Owed)
         /\ Ahead \in Nat /\ Unpaid \in Nat /\ total \in Nat
         /\ SumOver(mine) \in Nat /\ SumOver(Owed) \in Nat
<1>0. game.amount \in Nat /\ total \in Nat /\ mine \in [Conns -> Nat]
  BY DEF Shape, QueuesTypeOK
<1>1. ASSUME NEW c \in Conns PROVE Queued(c) \in Nat /\ Offered(c) \in Nat /\ Taken(c) \in Nat
                                    /\ Debt(c) \in Nat
  <2>1. queue[c] \in Seq(1 .. MaxFrame) /\ writer[c].amount \in Nat
    BY DEF Shape, QueuesTypeOK
  <2>2. queue[c] \in Seq(Nat)
    BY <2>1, Sizes
  <2> QED
    BY <1>0, <2>1, <2>2, SumOfSequence DEF Queued, Offered, Taken, Debt
<1>2. Parts(mine, Conns) /\ Parts(Owed, Conns)
  BY <1>0, <1>1, Sizes DEF Parts, Owed
<1>3. SumOver(mine) \in Nat /\ \A c \in Conns : mine[c] <= SumOver(mine)
  BY <1>2, SumAtLeast
<1>4. SumOver(Owed) \in Nat /\ \A c \in Conns : Owed[c] <= SumOver(Owed)
  BY <1>2, SumAtLeast
<1>5. Ahead \in Nat /\ Unpaid \in Nat
  BY <1>0 DEF Ahead, Unpaid
<1> QED
  BY <1>0, <1>1, <1>3, <1>4, <1>5 DEF Owed

LEMMA CountChange ==
  ASSUME Shape, Shape', NEW c \in Conns, \A d \in Conns \ {c} : mine'[d] = mine[d]
  PROVE  /\ SumOver(mine) \in Nat /\ SumOver(mine') \in Nat
         /\ mine[c] \in Nat /\ mine'[c] \in Nat
         /\ SumOver(mine') - mine'[c] = SumOver(mine) - mine[c]
<1>1. mine \in [Conns -> Nat] /\ mine' \in [Conns -> Nat]
  BY DEF Shape, QueuesTypeOK
<1>2. Parts(mine, Conns) /\ Parts(mine', Conns)
  BY <1>1, Sizes DEF Parts
<1>3. SumOver(mine') - mine'[c] = SumOver(mine) - mine[c]
  BY <1>2, SumExcept
<1> QED
  BY <1>1, <1>2, <1>3, SumAtLeast

LEMMA DebtChange ==
  ASSUME Shape, Shape', NEW c \in Conns, \A d \in Conns \ {c} : writer'[d] = writer[d]
  PROVE  /\ SumOver(Owed) \in Nat /\ SumOver(Owed') \in Nat
         /\ SumOver(Owed') - Debt(c)' = SumOver(Owed) - Debt(c)
<1>1. (\A d \in Conns : Debt(d) \in Nat) /\ SumOver(Owed) \in Nat
  BY Amounts
<1>2. (\A d \in Conns : Debt(d)' \in Nat) /\ SumOver(Owed') \in Nat
  <2>1. \A d \in Conns : writer'[d].amount \in Nat
    BY DEF Shape, QueuesTypeOK
  <2>2. \A d \in Conns : Debt(d)' \in Nat
    BY <2>1 DEF Debt
  <2>3. Parts(Owed', Conns)
    BY <2>2, Sizes DEF Parts, Owed
  <2> QED
    BY <2>2, <2>3, SumAtLeast
<1>3. \A d \in Conns \ {c} : Owed'[d] = Owed[d]
  BY DEF Owed, Debt
<1>4. Parts(Owed, Conns) /\ Parts(Owed', Conns)
  BY <1>1, <1>2, Sizes DEF Parts, Owed
<1>5. SumOver(Owed') - Owed'[c] = SumOver(Owed) - Owed[c]
  BY <1>3, <1>4, SumExcept
<1> QED
  BY <1>1, <1>2, <1>5 DEF Owed

(* What is charged is never less than what is in flight to a player. *)
LEMMA Covered ==
  ASSUME Shape, Charged, NEW c \in seated
  PROVE  /\ c \in Conns /\ mine[c] = Queued(c) + Offered(c) + Taken(c)
         /\ Offered(c) <= mine[c] /\ Taken(c) <= mine[c]
<1>1. c \in Conns
  BY DEF Shape, QueuesTypeOK
<1>2. Queued(c) \in Nat /\ Offered(c) \in Nat /\ Taken(c) \in Nat
  BY <1>1, Amounts
<1>3. mine[c] = Queued(c) + Offered(c) + Taken(c)
  BY <1>1 DEF Charged, Held
<1> QED
  BY <1>1, <1>2, <1>3

(* The total covers all of what is to be taken off it. *)
LEMMA Enough ==
  ASSUME Shape, Charged, Books
  PROVE  SumOver(Owed) + Unpaid <= total
<1>0. /\ Ahead \in Nat /\ Unpaid \in Nat /\ total \in Nat
      /\ SumOver(mine) \in Nat /\ SumOver(Owed) \in Nat
  BY Amounts
<1>1. Ahead <= SumOver(mine)
  <2>1. CASE At("charged")
    <3>1. game.conn \in seated
      BY <2>1 DEF Shape, Stands, At
    <3>2. game.conn \in Conns /\ Offered(game.conn) <= mine[game.conn]
      BY <3>1, Covered
    <3>3. Offered(game.conn) = Ahead
      BY <2>1 DEF Offered, Sending, Ahead, At
    <3>4. mine[game.conn] <= SumOver(mine) /\ mine[game.conn] \in Nat
      BY <3>2, Amounts
    <3> QED
      BY <1>0, <3>2, <3>3, <3>4
  <2>2. CASE ~At("charged")
    BY <1>0, <2>2 DEF Ahead
  <2> QED
    BY <2>1, <2>2
<1> QED
  BY <1>0, <1>1 DEF Books

LEMMA Saturates ==
  ASSUME NEW m \in Nat, NEW n \in Nat
  PROVE  n <= m => Saturating(m, n) = m - n
BY DEF Saturating

(* ---- what leaves the counts alone ------------------------------------------------ *)

LEMMA LedgerStays ==
  ASSUME Ledger, UNCHANGED <<mine, total, queue, game, seated>>,
         \A c \in Conns : Taken(c)' = Taken(c) /\ Debt(c)' = Debt(c)
  PROVE  Ledger'
<1>1. \A c \in Conns : Held(c)' = Held(c)
  BY DEF Held, Queued, Offered, Sending
<1>2. Charged'
  BY <1>1 DEF Ledger, Charged
<1>3. Owed' = Owed
  BY DEF Owed
<1>4. Books'
  BY <1>3 DEF Ledger, Books, Ahead, Unpaid, At
<1>5. Room'
  BY DEF Ledger, Room, Best, At
<1> QED
  BY <1>2, <1>4, <1>5 DEF Ledger

LEMMA EntryLedgers ==
  ASSUME QInv, Shape', NEW c \in Conns
  PROVE  /\ Arrive(c) => Ledger'
         /\ Enter(c) => Ledger'
         /\ Depart(c) => Ledger'
         /\ HangUp(c) => Ledger'
         /\ Stop => Ledger'
<1> USE DEF QInv
<1>1. ASSUME UNCHANGED <<mine, total, queue, game, seated, writer>> PROVE Ledger'
  BY <1>1, LedgerStays DEF Taken, Debt
<1>2. ASSUME Arrive(c) PROVE Ledger'
  <2>1. /\ UNCHANGED <<mine, total, queue, game, writer>> /\ seated' = seated \cup {c}
        /\ c \notin arrived /\ At("idle") /\ c \notin seated
    BY <1>2 DEF Arrive, Ready, At, Idle, Stand, Shape, QueuesTypeOK
  <2>2. Held(c) = 0
    <3>1. queue[c] = << >> /\ writer[c].at = "select"
      BY <2>1 DEF Shape, Unused
    <3> QED
      BY <2>1, <3>1, SumOfSequence DEF Held, Queued, Offered, Sending, Taken, At
  <2>3. \A d \in Conns : Held(d)' = Held(d)
    BY <2>1 DEF Held, Queued, Offered, Sending, Taken
  <2>4. Charged'
    BY <2>1, <2>2, <2>3 DEF Ledger, Charged
  <2>5. Books' /\ Room'
    BY <2>1 DEF Ledger, Books, Ahead, Unpaid, Owed, Debt, Room, At
  <2> QED
    BY <2>4, <2>5 DEF Ledger
<1>3. ASSUME Depart(c) PROVE Ledger'
  <2>1. /\ UNCHANGED <<mine, total, queue, seated, writer>> /\ game = Idle
        /\ game' = Stand("remove", c, 0, 0)
    BY <1>3 DEF Depart, Ready
  <2>2. At("idle") /\ game'.at = "remove" /\ game'.conn = c
    BY <2>1 DEF At, Idle, Stand
  <2>3. \A d \in Conns : Held(d)' = Held(d)
    BY <2>1, <2>2 DEF Held, Queued, Offered, Sending, Taken, At
  <2>4. Charged' /\ Books'
    BY <2>1, <2>2, <2>3 DEF Ledger, Charged, Books, Ahead, Unpaid, Owed, Debt, At
  <2>5. SumOver(mine) <= Budget /\ SumOver(mine) \in Nat /\ mine[c] \in Nat
    BY <2>2, Amounts DEF Ledger, Room
  <2>6. Room'
    BY <2>1, <2>2, <2>5, Sizes DEF Room, At
  <2> QED
    BY <2>4, <2>6 DEF Ledger
<1> QED
  BY <1>1, <1>2, <1>3 DEF Enter, HangUp, Stop

LEMMA SpeakLedgers ==
  ASSUME QInv, NEW S, NEW n, Speak(S, n)
  PROVE  Ledger'
BY LedgerStays DEF QInv, Speak, Taken, Debt

(* ---- the game task keeps the counts ------------------------------------------------ *)

LEMMA NextSendLedgers == ASSUME QInv, Shape', NextSend PROVE Ledger'
<1> DEFINE send == Head(work)
           c == Least(send.to)
           n == send.size
<1>1. UNCHANGED <<total, queue, seated, writer>> /\ At("idle")
  BY DEF NextSend
<1>2. CASE UNCHANGED <<mine, game>>
  BY <1>1, <1>2, LedgerStays DEF QInv, Taken, Debt
<1>3. CASE c \in seated /\ mine' = [mine EXCEPT ![c] = @ + n] /\ game' = Stand("charged", c, n, 0)
  <2>1. game'.at = "charged" /\ game'.conn = c /\ game'.amount = n /\ n \in Nat
    <3>1. game'.amount \in Nat
      BY DEF Shape, QueuesTypeOK
    <3> QED
      BY <1>3, <3>1 DEF Stand
  <2>2. c \in Conns /\ mine \in [Conns -> Nat]
    BY <1>3 DEF QInv, Shape, QueuesTypeOK
  <2> HIDE DEF c, n
  <2>3. mine'[c] = mine[c] + n /\ \A d \in Conns \ {c} : mine'[d] = mine[d]
    BY <1>3, <2>1, <2>2
  <2>4. /\ SumOver(mine) \in Nat /\ SumOver(mine') \in Nat /\ mine[c] \in Nat
        /\ SumOver(mine') - mine'[c] = SumOver(mine) - mine[c]
    BY <2>2, <2>3, CountChange DEF QInv
  <2>5. Charged'
    <3>1. \A d \in Conns : Queued(d)' = Queued(d) /\ Taken(d)' = Taken(d) /\ Offered(d) = 0
                           /\ Offered(d)' = IF d = c THEN n ELSE 0
      BY <1>1, <2>1 DEF Queued, Taken, Offered, Sending, At
    <3>2. \A d \in Conns : Queued(d) \in Nat /\ Taken(d) \in Nat
      BY Amounts DEF QInv
    <3>3. \A d \in Conns : Held(d)' = IF d = c THEN Held(d) + n ELSE Held(d)
      BY <2>1, <3>1, <3>2 DEF Held
    <3> QED
      BY <1>1, <1>3, <2>3, <3>3 DEF QInv, Ledger, Charged
  <2>6. Books'
    <3>1. Ahead = 0 /\ Ahead' = n /\ Unpaid = 0 /\ Unpaid' = 0 /\ Owed' = Owed
      BY <1>1, <2>1 DEF Ahead, Unpaid, At, Owed, Debt
    <3>2. total \in Nat /\ SumOver(Owed) \in Nat
      BY Amounts DEF QInv
    <3> QED
      BY <1>1, <2>1, <2>3, <2>4, <3>1, <3>2 DEF QInv, Ledger, Books
  <2>7. Room'
    BY <1>1, <2>1, <2>4, Sizes DEF QInv, Ledger, Room, At
  <2> QED
    BY <2>5, <2>6, <2>7 DEF Ledger
<1> QED
  BY <1>2, <1>3 DEF NextSend

LEMMA ChargeLedgers == ASSUME QInv, Shape', Charge PROVE Ledger'
<1>1. /\ UNCHANGED <<mine, queue, seated, writer>> /\ At("charged") /\ total' = total + game.amount
      /\ game' = [game EXCEPT !.at = "reserved"]
  BY DEF Charge
<1>2. game'.at = "reserved" /\ game'.conn = game.conn /\ game'.amount = game.amount
      /\ game.amount \in Nat
  BY <1>1 DEF QInv, Shape, QueuesTypeOK
<1>3. \A d \in Conns : Held(d)' = Held(d)
  BY <1>1, <1>2 DEF Held, Queued, Taken, Offered, Sending, At
<1>4. Charged'
  BY <1>1, <1>3 DEF QInv, Ledger, Charged
<1>5. Books'
  <2>1. Ahead = game.amount /\ Ahead' = 0 /\ Unpaid = 0 /\ Unpaid' = 0 /\ Owed' = Owed
    BY <1>1, <1>2 DEF Ahead, Unpaid, At, Owed, Debt
  <2>2. total \in Nat
    BY Amounts DEF QInv
  <2> QED
    BY <1>1, <1>2, <2>1, <2>2 DEF QInv, Ledger, Books
<1>6. Room'
  BY <1>1, <1>2 DEF QInv, Ledger, Room, At
<1> QED
  BY <1>4, <1>5, <1>6 DEF Ledger

LEMMA TrySendLedgers == ASSUME QInv, Shape', TrySend PROVE Ledger'
<1>1. UNCHANGED <<mine, total, seated, writer>> /\ At("reserved")
  BY DEF TrySend
<1>0. game.conn \in seated /\ game.amount \in 1 .. MaxFrame
  BY <1>1 DEF QInv, Shape, Stands, At
<1>2. PICK c \in Conns, n \in Nat : c = game.conn /\ n = game.amount
  BY <1>0, Sizes DEF QInv, Shape, QueuesTypeOK
<1>3. game'.at \in {"weigh", "refund"} /\ game'.conn = c /\ game'.amount = n
      /\ \/ queue' = [queue EXCEPT ![c] = Append(@, n)] /\ game'.at = "weigh"
         \/ queue' = queue /\ game'.at = "refund"
  BY <1>2, ShapeGives DEF TrySend, QInv, Counts, GameStates
<1>4. \A d \in Conns : Held(d)' = Held(d)
  <2>1. CASE queue' = [queue EXCEPT ![c] = Append(@, n)] /\ game'.at = "weigh"
    <3>1. queue \in [Conns -> Seq(1 .. MaxFrame)]
      BY DEF QInv, Shape, QueuesTypeOK
    <3>2. queue'[c] = Append(queue[c], n) /\ \A d \in Conns \ {c} : queue'[d] = queue[d]
      BY <2>1, <3>1
    <3>3. queue[c] \in Seq(Nat)
      BY <3>1, Sizes
    <3>4. Queued(c)' = Queued(c) + n
      BY <3>2, <3>3, SumOfAppended DEF Queued
    <3>5. \A d \in Conns \ {c} : Queued(d)' = Queued(d)
      BY <3>2 DEF Queued
    <3>6. /\ Offered(c) = n /\ Offered(c)' = 0
          /\ \A d \in Conns \ {c} : Offered(d) = 0 /\ Offered(d)' = 0
      BY <1>1, <1>2, <1>3, <2>1 DEF Offered, Sending, At
    <3>7. \A d \in Conns : Taken(d)' = Taken(d) /\ Taken(d) \in Nat /\ Queued(d) \in Nat
      BY <1>1, Amounts DEF Taken, QInv
    <3>8. Held(c)' = Held(c)
      <4>1. Queued(c) \in Nat /\ Taken(c) \in Nat /\ Taken(c)' = Taken(c)
        BY <3>7
      <4> QED
        BY <3>4, <3>6, <4>1 DEF Held
    <3>9. \A d \in Conns \ {c} : Held(d)' = Held(d)
      BY <3>5, <3>6, <3>7 DEF Held
    <3> QED
      BY <3>8, <3>9
  <2>2. CASE queue' = queue /\ game'.at = "refund"
    BY <1>1, <1>2, <1>3, <2>2 DEF Held, Queued, Taken, Offered, Sending, At
  <2> QED
    BY <1>3, <2>1, <2>2
<1>5. Charged'
  BY <1>1, <1>4 DEF QInv, Ledger, Charged
<1>6. Books'
  <2>1. Ahead = 0 /\ Ahead' = 0 /\ Unpaid = 0 /\ Unpaid' = 0 /\ Owed' = Owed
    BY <1>1, <1>3 DEF Ahead, Unpaid, At, Owed, Debt
  <2> QED
    BY <1>1, <2>1 DEF QInv, Ledger, Books
<1>7. Room'
  BY <1>1, <1>2, <1>3 DEF QInv, Ledger, Room, At
<1> QED
  BY <1>5, <1>6, <1>7 DEF Ledger

LEMMA RefundLedgers == ASSUME QInv, Shape', Refund PROVE Ledger'
<1>1. UNCHANGED <<total, queue, seated, writer>> /\ At("refund")
  BY DEF Refund
<1>0. game.conn \in seated /\ game.amount \in Nat
  BY <1>1 DEF QInv, Shape, Stands, At, QueuesTypeOK
<1>2. PICK c \in Conns, n \in Nat : c = game.conn /\ n = game.amount
  BY <1>0 DEF QInv, Shape, QueuesTypeOK
<1>3. /\ Offered(c) = n /\ n <= mine[c] /\ mine[c] \in Nat /\ Removed(c, n) = n
      /\ mine \in [Conns -> Nat] /\ c \in seated
  <2>1. Offered(c) = n
    BY <1>1, <1>2 DEF Offered, Sending, At
  <2>2. n <= mine[c]
    BY <1>0, <1>2, <2>1, Covered DEF QInv, Ledger
  <2> QED
    BY <1>0, <1>2, <2>1, <2>2, RemovedIs DEF QInv, Shape, QueuesTypeOK
<1>4. mine'[c] = mine[c] - n /\ (\A d \in Conns \ {c} : mine'[d] = mine[d])
  BY <1>2, <1>3 DEF Refund
<1>5. game'.at = "repay" /\ game'.conn = c /\ game'.amount = n
  BY <1>2, <1>3 DEF Refund, Stand
<1>6. /\ SumOver(mine) \in Nat /\ SumOver(mine') \in Nat
      /\ SumOver(mine') - mine'[c] = SumOver(mine) - mine[c]
  BY <1>4, CountChange DEF QInv
<1>7. Charged'
  <2>1. \A d \in Conns : /\ Queued(d)' = Queued(d) /\ Taken(d)' = Taken(d)
                         /\ Queued(d) \in Nat /\ Taken(d) \in Nat
                         /\ Offered(d)' = 0 /\ (d # c => Offered(d) = 0)
    <3>1. \A d \in Conns : Queued(d) \in Nat /\ Taken(d) \in Nat
      BY Amounts DEF QInv
    <3>2. \A d \in Conns : /\ Queued(d)' = Queued(d) /\ Taken(d)' = Taken(d)
                           /\ Offered(d)' = 0 /\ (d # c => Offered(d) = 0)
      BY <1>1, <1>2, <1>5 DEF Queued, Taken, Offered, Sending
    <3> QED
      BY <3>1, <3>2
  <2>2. Held(c)' = Held(c) - n
    BY <1>3, <2>1 DEF Held
  <2>3. \A d \in Conns \ {c} : Held(d)' = Held(d)
    BY <2>1 DEF Held
  <2> QED
    BY <1>1, <1>3, <1>4, <2>2, <2>3 DEF QInv, Ledger, Charged
<1>8. Books'
  <2>1. Ahead = 0 /\ Ahead' = 0 /\ Unpaid = 0 /\ Unpaid' = n /\ Owed' = Owed
    BY <1>1, <1>5 DEF Ahead, Unpaid, At, Owed, Debt
  <2>2. total \in Nat /\ SumOver(Owed) \in Nat
    BY Amounts DEF QInv
  <2> QED
    BY <1>1, <1>3, <1>4, <1>6, <2>1, <2>2 DEF QInv, Ledger, Books
<1>9. Room'
  <2>1. SumOver(mine) - mine[c] <= Budget
    BY <1>1, <1>2 DEF QInv, Ledger, Room, At
  <2> QED
    BY <1>5, <1>6, <2>1 DEF Room, At
<1> QED
  BY <1>7, <1>8, <1>9 DEF Ledger

LEMMA RepayLedgers == ASSUME QInv, Shape', Repay PROVE Ledger'
<1>1. UNCHANGED <<mine, queue, seated, writer>> /\ At("repay")
  BY DEF Repay
<1>2. PICK n \in Nat : n = game.amount
  BY DEF QInv, Shape, QueuesTypeOK
<1>3. game'.at = "remove" /\ game'.conn = game.conn /\ game'.amount = 0
  BY DEF Repay, Stand
<1>4. Charged'
  <2>1. \A d \in Conns : Held(d)' = Held(d)
    BY <1>1, <1>3 DEF Held, Queued, Taken, Offered, Sending, At
  <2> QED
    BY <1>1, <2>1 DEF QInv, Ledger, Charged
<1>5. Books'
  <2>1. Ahead = 0 /\ Ahead' = 0 /\ Unpaid = n /\ Unpaid' = 0 /\ Owed' = Owed
    BY <1>1, <1>2, <1>3 DEF Ahead, Unpaid, At, Owed, Debt
  <2>2. total \in Nat /\ SumOver(mine) \in Nat /\ SumOver(Owed) \in Nat
    BY Amounts DEF QInv
  <2>3. n <= total
    BY <2>1, <2>2, Enough DEF QInv, Ledger
  <2>4. total' = total - n
    BY <1>2, <2>2, <2>3, Saturates DEF Repay
  <2> QED
    BY <1>1, <2>1, <2>2, <2>4 DEF QInv, Ledger, Books
<1>6. Room'
  BY <1>1, <1>3 DEF QInv, Ledger, Room, At
<1> QED
  BY <1>4, <1>5, <1>6 DEF Ledger

LEMMA WeighLedgers == ASSUME QInv, Shape', Weigh PROVE Ledger'
<1>1. UNCHANGED <<mine, total, queue, seated, writer>> /\ At("weigh")
  BY DEF Weigh
<1>0. game.conn \in seated
  BY <1>1 DEF QInv, Shape, Stands, At
<1>2. PICK c \in Conns : c = game.conn /\ c \in seated
  BY <1>0 DEF QInv, Shape, QueuesTypeOK
<1>3. \/ total > Budget /\ game'.at = "scan" /\ game'.conn = 0 /\ game'.next = 1
      \/ ~(total > Budget) /\ game'.at = "idle"
  BY DEF Weigh, Stand, Idle, OverBudget
<1>4. Charged'
  <2>1. \A d \in Conns : Held(d)' = Held(d)
    BY <1>1, <1>3 DEF Held, Queued, Taken, Offered, Sending, At
  <2> QED
    BY <1>1, <2>1 DEF QInv, Ledger, Charged
<1>5. Ahead = 0 /\ Ahead' = 0 /\ Unpaid = 0 /\ Unpaid' = 0 /\ Owed' = Owed
  BY <1>1, <1>3 DEF Ahead, Unpaid, At, Owed, Debt
<1>6. Books'
  BY <1>1, <1>5 DEF QInv, Ledger, Books
<1>7. Room'
  <2>1. CASE total > Budget /\ game'.at = "scan" /\ game'.conn = 0 /\ game'.next = 1
    <3>1. SumOver(mine) - mine[c] <= Budget
      BY <1>1, <1>2 DEF QInv, Ledger, Room, At
    <3>2. ~(c < 1)
      BY Sizes DEF Conns
    <3>3. Best(c)'
      BY <1>1, <2>1, <3>1, <3>2 DEF Best
    <3> QED
      BY <1>1, <1>2, <2>1, <3>3 DEF Room, At
  <2>2. CASE ~(total > Budget) /\ game'.at = "idle"
    <3>1. SumOver(mine) <= Budget
      <4>1. total \in Nat /\ SumOver(mine) \in Nat /\ SumOver(Owed) \in Nat
        BY Amounts DEF QInv
      <4> QED
        BY <1>5, <2>2, <4>1, Sizes DEF QInv, Ledger, Books
    <3> QED
      BY <1>1, <2>2, <3>1 DEF Room, At
  <2> QED
    BY <1>3, <2>1, <2>2
<1> QED
  BY <1>4, <1>6, <1>7 DEF Ledger

LEMMA ScanLedgers == ASSUME QInv, Shape', Scan PROVE Ledger'
<1>1. UNCHANGED <<mine, total, queue, seated, writer>> /\ At("scan")
  BY DEF Scan
<1>2. game'.at \in {"idle", "scan", "remove"}
  BY ShapeGives DEF Scan, Idle, Stand, At, QInv, Counts, GameStates
<1>3. Charged'
  <2>1. \A d \in Conns : Held(d)' = Held(d)
    BY <1>1, <1>2 DEF Held, Queued, Taken, Offered, Sending, At
  <2> QED
    BY <1>1, <2>1 DEF QInv, Ledger, Charged
<1>4. Books'
  <2>1. Ahead = 0 /\ Ahead' = 0 /\ Unpaid = 0 /\ Unpaid' = 0 /\ Owed' = Owed
    BY <1>1, <1>2 DEF Ahead, Unpaid, At, Owed, Debt
  <2> QED
    BY <1>1, <2>1 DEF QInv, Ledger, Books
<1>5. Room'
  <2>0. PICK b \in seated : Best(b)
    BY <1>1 DEF QInv, Ledger, Room
  <2>1. b \in Conns /\ b \in Nat /\ b <= Connections /\ mine[b] \in Nat /\ SumOver(mine) \in Nat
    <3>1. b \in Conns
      BY DEF QInv, Shape, QueuesTypeOK
    <3>2. b \in Nat /\ b <= Connections
      BY <3>1, Sizes DEF Conns
    <3> QED
      BY <3>1, <3>2, Amounts DEF QInv
  <2>2. PICK c \in Nat, k \in Nat, n \in Nat : c = game.next /\ k = game.conn /\ n = game.amount
    <3>1. game \in GameStates
      BY ShapeGives DEF QInv, Counts
    <3>2. game.next \in 0 .. Connections + 1 /\ game.conn \in Conns \cup {0} /\ game.amount \in Nat
      BY <3>1 DEF GameStates
    <3>3. game.next \in Nat
      BY <3>2
    <3>4. game.conn \in Nat
      BY <3>2 DEF Conns
    <3> QED
      BY <3>2, <3>3, <3>4
  <2>3. c # 0 /\ (k # 0 => k \in Conns /\ mine[k] \in Nat)
    BY <1>1, <2>2, Amounts DEF QInv, Shape, Stands, QueuesTypeOK
  <2>4. /\ SumOver(mine) - mine[b] <= Budget
        /\ k \notin {0, b} => SumOver(mine) - mine[b] - mine[k] + n <= Budget
        /\ b < c => k # 0 /\ mine[b] <= n
    BY <2>0, <2>2 DEF Best
  <2>5. CASE c \notin Conns
    <3>1. b < c
      BY <2>1, <2>3, <2>5, Sizes DEF Conns
    <3>2. game'.at = "remove" /\ game'.conn = k
      BY <2>2, <2>4, <2>5, <3>1, ShapeGives DEF Scan, QInv, Counts, GameStates
    <3>3. SumOver(mine) - mine[k] <= Budget
      <4>1. CASE k = b
        BY <2>4, <4>1
      <4>2. CASE k # b
        BY <2>1, <2>2, <2>3, <2>4, <3>1, <4>2, Sizes
      <4> QED
        BY <4>1, <4>2
    <3> QED
      BY <1>1, <3>2, <3>3 DEF Room, At
  <2>6. CASE c \in Conns /\ c \in seated /\ (k = 0 \/ mine[c] >= n)
    <3>1. game'.at = "scan" /\ game'.conn = c /\ game'.amount = mine[c] /\ game'.next = c + 1
      BY <2>2, <2>6 DEF Scan, Deeper, Stand
    <3>2. mine[c] \in Nat
      BY <2>6, Amounts DEF QInv
    <3>3. c \notin {0, b} => SumOver(mine) - mine[b] - mine[c] + mine[c] <= Budget
      BY <2>1, <2>4, <3>2, Sizes
    <3>4. b < c + 1 => c # 0 /\ mine[b] <= mine[c]
      <4>1. CASE b = c
        BY <2>1, <2>3, <4>1
      <4>2. CASE b # c
        BY <2>1, <2>2, <2>3, <2>4, <2>6, <3>2, <4>2
      <4> QED
        BY <4>1, <4>2
    <3>5. Best(b)'
      BY <1>1, <2>4, <3>1, <3>3, <3>4 DEF Best
    <3> QED
      BY <1>1, <3>1, <3>5 DEF Room, At
  <2>7. CASE c \in Conns /\ ~(c \in seated /\ (k = 0 \/ mine[c] >= n))
    <3>1. game' = [game EXCEPT !.next = c + 1]
      BY <2>2, <2>7 DEF Scan, Deeper
    <3>2. game'.at = "scan" /\ game'.conn = k /\ game'.amount = n /\ game'.next = c + 1
      BY <1>1, <2>2, <3>1, ShapeGives DEF QInv, Counts, GameStates, At
    <3>3. b < c + 1 => k # 0 /\ mine[b] <= n
      <4>1. CASE b = c
        BY <2>1, <2>2, <2>7, <4>1
      <4>2. CASE b # c
        BY <2>1, <2>2, <2>4, <4>2
      <4> QED
        BY <4>1, <4>2
    <3>4. Best(b)'
      BY <1>1, <2>4, <3>2, <3>3 DEF Best
    <3> QED
      BY <1>1, <3>2, <3>4 DEF Room, At
  <2> QED
    BY <2>5, <2>6, <2>7
<1> QED
  BY <1>3, <1>4, <1>5 DEF Ledger

LEMMA RemovePlayerLedgers == ASSUME QInv, Shape', RemovePlayer PROVE Ledger'
<1>1. UNCHANGED <<total, queue, writer>> /\ At("remove")
  BY DEF RemovePlayer
<1>2. PICK c \in Conns : c = game.conn
  BY <1>1, ShapeGives DEF QInv, Stands, At
<1>3. PICK n \in Nat : n = mine[c]
  BY Amounts DEF QInv
<1>4. game'.at = "abandon" /\ game'.conn = c /\ game'.amount = n /\ seated' = seated \ {c}
  BY <1>2, <1>3 DEF RemovePlayer, Stand, Unseated
<1>5. mine'[c] = 0 /\ \A d \in Conns \ {c} : mine'[d] = mine[d]
  BY <1>2 DEF RemovePlayer, QInv, Shape, QueuesTypeOK
<1>6. /\ SumOver(mine) \in Nat /\ SumOver(mine') \in Nat
      /\ SumOver(mine') - mine'[c] = SumOver(mine) - mine[c]
  BY <1>5, CountChange DEF QInv
<1>7. Charged'
  <2>1. \A d \in Conns : Held(d)' = Held(d)
    BY <1>1, <1>4 DEF Held, Queued, Taken, Offered, Sending, At
  <2> QED
    BY <1>4, <1>5, <2>1 DEF QInv, Ledger, Charged
<1>8. Books'
  <2>1. Ahead = 0 /\ Ahead' = 0 /\ Unpaid = 0 /\ Unpaid' = n /\ Owed' = Owed
    BY <1>1, <1>4 DEF Ahead, Unpaid, At, Owed, Debt
  <2>2. total \in Nat /\ SumOver(Owed) \in Nat
    BY Amounts DEF QInv
  <2> QED
    BY <1>1, <1>3, <1>5, <1>6, <2>1, <2>2 DEF QInv, Ledger, Books
<1>9. Room'
  <2>1. SumOver(mine) - mine[c] <= Budget
    BY <1>1, <1>2 DEF QInv, Ledger, Room, At
  <2>2. SumOver(mine') <= Budget
    BY <1>3, <1>5, <1>6, <2>1, Sizes
  <2> QED
    BY <1>4, <2>2 DEF Room, At
<1> QED
  BY <1>7, <1>8, <1>9 DEF Ledger

LEMMA AbandonLedgers == ASSUME QInv, Shape', Abandon PROVE Ledger'
<1>1. UNCHANGED <<mine, queue, seated, writer>> /\ At("abandon")
  BY DEF Abandon
<1>2. PICK n \in Nat : n = game.amount
  BY DEF QInv, Shape, QueuesTypeOK
<1>3. game'.at = "idle"
  BY DEF Abandon, Idle, Stand
<1>4. Charged'
  <2>1. \A d \in Conns : Held(d)' = Held(d)
    BY <1>1, <1>3 DEF Held, Queued, Taken, Offered, Sending, At
  <2> QED
    BY <1>1, <2>1 DEF QInv, Ledger, Charged
<1>5. Books'
  <2>1. Ahead = 0 /\ Ahead' = 0 /\ Unpaid = n /\ Unpaid' = 0 /\ Owed' = Owed
    BY <1>1, <1>2, <1>3 DEF Ahead, Unpaid, At, Owed, Debt
  <2>2. total \in Nat /\ SumOver(mine) \in Nat /\ SumOver(Owed) \in Nat
    BY Amounts DEF QInv
  <2>3. n <= total
    BY <2>1, <2>2, Enough DEF QInv, Ledger
  <2>4. total' = total - n
    BY <1>2, <2>2, <2>3, Saturates DEF Abandon, HandedBack
  <2> QED
    BY <1>1, <2>1, <2>2, <2>4 DEF QInv, Ledger, Books
<1>6. Room'
  BY <1>1, <1>3 DEF QInv, Ledger, Room, At
<1> QED
  BY <1>4, <1>5, <1>6 DEF Ledger

(* ---- the write tasks keep them ------------------------------------------------------ *)

LEMMA WriterLedgers ==
  ASSUME QInv, NEW c \in Conns, Alone, UNCHANGED <<mine, total, queue>>,
         writer[c].at \notin {"release", "credit"},
         NEW spot \in {"select", "gather", "write", "ended"}, NEW n, NEW b, WriterGoes(c, spot, n, b)
  PROVE  Ledger'
<1>0. writer'[c].at = spot /\ \A d \in Conns \ {c} : writer'[d] = writer[d]
  BY DEF WriterGoes, Task, QInv, Shape, QueuesTypeOK
<1>1. \A d \in Conns : Taken(d)' = Taken(d) /\ Debt(d)' = Debt(d)
  BY <1>0 DEF Taken, Debt
<1> QED
  BY <1>1, LedgerStays DEF QInv, Alone

LEMMA PopLedgers ==
  ASSUME QInv, NEW c \in Conns, Alone, UNCHANGED <<mine, total>>,
         writer[c].at \notin {"release", "credit"}, NEW b, Pop(c, "release", b)
  PROVE  Ledger'
<1> DEFINE n == Head(queue[c])
<1>1. queue \in [Conns -> Seq(1 .. MaxFrame)] /\ queue[c] # << >>
  BY DEF QInv, Shape, QueuesTypeOK, Pop
<1>2. queue[c] \in Seq(Nat)
  BY <1>1, Sizes
<1>3. queue'[c] = Tail(queue[c]) /\ \A d \in Conns \ {c} : queue'[d] = queue[d]
  BY <1>1 DEF Pop
<1>4. writer'[c].at = "release" /\ writer'[c].amount = n /\ \A d \in Conns \ {c} : writer'[d] = writer[d]
  BY DEF Pop, WriterGoes, Task, QInv, Shape, QueuesTypeOK
<1>5. n \in Nat
  BY <1>1, <1>2
<1>6. SumOver(queue[c]) = n + SumOver(Tail(queue[c])) /\ SumOver(Tail(queue[c])) \in Nat
  BY <1>1, <1>2, SumOfTail
<1> HIDE DEF n
<1>7. \A d \in Conns : Debt(d)' = Debt(d)
  BY <1>4 DEF Debt
<1>8. \A d \in Conns : Held(d)' = Held(d)
  <2>1. \A d \in Conns : Offered(d)' = Offered(d) /\ Offered(d) \in Nat
    BY Amounts DEF Alone, Offered, Sending, QInv
  <2>2. Taken(c) = 0 /\ Taken(c)' = n /\ \A d \in Conns \ {c} : Taken(d)' = Taken(d)
    BY <1>4 DEF Taken
  <2>3. Queued(c) = n + Queued(c)' /\ Queued(c)' \in Nat
    BY <1>3, <1>6 DEF Queued
  <2>4. \A d \in Conns \ {c} : Queued(d)' = Queued(d)
    BY <1>3 DEF Queued
  <2>5. Held(c)' = Held(c)
    <3>1. Offered(c)' = Offered(c) /\ Offered(c) \in Nat
      BY <2>1
    <3> QED
      BY <1>5, <2>2, <2>3, <3>1 DEF Held
  <2> QED
    BY <2>1, <2>2, <2>4, <2>5 DEF Held
<1>9. Charged'
  BY <1>8 DEF QInv, Ledger, Charged, Alone
<1>10. Books' /\ Room'
  BY <1>7 DEF QInv, Ledger, Books, Ahead, Unpaid, Owed, Room, Best, At, Alone
<1> QED
  BY <1>9, <1>10 DEF Ledger

(* A queue that gets shorter leaves as much room. *)
LEMMA RoomShrinks ==
  ASSUME QInv, Shape', UNCHANGED <<game, seated>>, NEW c \in Conns, NEW n \in Nat,
         mine'[c] = mine[c] - n, \A d \in Conns \ {c} : mine'[d] = mine[d]
  PROVE  Room'
<1>1. /\ SumOver(mine) \in Nat /\ SumOver(mine') \in Nat /\ SumOver(mine') = SumOver(mine) - n
      /\ mine[c] \in Nat
  BY CountChange DEF QInv
<1>2. \A d \in Conns : mine[d] \in Nat /\ (mine'[d] = mine[d] \/ mine'[d] = mine[d] - n)
  BY Amounts DEF QInv
<1>3. ASSUME NEW d \in Conns, SumOver(mine) - mine[d] <= Budget
      PROVE  SumOver(mine') - mine'[d] <= Budget
  BY <1>1, <1>2, <1>3, Sizes
<1>4. At("idle") \/ At("abandon") => SumOver(mine') <= Budget
  BY <1>1, Sizes DEF QInv, Ledger, Room
<1>5. ~At("idle") /\ ~At("abandon") /\ ~At("scan") => SumOver(mine') - mine'[game.conn] <= Budget
  <2>1. ~At("idle") /\ ~At("scan") => game.conn \in Conns
    BY ShapeGives DEF QInv, Stands
  <2> QED
    BY <1>3, <2>1 DEF QInv, Ledger, Room
<1>6. ASSUME At("scan") PROVE \E b \in seated : Best(b)'
  <2>1. PICK b \in seated : Best(b)
    BY <1>6 DEF QInv, Ledger, Room
  <2>2. PICK k : k = game.conn
    OBVIOUS
  <2>3. b \in Conns /\ (k # 0 => k \in Conns) /\ game.amount \in Nat
    BY <1>6, <2>2 DEF QInv, Shape, Stands, QueuesTypeOK
  <2>4. SumOver(mine') - mine'[b] <= Budget
    BY <1>3, <2>1, <2>3 DEF Best
  <2>5. ASSUME k \notin {0, b}
        PROVE  SumOver(mine') - mine'[b] - mine'[k] + game.amount <= Budget
    <3>1. SumOver(mine) - mine[b] - mine[k] + game.amount <= Budget
      BY <2>1, <2>2, <2>5 DEF Best
    <3>2. mine[b] \in Nat /\ mine[k] \in Nat /\ k \in Conns
      BY <1>2, <2>3, <2>5
    <3>3. \/ mine'[b] = mine[b] /\ mine'[k] = mine[k]
          \/ mine'[b] = mine[b] - n /\ mine'[k] = mine[k]
          \/ mine'[b] = mine[b] /\ mine'[k] = mine[k] - n
      BY <2>3, <2>5, <3>2
    <3> QED
      BY <1>1, <2>3, <3>1, <3>2, <3>3, Sizes
  <2>6. b < game.next => game.conn # 0 /\ mine'[b] <= game.amount
    BY <1>2, <2>1, <2>3 DEF Best
  <2>7. Best(b)'
    BY <2>2, <2>4, <2>5, <2>6 DEF Best
  <2> QED
    BY <2>7
<1> QED
  BY <1>4, <1>5, <1>6 DEF Room, At

LEMMA ReleaseLedgers == ASSUME QInv, Shape', NEW c \in Conns, Release(c) PROVE Ledger'
<1>1. /\ writer[c].at = "release" /\ c \in arrived
      /\ UNCHANGED <<seated, total, queue, game>>
  BY DEF Release, WriterAt
<1>2. PICK a \in Nat : a = writer[c].amount
  BY DEF QInv, Shape, QueuesTypeOK
<1>3. PICK n \in Nat : n = Removed(c, a)
  BY <1>2, RemovedIs DEF QInv
<1>4. mine[c] \in Nat /\ mine[c] - n \in Nat
  BY <1>2, <1>3, RemovedIs DEF QInv, Shape, QueuesTypeOK
<1>5. mine'[c] = mine[c] - n /\ \A d \in Conns \ {c} : mine'[d] = mine[d]
  BY <1>2, <1>3 DEF Release, QInv, Shape, QueuesTypeOK
<1>6. writer'[c].at = "credit" /\ writer'[c].amount = n /\ \A d \in Conns \ {c} : writer'[d] = writer[d]
  BY <1>2, <1>3 DEF Release, WriterGoes, Task, QInv, Shape, QueuesTypeOK
<1>7. Taken(c) = a /\ Taken(c)' = 0 /\ (\A d \in Conns \ {c} : Taken(d)' = Taken(d))
      /\ Debt(c) = 0 /\ Debt(c)' = n
  BY <1>1, <1>2, <1>6 DEF Taken, Debt
<1>8. c \in seated => n = a
  <2> SUFFICES ASSUME c \in seated PROVE n = a
    OBVIOUS
  <2>1. a <= mine[c]
    BY <1>7, Covered DEF QInv, Ledger
  <2> QED
    BY <1>3, <2>1, RemovedIs DEF QInv
<1>9. c \notin seated => mine[c] = 0 /\ n = 0
  <2> SUFFICES ASSUME c \notin seated PROVE mine[c] = 0 /\ n = 0
    OBVIOUS
  <2>1. mine[c] = 0
    BY DEF QInv, Ledger, Charged
  <2> QED
    BY <1>4, <2>1
<1>10. Charged'
  <2>1. \A d \in Conns : /\ Queued(d)' = Queued(d) /\ Offered(d)' = Offered(d)
                         /\ Queued(d) \in Nat /\ Offered(d) \in Nat
    <3>1. \A d \in Conns : Queued(d) \in Nat /\ Offered(d) \in Nat
      BY Amounts DEF QInv
    <3> QED
      BY <1>1, <3>1 DEF Queued, Offered, Sending
  <2>2. Held(c)' = Held(c) - a
    <3>1. /\ Queued(c)' = Queued(c) /\ Offered(c)' = Offered(c)
          /\ Queued(c) \in Nat /\ Offered(c) \in Nat
      BY <2>1
    <3> QED
      BY <1>7, <3>1 DEF Held
  <2>3. \A d \in Conns \ {c} : Held(d)' = Held(d)
    BY <1>7, <2>1 DEF Held
  <2>4. mine'[c] = IF c \in seated THEN Held(c)' ELSE 0
    BY <1>4, <1>5, <1>8, <1>9, <2>2 DEF QInv, Ledger, Charged
  <2> QED
    BY <1>1, <1>5, <2>3, <2>4 DEF QInv, Ledger, Charged
<1>11. Books'
  <2>1. SumOver(mine) \in Nat /\ SumOver(mine') \in Nat /\ SumOver(mine') = SumOver(mine) - n
    BY <1>4, <1>5, CountChange DEF QInv
  <2>2. SumOver(Owed) \in Nat /\ SumOver(Owed') \in Nat /\ SumOver(Owed') = SumOver(Owed) + n
    BY <1>6, <1>7, DebtChange DEF QInv
  <2>3. Ahead' = Ahead /\ Unpaid' = Unpaid /\ Ahead \in Nat /\ Unpaid \in Nat /\ total \in Nat
    BY <1>1, Amounts DEF Ahead, Unpaid, At, QInv
  <2> QED
    BY <1>1, <2>1, <2>2, <2>3 DEF QInv, Ledger, Books
<1>12. Room'
  BY <1>1, <1>5, RoomShrinks
<1> QED
  BY <1>10, <1>11, <1>12 DEF Ledger

LEMMA CreditLedgers == ASSUME QInv, Shape', NEW c \in Conns, Credit(c) PROVE Ledger'
<1>1. /\ writer[c].at = "credit" /\ UNCHANGED <<seated, mine, queue, game>>
  BY DEF Credit, WriterAt
<1>2. PICK n \in Nat : n = writer[c].amount
  BY DEF QInv, Shape, QueuesTypeOK
<1>3. writer'[c].at = "gather" /\ \A d \in Conns \ {c} : writer'[d] = writer[d]
  BY DEF Credit, WriterGoes, Task, QInv, Shape, QueuesTypeOK
<1>4. Debt(c) = n /\ Debt(c)' = 0 /\ \A d \in Conns : Taken(d)' = Taken(d)
  BY <1>1, <1>2, <1>3 DEF Taken, Debt
<1>5. Charged'
  <2>1. \A d \in Conns : Held(d)' = Held(d)
    BY <1>1, <1>4 DEF Held, Queued, Offered, Sending
  <2> QED
    BY <1>1, <2>1 DEF QInv, Ledger, Charged
<1>6. Books'
  <2>1. SumOver(Owed) \in Nat /\ SumOver(Owed') \in Nat /\ SumOver(Owed') = SumOver(Owed) - n
    BY <1>3, <1>4, DebtChange DEF QInv
  <2>2. /\ Ahead' = Ahead /\ Unpaid' = Unpaid /\ Ahead \in Nat /\ Unpaid \in Nat
        /\ total \in Nat /\ SumOver(mine) \in Nat
    BY <1>1, Amounts DEF Ahead, Unpaid, At, QInv
  <2>3. n <= total
    <3>1. SumOver(Owed) + Unpaid <= total
      BY Enough DEF QInv, Ledger
    <3> QED
      BY <2>1, <2>2, <3>1
  <2>4. total' = total - n
    BY <1>2, <2>2, <2>3, Saturates DEF Credit
  <2> QED
    BY <1>1, <2>1, <2>2, <2>4 DEF QInv, Ledger, Books
<1>7. Room'
  BY <1>1 DEF QInv, Ledger, Room, Best, At
<1> QED
  BY <1>5, <1>6, <1>7 DEF Ledger

LEMMA WriteLedgers ==
  ASSUME QInv, Shape', NEW c \in Conns
  PROVE  /\ Select(c) => Ledger'
         /\ Gather(c) => Ledger'
         /\ Write(c) => Ledger'
         /\ WriteFails(c) => Ledger'
         /\ Abort(c) => Ledger'
<1>1. ASSUME Alone, UNCHANGED <<mine, total, queue>>, writer[c].at \notin {"release", "credit"},
             NEW spot \in {"select", "gather", "write", "ended"}, NEW n, NEW b, WriterGoes(c, spot, n, b)
      PROVE  Ledger'
  BY <1>1, WriterLedgers
<1>2. ASSUME Select(c) PROVE Ledger'
  <2>1. Alone /\ UNCHANGED <<mine, total>> /\ writer[c].at \notin {"release", "credit"}
    BY <1>2 DEF Select, WriterAt, Alone
  <2>2. Pop(c, "release", 0) \/ (WriterGoes(c, "ended", 0, 0) /\ UNCHANGED queue)
    BY <1>2 DEF Select
  <2> QED
    BY <2>1, <2>2, <1>1, PopLedgers
<1>3. ASSUME Gather(c) PROVE Ledger'
  <2>1. Alone /\ UNCHANGED <<mine, total>> /\ writer[c].at \notin {"release", "credit"}
    BY <1>3 DEF Gather, WriterAt, Alone
  <2>2. \/ Pop(c, "release", writer[c].batched)
        \/ WriterGoes(c, "write", 0, writer[c].batched) /\ UNCHANGED queue
    BY <1>3 DEF Gather
  <2> QED
    BY <2>1, <2>2, <1>1, PopLedgers
<1>4. ASSUME Write(c) PROVE Ledger'
  BY <1>4, <1>1 DEF Write, WriterAt, Alone
<1>5. ASSUME WriteFails(c) PROVE Ledger'
  BY <1>5, <1>1 DEF WriteFails, WriterAt, Alone
<1>6. ASSUME Abort(c) PROVE Ledger'
  BY <1>6, <1>1 DEF Abort, WriterAt, Alone
<1> QED
  BY <1>2, <1>3, <1>4, <1>5, <1>6

(* ---- every step keeps all of it ----------------------------------------------------- *)

LEMMA LedgerInitially == QueuesInit => Ledger
<1> SUFFICES ASSUME QueuesInit PROVE Ledger
  OBVIOUS
<1>1. Shape
  BY ShapeInitially
<1>2. At("idle") /\ \A c \in Conns : mine[c] = 0 /\ queue[c] = << >> /\ writer[c].at = "select"
  BY DEF QueuesInit, At, Idle, Stand, Task
<1>3. SumOver(mine) = 0
  <2>1. Parts(mine, Conns)
    BY Sizes DEF Parts, QueuesInit
  <2> QED
    BY <1>2, <2>1, SumOfNone
<1>4. SumOver(Owed) = 0
  <2>1. Parts(Owed, Conns) /\ \A c \in Conns : Owed[c] = 0
    BY <1>2, Sizes DEF Parts, Owed, Debt
  <2> QED
    BY <2>1, SumOfNone
<1>5. Charged
  BY <1>2, SumOfSequence DEF Charged, Held, Queued, Offered, Sending, Taken, At, QueuesInit
<1>6. Books
  BY <1>2, <1>3, <1>4 DEF Books, Ahead, Unpaid, At, QueuesInit
<1>7. Room
  BY <1>2, <1>3, Sizes DEF Room, At
<1> QED
  BY <1>5, <1>6, <1>7 DEF Ledger

LEMMA LedgerKeeps == ASSUME QInv, [QueuesNext]_queueVars PROVE QInv'
<1>0. Shape'
  BY ShapeKeeps DEF QInv
<1> SUFFICES Ledger'
  BY <1>0 DEF QInv
<1>1. CASE UNCHANGED queueVars
  BY <1>1, LedgerStays, <1>0 DEF queueVars, QInv, Taken, Debt
<1>2. ASSUME NEW c \in Conns, Arrive(c) \/ Enter(c) \/ Depart(c) \/ HangUp(c) \/ Stop PROVE Ledger'
  BY <1>0, <1>2, EntryLedgers
<1>3. ASSUME NEW S, NEW n, Speak(S, n) PROVE Ledger'
  BY <1>3, SpeakLedgers
<1>4. CASE GameStep
  BY <1>0, <1>4, NextSendLedgers, ChargeLedgers, TrySendLedgers, RefundLedgers, RepayLedgers,
     WeighLedgers, ScanLedgers, RemovePlayerLedgers, AbandonLedgers DEF GameStep
<1>5. ASSUME NEW c \in Conns, WriterStep(c) \/ Abort(c) PROVE Ledger'
  BY <1>0, <1>5, WriteLedgers, ReleaseLedgers, CreditLedgers DEF WriterStep
<1>6. CASE Stop
  <2>1. 1 \in Conns
    BY Sizes DEF Conns
  <2> QED
    BY <1>2, <1>6, <2>1
<1>7. Ledger'
  BY <1>1, <1>2, <1>3, <1>4, <1>5, <1>6 DEF QueuesNext, QInv
<1> QED
  BY <1>0, <1>7 DEF QInv

LEMMA QueuesInvariance == QueuesSpec => []QInv
<1>1. QueuesInit => QInv
  BY ShapeInitially, LedgerInitially DEF QInv
<1>2. QInv /\ [QueuesNext]_queueVars => QInv'
  BY LedgerKeeps
<1> QED
  BY <1>1, <1>2, PTL DEF QueuesSpec, Safety

(* ---- theorems ------------------------------------------------------------------------ *)

(* Types of the outbound queues and their counters; none of the unsigned counters goes    *)
(* below zero.                                                                              *)
THEOREM QueuesTyped == QueuesSpec => []QueuesTypeOK
<1>1. QInv => QueuesTypeOK
  BY DEF QInv, Shape
<1> QED
  BY <1>1, QueuesInvariance, PTL

(* What a queue holds in bytes is the sum of its frames. *)
LEMMA WaitingIsQueued == \A c : Waiting(c) = Queued(c)
BY DEF Waiting, Queued, FoldSeq, SumOver

(* However reserve, release and abandon interleave, the total is what the connections are   *)
(* charged for, and each is charged for what is in its queue (QueuedBytes).                  *)
THEOREM CountsAgree == QueuesSpec => []BudgetExact
<1>1. ASSUME QInv PROVE BudgetExact
  <2>1. ASSUME \A c \in Conns : Settled(c) PROVE total = SumOver(mine)
    <3>1. \A c \in Conns : Owed[c] = 0 /\ Debt(c) = 0
      BY <2>1 DEF Settled, Owed, Debt
    <3>2. Parts(Owed, Conns)
      BY <3>1, Sizes DEF Parts, Owed
    <3>3. SumOver(Owed) = 0
      BY <3>1, <3>2, SumOfNone
    <3>4. Ahead = 0 /\ Unpaid = 0
      <4>1. ~At("idle") /\ ~At("scan") => game.conn \in Conns
        BY <1>1, ShapeGives DEF QInv, Stands
      <4> QED
        BY <2>1, <4>1 DEF Settled, Ahead, Unpaid, At
    <3>5. total \in Nat /\ SumOver(mine) \in Nat
      BY <1>1, Amounts DEF QInv
    <3> QED
      BY <1>1, <3>3, <3>4, <3>5 DEF QInv, Ledger, Books
  <2>2. ASSUME NEW c \in Conns, Settled(c) PROVE mine[c] = IF c \in seated THEN Waiting(c) ELSE 0
    <3>1. Offered(c) = 0 /\ Taken(c) = 0
      BY <2>2 DEF Settled, Offered, Sending, Taken
    <3>2. Queued(c) \in Nat
      BY <1>1, Amounts DEF QInv
    <3>3. Held(c) = Waiting(c)
      BY <3>1, <3>2, WaitingIsQueued DEF Held
    <3> QED
      BY <1>1, <3>3 DEF QInv, Ledger, Charged
  <2> QED
    BY <2>1, <2>2 DEF BudgetExact
<1>2. QInv => BudgetExact
  BY <1>1
<1> QED
  BY <1>2, QueuesInvariance, PTL

(* When a handler of the game task returns, what is queued is within the budget, whatever    *)
(* the write tasks did while shed_the_deepest_queue looked for the deepest queue.             *)
THEOREM ShedUntilItFits == QueuesSpec => []WithinBudget
<1>1. QInv => WithinBudget
  BY DEF QInv, Ledger, Room, WithinBudget
<1> QED
  BY <1>1, QueuesInvariance, PTL

(* A write_loop whose Closer fired writes at most the batch it was gathering. *)
THEOREM OneMoreBatch == QueuesSpec => []BacklogAbandoned
<1>1. QInv => BacklogAbandoned
  BY DEF QInv, Shape, Batches, BacklogAbandoned
<1> QED
  BY <1>1, QueuesInvariance, PTL
==============================================================================
