------------------------- MODULE AuthPipeline_proofs -------------------------
(***************************************************************************)
(* Who may hash, who is signed in and who owns the server, for any number of  *)
(* connections, slots and names, and for every ceiling.                       *)
(***************************************************************************)
EXTENDS AuthPipeline, FiniteSetTheorems, SequenceTheorems, TLAPS

(* ---- the invariant ------------------------------------------------------- *)

(* The hashes under way, without their order. *)
Asked == {hashing[i] : i \in DOMAIN hashing} \cup {results[i] : i \in DOMAIN results}

(* A slot that is reserved has a hash under way. *)
Reserved ==
  /\ Cardinality(inFlight) <= MaxAuthInFlight
  /\ \A s \in inFlight : \E job \in Asked : job.slot = s

(* A registration that does not claim the server was asked of a claimed one. *)
Claims ==
  /\ ClaimedHasOwner
  /\ \A job \in Asked : job.kind = "Registered" /\ ~job.first => accounts # {}

(* No two hashes for one slot. *)
Distinct(q) == \A i, j \in DOMAIN q : q[i].slot = q[j].slot => i = j
OneEach ==
  /\ Distinct(hashing) /\ Distinct(results)
  /\ \A i \in DOMAIN hashing, j \in DOMAIN results : hashing[i].slot # results[j].slot

(* As long as nobody left with a hash under way, hashes and reservations correspond. *)
AtTheirSeats ==
  ~late => /\ OneEach
           /\ Len(hashing) + Len(results) = Cardinality(inFlight)
           /\ \A job \in Asked : job.slot \in inFlight /\ seat[job.slot] = job.asker

IInv == TypeOK /\ Reserved /\ Claims /\ AtTheirSeats /\ SessionProved

-----------------------------------------------------------------------------
(* ---- the queues ----------------------------------------------------------- *)

(* A thread's answer leaves the queue it is in, and nothing else does. *)
LEMMA WithoutOne ==
  ASSUME NEW S, NEW q \in Seq(S), NEW i \in DOMAIN q
  PROVE  /\ Without(q, i) \in Seq(S)
         /\ Len(Without(q, i)) = Len(q) - 1
         /\ DOMAIN Without(q, i) = 1 .. Len(q) - 1
         /\ \A j \in 1 .. Len(q) - 1 : Without(q, i)[j] = q[IF j < i THEN j ELSE j + 1]
<1>1. Len(q) \in Nat /\ DOMAIN q = 1 .. Len(q) /\ \A k \in 1 .. Len(q) : q[k] \in S
  BY LenProperties, ElementOfSeq
<1>2. Len(q) - 1 \in Nat
  BY <1>1
<1>3. \A j \in 1 .. Len(q) - 1 : q[IF j < i THEN j ELSE j + 1] \in S
  BY <1>1
<1>4. Without(q, i) \in [1 .. Len(q) - 1 -> S]
  BY <1>3 DEF Without
<1>5. Without(q, i) \in Seq(S)
  BY <1>2, <1>4, SeqDef
<1> QED
  BY <1>2, <1>4, <1>5, LenProperties DEF Without

(* What is asked is a job. *)
LEMMA AskedTypeOK == TypeOK => Asked \subseteq Job
BY LenProperties, ElementOfSeq DEF TypeOK, Asked

LEMMA AskedAdds ==
  ASSUME TypeOK, NEW job \in Job, hashing' = Append(hashing, job), results' = results
  PROVE  /\ Asked' = Asked \cup {job}
         /\ hashing' \in Seq(Job) /\ Len(hashing') = Len(hashing) + 1
         /\ DOMAIN hashing' = 1 .. Len(hashing) + 1 /\ DOMAIN hashing = 1 .. Len(hashing)
         /\ \A i \in DOMAIN hashing : hashing'[i] = hashing[i]
         /\ hashing'[Len(hashing) + 1] = job
<1>1. hashing \in Seq(Job) /\ Len(hashing) \in Nat /\ DOMAIN hashing = 1 .. Len(hashing)
  BY LenProperties DEF TypeOK
<1>2. /\ hashing' \in Seq(Job) /\ Len(hashing') = Len(hashing) + 1
      /\ DOMAIN hashing' = 1 .. Len(hashing) + 1
      /\ \A i \in DOMAIN hashing : hashing'[i] = hashing[i]
      /\ hashing'[Len(hashing) + 1] = job
  BY <1>1, AppendProperties, LenProperties
<1>3. {hashing'[i] : i \in DOMAIN hashing'} = {hashing[i] : i \in DOMAIN hashing} \cup {job}
  BY <1>1, <1>2
<1> QED
  BY <1>1, <1>2, <1>3 DEF Asked

LEMMA AskedMoves ==
  ASSUME TypeOK, NEW i \in DOMAIN hashing, hashing' = Without(hashing, i),
         results' = Append(results, hashing[i])
  PROVE  /\ Asked' = Asked
         /\ hashing' \in Seq(Job) /\ results' \in Seq(Job)
         /\ Len(hashing') + Len(results') = Len(hashing) + Len(results)
         /\ OneEach => OneEach'
<1> DEFINE at(k) == IF k < i THEN k ELSE k + 1
<1>1. /\ hashing \in Seq(Job) /\ Len(hashing) \in Nat /\ DOMAIN hashing = 1 .. Len(hashing)
      /\ results \in Seq(Job) /\ Len(results) \in Nat /\ DOMAIN results = 1 .. Len(results)
      /\ hashing[i] \in Job
  BY LenProperties, ElementOfSeq DEF TypeOK
<1>2. /\ hashing' \in Seq(Job) /\ Len(hashing') = Len(hashing) - 1
      /\ DOMAIN hashing' = 1 .. Len(hashing) - 1
      /\ \A j \in 1 .. Len(hashing) - 1 : hashing'[j] = hashing[at(j)]
  BY <1>1, WithoutOne
<1>0. /\ \A k \in DOMAIN hashing' :
           at(k) \in DOMAIN hashing /\ at(k) # i /\ hashing'[k] = hashing[at(k)]
      /\ \A k, j \in DOMAIN hashing' : at(k) = at(j) => k = j
  BY <1>1, <1>2
<1>3. /\ results' \in Seq(Job) /\ Len(results') = Len(results) + 1
      /\ DOMAIN results' = 1 .. Len(results) + 1
      /\ \A j \in DOMAIN results : results'[j] = results[j]
      /\ results'[Len(results) + 1] = hashing[i]
  BY <1>1, AppendProperties, LenProperties
<1>4. {results'[j] : j \in DOMAIN results'} = {results[j] : j \in DOMAIN results} \cup {hashing[i]}
  BY <1>1, <1>3
<1>5. {hashing[j] : j \in DOMAIN hashing} = {hashing'[j] : j \in DOMAIN hashing'} \cup {hashing[i]}
  <2>1. ASSUME NEW j \in DOMAIN hashing, j # i
        PROVE  \E k \in DOMAIN hashing' : hashing'[k] = hashing[j]
    <3>1. CASE j < i
      BY <1>1, <1>2, <2>1, <3>1
    <3>2. CASE j > i
      <4>1. j - 1 \in 1 .. Len(hashing) - 1 /\ ~(j - 1 < i) /\ (j - 1) + 1 = j
        BY <1>1, <2>1, <3>2
      <4> QED
        BY <1>2, <4>1
    <3> QED
      BY <1>1, <2>1, <3>1, <3>2
  <2>2. ASSUME NEW k \in DOMAIN hashing' PROVE \E j \in DOMAIN hashing : hashing'[k] = hashing[j]
    BY <1>0
  <2> QED
    BY <2>1, <2>2
<1>6. ASSUME OneEach PROVE OneEach'
  <2>1. \A j, k \in DOMAIN hashing : hashing[j].slot = hashing[k].slot => j = k
    BY <1>6 DEF OneEach, Distinct
  <2>2. Distinct(hashing')
    <3> SUFFICES ASSUME NEW k \in DOMAIN hashing', NEW j \in DOMAIN hashing',
                        hashing'[k].slot = hashing'[j].slot
                 PROVE  k = j
      BY DEF Distinct
    <3>1. at(k) = at(j)
      BY <1>0, <2>1
    <3> QED
      BY <1>0, <3>1
  <2>3. Distinct(results')
    BY <1>1, <1>3, <1>6 DEF OneEach, Distinct
  <2>4. ASSUME NEW k \in DOMAIN hashing', NEW j \in DOMAIN results'
        PROVE  hashing'[k].slot # results'[j].slot
    <3>1. PICK m \in DOMAIN hashing : hashing'[k] = hashing[m] /\ m # i
      BY <1>0
    <3>2. CASE j \in DOMAIN results
      BY <1>3, <1>6, <3>1, <3>2 DEF OneEach
    <3>3. CASE j = Len(results) + 1
      BY <1>3, <2>1, <3>1, <3>3
    <3> QED
      BY <1>1, <1>3, <3>2, <3>3
  <2> QED
    BY <2>2, <2>3, <2>4 DEF OneEach
<1>7. Asked' = Asked
  BY <1>4, <1>5 DEF Asked
<1>8. Len(hashing') + Len(results') = Len(hashing) + Len(results)
  BY <1>1, <1>2, <1>3
<1> QED
  BY <1>2, <1>3, <1>6, <1>7, <1>8

LEMMA AskedAnswered ==
  ASSUME TypeOK, results # << >>, results' = Tail(results), hashing' = hashing
  PROVE  /\ Head(results) \in Job /\ Asked = Asked' \cup {Head(results)}
         /\ results' \in Seq(Job) /\ Len(results') = Len(results) - 1
         /\ OneEach => OneEach' /\ \A job \in Asked' : job.slot # Head(results).slot
<1>1. /\ results \in Seq(Job) /\ Len(results) \in Nat /\ DOMAIN results = 1 .. Len(results)
      /\ Len(results) > 0
  BY LenProperties, EmptySeq DEF TypeOK
<1>2. /\ Head(results) = results[1] /\ Head(results) \in Job
      /\ results' \in Seq(Job) /\ Len(results') = Len(results) - 1
      /\ DOMAIN results' = 1 .. Len(results) - 1
      /\ \A j \in DOMAIN results' : results'[j] = results[j + 1]
  BY <1>1, HeadTailProperties, LenProperties, ElementOfSeq
<1>3. ASSUME NEW j \in DOMAIN results
      PROVE  results[j] = Head(results) \/ \E k \in DOMAIN results' : results'[k] = results[j]
  <2>1. CASE j # 1
    <3>1. j - 1 \in DOMAIN results' /\ (j - 1) + 1 = j
      BY <1>1, <1>2, <2>1
    <3> QED
      BY <1>2, <3>1
  <2> QED
    BY <1>2, <2>1
<1>4. \A k \in DOMAIN results' : k + 1 \in DOMAIN results /\ k + 1 # 1 /\ results'[k] = results[k + 1]
  BY <1>1, <1>2
<1>5. 1 \in DOMAIN results
  BY <1>1
<1>6. Asked = Asked' \cup {Head(results)}
  <2>1. {results[j] : j \in DOMAIN results} = {results'[j] : j \in DOMAIN results'} \cup {Head(results)}
    BY <1>2, <1>3, <1>4, <1>5
  <2> QED
    BY <2>1 DEF Asked
<1>7. ASSUME OneEach PROVE OneEach' /\ \A job \in Asked' : job.slot # Head(results).slot
  <2>1. /\ \A j, k \in DOMAIN results : results[j].slot = results[k].slot => j = k
        /\ \A j \in DOMAIN hashing, k \in DOMAIN results : hashing[j].slot # results[k].slot
    BY <1>7 DEF OneEach, Distinct
  <2>2. Distinct(results')
    BY <1>1, <1>2, <1>4, <2>1 DEF Distinct
  <2>3. OneEach'
    BY <1>4, <1>7, <2>1, <2>2 DEF OneEach
  <2>4. ASSUME NEW job \in Asked' PROVE job.slot # Head(results).slot
    <3>1. CASE \E j \in DOMAIN hashing : job = hashing[j]
      BY <1>2, <1>5, <2>1, <3>1
    <3>2. CASE \E k \in DOMAIN results' : job = results'[k]
      BY <1>2, <1>4, <1>5, <2>1, <3>2
    <3> QED
      BY <3>1, <3>2 DEF Asked
  <2> QED
    BY <2>3, <2>4
<1> QED
  BY <1>2, <1>6, <1>7
(* The two queues read as one. *)
LEMMA JobsAreAsked ==
  ASSUME TypeOK
  PROVE  /\ Len(Jobs) = Len(hashing) + Len(results)
         /\ \A i \in DOMAIN Jobs : Jobs[i] \in Asked
         /\ \A job \in Asked : \E i \in DOMAIN Jobs : Jobs[i] = job
         /\ OneEach => \A i, j \in DOMAIN Jobs : Jobs[i].slot = Jobs[j].slot => i = j
<1> DEFINE n == Len(hashing) + Len(results)
<1>1. /\ hashing \in Seq(Job) /\ Len(hashing) \in Nat /\ DOMAIN hashing = 1 .. Len(hashing)
      /\ results \in Seq(Job) /\ Len(results) \in Nat /\ DOMAIN results = 1 .. Len(results)
  BY LenProperties DEF TypeOK
<1>2. /\ DOMAIN Jobs = 1 .. n
      /\ \A i \in 1 .. n : Jobs[i] = IF i <= Len(hashing) THEN hashing[i] ELSE results[i - Len(hashing)]
  BY DEF Jobs
<1>3. \A i \in 1 .. n : \/ i \in DOMAIN hashing /\ Jobs[i] = hashing[i]
                        \/ i - Len(hashing) \in DOMAIN results /\ Jobs[i] = results[i - Len(hashing)]
  BY <1>1, <1>2
<1>4. Len(Jobs) = n
  <2>1. n \in Nat
    BY <1>1
  <2>2. Jobs \in [1 .. n -> Job]
    BY <1>2, <1>3, <1>1, ElementOfSeq DEF Jobs
  <2>3. Jobs \in Seq(Job)
    BY <2>1, <2>2, SeqDef
  <2> QED
    BY <1>2, <2>1, <2>3, LenProperties
<1>5. \A i \in DOMAIN Jobs : Jobs[i] \in Asked
  BY <1>2, <1>3 DEF Asked
<1>6. ASSUME NEW job \in Asked PROVE \E i \in DOMAIN Jobs : Jobs[i] = job
  <2>1. ASSUME NEW i \in DOMAIN hashing, job = hashing[i] PROVE \E k \in DOMAIN Jobs : Jobs[k] = job
    BY <1>1, <1>2, <2>1
  <2>2. ASSUME NEW i \in DOMAIN results, job = results[i] PROVE \E k \in DOMAIN Jobs : Jobs[k] = job
    <3>1. Len(hashing) + i \in 1 .. n /\ ~(Len(hashing) + i <= Len(hashing))
          /\ (Len(hashing) + i) - Len(hashing) = i
      BY <1>1
    <3> QED
      BY <1>2, <2>2, <3>1
  <2> QED
    BY <2>1, <2>2 DEF Asked
<1>7. ASSUME OneEach, NEW i \in DOMAIN Jobs, NEW j \in DOMAIN Jobs, Jobs[i].slot = Jobs[j].slot
      PROVE  i = j
  <2>1. /\ \A k, m \in DOMAIN hashing : hashing[k].slot = hashing[m].slot => k = m
        /\ \A k, m \in DOMAIN results : results[k].slot = results[m].slot => k = m
        /\ \A k \in DOMAIN hashing, m \in DOMAIN results : hashing[k].slot # results[m].slot
    BY <1>7 DEF OneEach, Distinct
  <2>2. i \in 1 .. n /\ j \in 1 .. n
    BY <1>2
  <2>3. CASE i \in DOMAIN hashing /\ Jobs[i] = hashing[i]
    BY <1>1, <1>3, <1>7, <2>1, <2>2, <2>3
  <2>4. CASE i - Len(hashing) \in DOMAIN results /\ Jobs[i] = results[i - Len(hashing)]
    <3>1. CASE j \in DOMAIN hashing /\ Jobs[j] = hashing[j]
      BY <1>7, <2>1, <2>4, <3>1
    <3>2. CASE j - Len(hashing) \in DOMAIN results /\ Jobs[j] = results[j - Len(hashing)]
      <4>1. i - Len(hashing) = j - Len(hashing)
        BY <1>7, <2>1, <2>4, <3>2
      <4> QED
        BY <1>1, <2>2, <4>1
    <3> QED
      BY <1>3, <2>2, <3>1, <3>2
  <2> QED
    BY <1>3, <2>2, <2>3, <2>4
<1> QED
  BY <1>4, <1>5, <1>6, <1>7

LEMMA InFlightFinite ==
  TypeOK => IsFiniteSet(inFlight) /\ Cardinality(inFlight) \in Nat
BY FiniteAssumption, FS_Subset, FS_CardinalityType DEF TypeOK

-----------------------------------------------------------------------------
(* ---- the steps -------------------------------------------------------------- *)

LEMMA InitIInv == Init => IInv
<1> SUFFICES ASSUME Init PROVE IInv
  OBVIOUS
<1>1. /\ hashing = << >> /\ results = << >> /\ DOMAIN hashing = {} /\ DOMAIN results = {}
      /\ << >> \in Seq(Job) /\ Len(hashing) = 0 /\ Len(results) = 0
  BY EmptySeq, LenProperties DEF Init
<1>2. Asked = {}
  BY <1>1 DEF Asked
<1>3. Cardinality(inFlight) = 0
  BY FS_EmptySet DEF Init
<1>4. TypeOK
  BY <1>1 DEF Init, TypeOK
<1>5. Reserved
  BY <1>3, CeilingAssumption DEF Reserved, Init
<1>6. Claims /\ SessionProved
  BY <1>2 DEF Claims, ClaimedHasOwner, SessionProved, Init
<1>7. AtTheirSeats
  BY <1>1, <1>2, <1>3 DEF AtTheirSeats, OneEach, Distinct
<1> QED
  BY <1>4, <1>5, <1>6, <1>7 DEF IInv

(* Whoever comes takes a slot that nobody has, no hash is for, and no session is on. *)
LEMMA ArriveKeeps ==
  ASSUME IInv, NEW c \in Conns, NEW s \in Slots, Arrive(c, s) PROVE IInv'
<1> USE DEF IInv
<1>1. /\ seat' = [seat EXCEPT ![s] = c] /\ seat[s] = Nobody
      /\ hashing' = hashing /\ results' = results /\ inFlight' = inFlight
      /\ accounts' = accounts /\ owners' = owners /\ token' = token
      /\ signedIn' = signedIn /\ proved' = proved /\ late' = late
  BY DEF Arrive
<1>2. Asked' = Asked
  BY <1>1 DEF Asked
<1>3. TypeOK'
  BY DEF Arrive, TypeOK
<1>4. Reserved' /\ Claims'
  BY <1>1, <1>2 DEF Reserved, Claims, ClaimedHasOwner
<1>5. AtTheirSeats'
  <2> SUFFICES ASSUME ~late, NEW job \in Asked, AtTheirSeats
               PROVE  seat'[job.slot] = job.asker
    BY <1>1, <1>2 DEF AtTheirSeats, OneEach, Distinct
  <2>1. job \in Job /\ seat[job.slot] = job.asker
    BY AskedTypeOK DEF AtTheirSeats
  <2>2. job.slot # s
    BY <1>1, <2>1, NobodyAssumption DEF Job
  <2> QED
    BY <1>1, <2>1, <2>2 DEF TypeOK, Job
<1>6. SessionProved'
  BY <1>1, NobodyAssumption DEF SessionProved, TypeOK
<1> QED
  BY <1>3, <1>4, <1>5, <1>6

(* Whoever leaves with no hash under way has no reservation. *)
LEMMA DepartKeeps ==
  ASSUME IInv, NEW s \in Slots, Depart(s) PROVE IInv'
<1> USE DEF IInv
<1>1. /\ seat' = [seat EXCEPT ![s] = Nobody] /\ seat[s] # Nobody
      /\ inFlight' = inFlight \ {s} /\ hashing' = hashing /\ results' = results
      /\ accounts' = accounts /\ owners' = owners /\ token' = token
      /\ signedIn' = [signedIn EXCEPT ![s] = Nobody] /\ proved' = proved
      /\ late' = (late \/ \E i \in DOMAIN Jobs : Jobs[i].asker = seat[s])
  BY DEF Depart, SignOut
<1>2. Asked' = Asked
  BY <1>1 DEF Asked
<1>3. TypeOK'
  <2>1. late' \in BOOLEAN
    BY <1>1 DEF TypeOK
  <2> QED
    BY <1>1, <2>1 DEF Depart, TypeOK
<1>4. Reserved'
  <2>1. Cardinality(inFlight \ {s}) <= Cardinality(inFlight)
        /\ Cardinality(inFlight \ {s}) \in Nat /\ Cardinality(inFlight) \in Nat
    BY InFlightFinite, FS_RemoveElement, FS_CardinalityType, FS_Subset
  <2>2. Cardinality(inFlight') <= MaxAuthInFlight
    BY <1>1, <2>1, CeilingAssumption DEF Reserved
  <2> QED
    BY <1>1, <1>2, <2>2 DEF Reserved
<1>5. Claims'
  BY <1>1, <1>2 DEF Claims, ClaimedHasOwner
<1>6. AtTheirSeats'
  <2> SUFFICES ASSUME ~late' PROVE AtTheirSeats'
    BY DEF AtTheirSeats
  <2>1. ~late /\ \A job \in Asked : job.asker # seat[s]
    BY <1>1, JobsAreAsked
  <2>2. \A job \in Asked : job.slot # s
    BY <2>1 DEF AtTheirSeats
  <2>3. inFlight' = inFlight
    BY <1>1, <2>2 DEF Reserved
  <2>4. \A job \in Asked : job.slot \in inFlight' /\ seat'[job.slot] = job.asker
    BY <1>1, <2>1, <2>2, <2>3, AskedTypeOK DEF AtTheirSeats, TypeOK, Job
  <2>5. OneEach => OneEach'
    BY <1>1 DEF OneEach, Distinct
  <2>6. OneEach /\ Len(hashing) + Len(results) = Cardinality(inFlight)
    BY <2>1 DEF AtTheirSeats
  <2>7. Len(hashing') + Len(results') = Cardinality(inFlight')
    BY <1>1, <2>3, <2>6
  <2> QED
    BY <1>2, <2>4, <2>5, <2>6, <2>7 DEF AtTheirSeats
<1>7. SessionProved'
  BY <1>1 DEF SessionProved, TypeOK
<1> QED
  BY <1>3, <1>4, <1>5, <1>6, <1>7

(* A hash is asked for by whoever sits in a slot without one. *)
LEMMA StartKeeps ==
  ASSUME IInv, NEW s \in Slots, NEW job \in Job, StartAuth(s, job), job.slot = s,
         job.asker = seat[s], job.kind = "Registered" /\ ~job.first => accounts # {},
         UNCHANGED <<seat, arrived, results, accounts, owners, token, claiming, signedIn, proved, late>>
  PROVE  IInv'
<1> USE DEF IInv
<1>1. /\ seat' = seat /\ results' = results /\ accounts' = accounts /\ owners' = owners
      /\ token' = token /\ signedIn' = signedIn /\ proved' = proved /\ late' = late
      /\ arrived' = arrived /\ claiming' = claiming
      /\ inFlight' = inFlight \cup {s} /\ s \notin inFlight
      /\ Cardinality(inFlight) < MaxAuthInFlight /\ hashing' = Append(hashing, job)
  BY DEF StartAuth, MayStart
<1>2. /\ Asked' = Asked \cup {job}
      /\ hashing' \in Seq(Job) /\ Len(hashing') = Len(hashing) + 1
      /\ DOMAIN hashing' = 1 .. Len(hashing) + 1 /\ DOMAIN hashing = 1 .. Len(hashing)
      /\ \A i \in DOMAIN hashing : hashing'[i] = hashing[i]
      /\ hashing'[Len(hashing) + 1] = job
  BY <1>1, AskedAdds
<1>3. TypeOK'
  BY <1>1, <1>2 DEF TypeOK
<1>4. Cardinality(inFlight') = Cardinality(inFlight) + 1 /\ Cardinality(inFlight) \in Nat
  BY <1>1, InFlightFinite, FS_AddElement
<1>5. Reserved'
  <2>1. Cardinality(inFlight') <= MaxAuthInFlight
    BY <1>1, <1>4, CeilingAssumption
  <2> QED
    BY <1>1, <1>2, <2>1 DEF Reserved
<1>6. Claims'
  BY <1>1, <1>2 DEF Claims, ClaimedHasOwner
<1>7. AtTheirSeats'
  <2> SUFFICES ASSUME ~late PROVE AtTheirSeats'
    BY <1>1 DEF AtTheirSeats
  <2>1. /\ OneEach /\ Len(hashing) + Len(results) = Cardinality(inFlight)
        /\ \A other \in Asked : other.slot \in inFlight /\ seat[other.slot] = other.asker
    BY DEF AtTheirSeats
  <2>2. \A other \in Asked : other.slot # s
    BY <1>1, <2>1
  <2>3. Len(hashing) \in Nat /\ Len(results) \in Nat
    BY LenProperties DEF TypeOK
  <2>4. \A i \in DOMAIN hashing : hashing[i].slot # s
    BY <2>2 DEF Asked
  <2>5. \A i \in DOMAIN results : results[i].slot # s
    BY <2>2 DEF Asked
  <2>6. Distinct(hashing')
    BY <1>2, <2>1, <2>3, <2>4 DEF OneEach, Distinct
  <2>7. OneEach'
    BY <1>1, <1>2, <2>1, <2>3, <2>5, <2>6 DEF OneEach, Distinct
  <2>8. Len(hashing') + Len(results') = Cardinality(inFlight')
    BY <1>1, <1>2, <1>4, <2>1, <2>3
  <2> QED
    BY <1>1, <1>2, <2>1, <2>7, <2>8 DEF AtTheirSeats
<1>8. SessionProved'
  BY <1>1 DEF SessionProved
<1> QED
  BY <1>3, <1>5, <1>6, <1>7, <1>8

LEMMA RegisterKeeps ==
  ASSUME IInv, NEW s \in Slots, NEW n \in Names, NEW right \in BOOLEAN, Register(s, n, right)
  PROVE  IInv'
<1> DEFINE job == [kind |-> "Registered", slot |-> s, asker |-> seat[s], account |-> n,
                   first |-> Unclaimed /\ right, correct |-> TRUE]
<1>1. seat[s] \in Conns /\ (Unclaimed /\ right) \in BOOLEAN
  BY DEF Register, IInv, TypeOK
<1>2. job \in Job
  BY <1>1 DEF Job
<1>3. ~job.first => accounts # {}
  BY DEF Register, MayRegister, Unclaimed
<1> QED
  BY <1>2, <1>3, StartKeeps DEF Register

LEMMA LoginKeeps ==
  ASSUME IInv, NEW s \in Slots, NEW n \in Names, NEW right \in BOOLEAN, Login(s, n, right)
  PROVE  IInv'
<1> DEFINE job == [kind |-> "SignedIn", slot |-> s, asker |-> seat[s], account |-> n,
                   first |-> FALSE, correct |-> right /\ n \in accounts]
<1>1. seat[s] \in Conns /\ (right /\ n \in accounts) \in BOOLEAN
  BY DEF Login, IInv, TypeOK
<1>2. job \in Job
  BY <1>1 DEF Job
<1> QED
  BY <1>2, StartKeeps DEF Login

LEMMA LogoutKeeps ==
  ASSUME IInv, NEW s \in Slots, Logout(s) PROVE IInv'
<1> USE DEF IInv
<1>1. Asked' = Asked /\ TypeOK'
  BY DEF Logout, SignOut, Asked, TypeOK
<1>2. SessionProved'
  BY DEF Logout, SignOut, SessionProved, TypeOK
<1> QED
  BY <1>1, <1>2 DEF Logout, Reserved, Claims, ClaimedHasOwner, AtTheirSeats, OneEach, Distinct

(* Whatever is claimed has an owner from then on. *)
LEMMA ClaimKeeps ==
  ASSUME IInv, NEW n \in Names, accounts' = accounts \cup {n}, owners' = owners \cup {n},
         token' = FALSE, claiming' \in SUBSET Names,
         UNCHANGED <<seat, arrived, inFlight, hashing, results, signedIn, proved, late>>
  PROVE  IInv'
<1> USE DEF IInv
<1>1. Asked' = Asked /\ TypeOK'
  BY DEF Asked, TypeOK
<1> QED
  BY <1>1 DEF Reserved, Claims, ClaimedHasOwner, AtTheirSeats, OneEach, Distinct, SessionProved

LEMMA PanelKeeps ==
  ASSUME IInv, NEW n \in Names, ConsoleClaim(n) \/ PanelClaim(n) \/ PanelInsertAccount(n)
  PROVE  IInv'
<1>1. claiming \in SUBSET Names
  BY DEF IInv, TypeOK
<1>2. CASE ConsoleClaim(n)
  BY <1>1, <1>2, ClaimKeeps DEF ConsoleClaim, InsertAccount, SpendToken
<1>3. ASSUME claiming' \in SUBSET Names,
             UNCHANGED <<seat, arrived, inFlight, hashing, results, accounts, owners, token,
                         signedIn, proved, late>>
      PROVE  IInv'
  BY <1>3 DEF IInv, TypeOK, Asked, Reserved, Claims, ClaimedHasOwner, AtTheirSeats, OneEach,
     Distinct, SessionProved
<1>4. CASE PanelClaim(n)
  BY <1>1, <1>3, <1>4 DEF PanelClaim
<1>5. CASE PanelInsertAccount(n)
  <2>1. claiming' \in SUBSET Names
    BY <1>1, <1>5 DEF PanelInsertAccount
  <2>2. CASE n \in accounts
    BY <1>3, <1>5, <2>1, <2>2 DEF PanelInsertAccount, InsertAccount
  <2>3. CASE n \notin accounts
    BY <1>5, <2>1, <2>3, ClaimKeeps DEF PanelInsertAccount, InsertAccount, SpendToken
  <2> QED
    BY <2>2, <2>3
<1> QED
  BY <1>2, <1>4, <1>5

LEMMA HashKeeps ==
  ASSUME IInv, NEW i \in DOMAIN hashing, HashFinishes(i) PROVE IInv'
<1> USE DEF IInv
<1>1. /\ hashing' = Without(hashing, i) /\ results' = Append(results, hashing[i])
      /\ UNCHANGED <<seat, arrived, inFlight, accounts, owners, token, claiming, signedIn, proved, late>>
  BY DEF HashFinishes
<1>2. /\ Asked' = Asked /\ hashing' \in Seq(Job) /\ results' \in Seq(Job)
      /\ Len(hashing') + Len(results') = Len(hashing) + Len(results)
      /\ OneEach => OneEach'
  BY <1>1, AskedMoves
<1> QED
  BY <1>1, <1>2 DEF TypeOK, Reserved, Claims, ClaimedHasOwner, AtTheirSeats, SessionProved

(* An answer releases the slot it was asked from, and nobody else's. *)
LEMMA AnswerReleases ==
  ASSUME IInv, results # << >>, results' = Tail(results), hashing' = hashing, seat' = seat,
         late' = late, inFlight' = Released(Head(results))
  PROVE  /\ Reserved' /\ AtTheirSeats' /\ inFlight' \subseteq Slots
         /\ results' \in Seq(Job) /\ Head(results) \in Asked /\ Asked' \subseteq Asked
<1> USE DEF IInv
<1> DEFINE job == Head(results)
<1>1. /\ job \in Job /\ Asked = Asked' \cup {job}
      /\ results' \in Seq(Job) /\ Len(results') = Len(results) - 1
      /\ OneEach => OneEach' /\ \A other \in Asked' : other.slot # job.slot
  BY AskedAnswered
<1>2. inFlight' = inFlight \ {job.slot}
  BY DEF Released
<1>3. /\ Cardinality(inFlight') \in Nat /\ Cardinality(inFlight) \in Nat
      /\ Cardinality(inFlight') =
           IF job.slot \in inFlight THEN Cardinality(inFlight) - 1 ELSE Cardinality(inFlight)
  BY <1>2, InFlightFinite, FS_RemoveElement, FS_CardinalityType
<1>4. Reserved'
  <2>1. Cardinality(inFlight') <= MaxAuthInFlight
    BY <1>3, CeilingAssumption DEF Reserved
  <2>2. \A s \in inFlight' : \E other \in Asked' : other.slot = s
    BY <1>1, <1>2 DEF Reserved
  <2> QED
    BY <2>1, <2>2 DEF Reserved
<1>5. AtTheirSeats'
  <2> SUFFICES ASSUME ~late PROVE AtTheirSeats'
    BY DEF AtTheirSeats
  <2>1. /\ OneEach /\ Len(hashing) + Len(results) = Cardinality(inFlight)
        /\ \A other \in Asked : other.slot \in inFlight /\ seat[other.slot] = other.asker
    BY DEF AtTheirSeats
  <2>2. Len(hashing) \in Nat /\ Len(results) \in Nat
    BY LenProperties DEF TypeOK
  <2>3. Len(hashing') + Len(results') = Cardinality(inFlight')
    BY <1>1, <1>3, <2>1, <2>2
  <2>4. \A other \in Asked' : other.slot \in inFlight' /\ seat'[other.slot] = other.asker
    BY <1>1, <1>2, <2>1
  <2> QED
    BY <1>1, <2>1, <2>3, <2>4 DEF AtTheirSeats
<1> QED
  BY <1>1, <1>2, <1>4, <1>5 DEF TypeOK

LEMMA NoteRegisteredKeeps == IInv /\ NoteRegistered => IInv'
<1> SUFFICES ASSUME IInv, NoteRegistered PROVE IInv'
  OBVIOUS
<1> USE DEF IInv
<1> DEFINE job == Head(results)
<1>1. /\ results # << >> /\ job.kind = "Registered" /\ results' = Tail(results)
      /\ inFlight' = Released(job)
      /\ seat' = seat /\ arrived' = arrived /\ hashing' = hashing /\ claiming' = claiming
      /\ signedIn' = signedIn /\ proved' = proved /\ late' = late
  BY DEF NoteRegistered, Answered
<1>2. /\ Reserved' /\ AtTheirSeats' /\ inFlight' \subseteq Slots
      /\ results' \in Seq(Job) /\ job \in Asked /\ Asked' \subseteq Asked
  BY <1>1, AnswerReleases
<1>3. job.account \in Names /\ job.first \in BOOLEAN
  BY <1>2, AskedTypeOK DEF Job
<1>4. SessionProved'
  BY <1>1 DEF SessionProved
<1>5. CASE accounts' = accounts /\ owners' = owners /\ token' = token
  BY <1>1, <1>2, <1>4, <1>5 DEF TypeOK, Claims, ClaimedHasOwner
<1>6. CASE /\ accounts' = accounts \cup {job.account}
           /\ owners' = IF job.first THEN owners \cup {job.account} ELSE owners
           /\ token'  = SpendToken(job.first)
  <2>1. CASE job.first
    <3>1. owners' = owners \cup {job.account} /\ token' = FALSE
      BY <1>6, <2>1 DEF SpendToken
    <3> QED
      BY <1>1, <1>2, <1>3, <1>4, <1>6, <3>1 DEF TypeOK, Claims, ClaimedHasOwner
  <2>2. CASE ~job.first
    <3>1. accounts # {}
      BY <1>1, <1>2, <2>2 DEF Claims
    <3>2. owners' = owners /\ owners # {} /\ ~token /\ token' = FALSE
      BY <1>6, <2>2, <3>1 DEF SpendToken, Claims, ClaimedHasOwner
    <3> QED
      BY <1>1, <1>2, <1>3, <1>4, <1>6, <3>2 DEF TypeOK, Claims, ClaimedHasOwner
  <2> QED
    BY <1>3, <2>1, <2>2
<1> QED
  BY <1>5, <1>6 DEF NoteRegistered, InsertAccount

(* The session goes to the slot the password came from, and so to whoever gave it. *)
LEMMA NoteSignedInKeeps == IInv /\ NoteSignedIn => IInv'
<1> SUFFICES ASSUME IInv, NoteSignedIn PROVE IInv'
  OBVIOUS
<1> USE DEF IInv
<1> DEFINE job == Head(results)
<1>1. /\ results # << >> /\ results' = Tail(results) /\ inFlight' = Released(job)
      /\ signedIn' = CompleteSignIn(job)
      /\ proved' = IF job.correct THEN proved \cup {<<job.asker, job.account>>} ELSE proved
      /\ seat' = seat /\ arrived' = arrived /\ hashing' = hashing /\ claiming' = claiming
      /\ accounts' = accounts /\ owners' = owners /\ token' = token /\ late' = late
  BY DEF NoteSignedIn, Answered
<1>2. /\ Reserved' /\ AtTheirSeats' /\ inFlight' \subseteq Slots
      /\ results' \in Seq(Job) /\ job \in Asked /\ Asked' \subseteq Asked
  BY <1>1, AnswerReleases
<1>3. job.slot \in Slots /\ job.asker \in Conns /\ job.account \in Names
  BY <1>2, AskedTypeOK DEF Job
<1>4. signedIn' \in [Slots -> Names \cup {Nobody}] /\ proved' \subseteq Conns \X Names
  BY <1>1, <1>3 DEF TypeOK, CompleteSignIn
<1>5. TypeOK'
  BY <1>1, <1>2, <1>4 DEF TypeOK
<1>6. Claims'
  BY <1>1, <1>2 DEF Claims, ClaimedHasOwner
<1>7. SessionProved'
  <2> SUFFICES ASSUME ~late, NEW s \in Slots, signedIn'[s] # Nobody
               PROVE  <<seat[s], signedIn'[s]>> \in proved'
    BY <1>1 DEF SessionProved
  <2>1. seat[job.slot] = job.asker
    BY <1>2 DEF AtTheirSeats
  <2>2. CASE s = job.slot /\ job.correct /\ job.account \in accounts
    BY <1>1, <1>3, <2>1, <2>2 DEF CompleteSignIn, TypeOK
  <2>3. CASE signedIn'[s] = signedIn[s]
    BY <1>1, <2>3 DEF SessionProved
  <2> QED
    BY <1>1, <1>3, <2>2, <2>3 DEF CompleteSignIn, TypeOK
<1> QED
  BY <1>2, <1>5, <1>6, <1>7

(* Every step keeps the invariant. *)
LEMMA StepIInv == IInv /\ [Next]_vars => IInv'
<1> SUFFICES ASSUME IInv, [Next]_vars PROVE IInv'
  OBVIOUS
<1>1. ASSUME NEW s \in Slots, NEW c \in Conns, Arrive(c, s) PROVE IInv'
  BY <1>1, ArriveKeeps
<1>2. ASSUME NEW s \in Slots, Depart(s) \/ Logout(s) PROVE IInv'
  BY <1>2, DepartKeeps, LogoutKeeps
<1>3. ASSUME NEW s \in Slots, NEW n \in Names, NEW right \in BOOLEAN,
             Register(s, n, right) \/ Login(s, n, right)
      PROVE  IInv'
  BY <1>3, RegisterKeeps, LoginKeeps
<1>4. ASSUME NEW n \in Names, ConsoleClaim(n) \/ PanelClaim(n) \/ PanelInsertAccount(n)
      PROVE  IInv'
  BY <1>4, PanelKeeps
<1>5. CASE WorkerStep
  BY <1>5, HashKeeps DEF WorkerStep
<1>6. CASE NoteFinishedAuth
  BY <1>6, NoteRegisteredKeeps, NoteSignedInKeeps DEF NoteFinishedAuth
<1>7. CASE UNCHANGED vars
  BY <1>7 DEF vars, IInv, TypeOK, Asked, Reserved, Claims, ClaimedHasOwner, AtTheirSeats, OneEach,
     Distinct, SessionProved
<1> QED
  BY <1>1, <1>2, <1>3, <1>4, <1>5, <1>6, <1>7 DEF Next

LEMMA Invariance == Spec => []IInv
BY InitIInv, StepIInv, PTL DEF Spec

-----------------------------------------------------------------------------
(* ---- what follows ------------------------------------------------------------ *)

(* Type correctness of accounts, sessions and hashes. *)
THEOREM TypeCorrect == Spec => []TypeOK
<1>1. IInv => TypeOK
  BY DEF IInv
<1> QED
  BY <1>1, Invariance, PTL

(* No reservation outlives its hash, and while nobody leaves in the middle of one, there  *)
(* are never more hashes than the ceiling, nor two for one slot (game/server/mod.rs,       *)
(* start_auth, note_finished_auth and disconnect).                                          *)
THEOREM CeilingHolds == Spec => []HashesReserved
<1>1. IInv => HashesReserved
  <2> SUFFICES ASSUME IInv PROVE HashesReserved
    OBVIOUS
  <2>1. \A s \in inFlight : \E i \in DOMAIN Jobs : Jobs[i].slot = s
    BY JobsAreAsked DEF IInv, Reserved
  <2>2. ASSUME ~late
        PROVE  /\ Len(Jobs) <= MaxAuthInFlight
               /\ \A i, j \in DOMAIN Jobs : Jobs[i].slot = Jobs[j].slot => i = j
               /\ \A i \in DOMAIN Jobs : Jobs[i].slot \in inFlight /\ seat[Jobs[i].slot] = Jobs[i].asker
    BY <2>2, JobsAreAsked DEF IInv, AtTheirSeats, Reserved
  <2> QED
    BY <2>1, <2>2 DEF HashesReserved
<1> QED
  BY <1>1, Invariance, PTL

(* A session is its owner's: the connection in the slot gave the password for it, unless *)
(* somebody left with a hash under way (mod.rs, note_finished_auth; store.rs,               *)
(* complete_sign_in).                                                                       *)
THEOREM SessionsAreProved == Spec => []SessionProved
<1>1. IInv => SessionProved
  BY DEF IInv
<1> QED
  BY <1>1, Invariance, PTL

(* Whichever of the three ways a server is claimed, and whatever is being registered     *)
(* meanwhile, once it has accounts it has an owner and no claim token (admin/store.rs,     *)
(* insert_account; mod.rs, note_finished_auth; console.rs and panel/auth.rs, the claims).    *)
THEOREM ClaimedOnce == Spec => []ClaimedHasOwner
<1>1. IInv => ClaimedHasOwner
  BY DEF IInv, Claims
<1> QED
  BY <1>1, Invariance, PTL
===============================================================================
