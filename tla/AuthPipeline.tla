----------------------------- MODULE AuthPipeline -----------------------------
(***************************************************************************)
(* Accounts, sessions and the password hashes between them                  *)
(* (game/server/mod.rs, game/server/console.rs, admin/store.rs).  A player   *)
(* types /register or /login; the game task checks what is cheap, reserves   *)
(* the slot in auth_in_flight and spawns a blocking thread that hashes.  The  *)
(* thread posts its answer, which a later tick applies to the slot it was     *)
(* asked from (note_finished_auth).  The player may leave, and the slot be    *)
(* given to somebody else, in between.  An unclaimed server has no accounts   *)
(* and one claim token; whoever spends it owns the server.                    *)
(*                                                                           *)
(* Passwords are abstracted to whether they verify, the attempt throttle to   *)
(* a request that may go unanswered (which changes nothing here), and the     *)
(* player table to who sits where.                                            *)
(***************************************************************************)
EXTENDS Integers, Sequences, FiniteSets

CONSTANTS
  Conns,            \* the connections that pass through in one run, each once
  Slots,            \* the player slots
  Names,            \* account names, already folded to one case
  MaxAuthInFlight,  \* MAX_AUTH_IN_FLIGHT
  Nobody,           \* no connection, and no account
  PanelOn           \* the web panel is served, whose login can claim the server

ASSUME FiniteAssumption  == IsFiniteSet(Conns) /\ IsFiniteSet(Slots) /\ IsFiniteSet(Names)
ASSUME CeilingAssumption == MaxAuthInFlight \in Nat \ {0}
ASSUME NobodyAssumption  == Nobody \notin Conns /\ Nobody \notin Names
ASSUME PanelAssumption   == PanelOn \in BOOLEAN

VARIABLES
  seat,      \* who sits in each slot
  arrived,   \* connections that have had their visit
  inFlight,  \* auth_in_flight: slots whose one hash is reserved
  hashing,   \* the blocking threads at work
  results,   \* auth_results: outcomes not yet applied
  accounts,  \* names with an account
  owners,    \* of these, the ones in the owner group
  token,     \* the claim token is still good
  claiming,  \* names the panel is hashing an owner account for
  signedIn,  \* per slot, the account it is signed in as
  proved,    \* history: <<connection, account>> whose password was checked and right
  late       \* history: somebody left while a hash of theirs was under way

vars == <<seat, arrived, inFlight, hashing, results, accounts, owners, token, claiming,
          signedIn, proved, late>>

(* One hash: where it was asked from, by whom, and what it will turn out. *)
Job == [kind : {"Registered", "SignedIn"}, slot : Slots, asker : Conns, account : Names,
        first : BOOLEAN, correct : BOOLEAN]

Jobs == [i \in 1 .. Len(hashing) + Len(results) |->
           IF i <= Len(hashing) THEN hashing[i] ELSE results[i - Len(hashing)]]

Without(q, i) == [j \in 1 .. Len(q) - 1 |-> IF j < i THEN q[j] ELSE q[j + 1]]

(* ---- the player table ---------------------------------------------------------- *)

Arrive(c, s) ==
  /\ c \notin arrived /\ seat[s] = Nobody
  /\ seat' = [seat EXCEPT ![s] = c]
  /\ arrived' = arrived \cup {c}
  /\ UNCHANGED <<inFlight, hashing, results, accounts, owners, token, claiming, signedIn,
                 proved, late>>

SignOut(sessions, s) == [sessions EXCEPT ![s] = Nobody]

(* disconnect: the reservation goes, and the session; a hash under way does not. *)
Depart(s) ==
  /\ seat[s] # Nobody
  /\ seat' = [seat EXCEPT ![s] = Nobody]
  /\ inFlight' = inFlight \ {s}
  /\ signedIn' = SignOut(signedIn, s)
  /\ late' = (late \/ \E i \in DOMAIN Jobs : Jobs[i].asker = seat[s])
  /\ UNCHANGED <<arrived, hashing, results, accounts, owners, token, claiming, proved>>

(* ---- commands ------------------------------------------------------------------- *)

Unclaimed == accounts = {}

(* start_auth: the slot's one hash, and one of the server's few. *)
MayStart(s) == s \notin inFlight /\ Cardinality(inFlight) < MaxAuthInFlight

StartAuth(s, job) ==
  /\ MayStart(s)
  /\ inFlight' = inFlight \cup {s}
  /\ hashing'  = Append(hashing, job)

(* /register: on an unclaimed server only with the claim token, and then as owner. *)
MayRegister_Freely(rightToken) == TRUE
MayRegister(rightToken) == Unclaimed => token /\ rightToken

Register(s, n, rightToken) ==
  /\ seat[s] # Nobody
  /\ MayRegister(rightToken)
  /\ n \notin accounts
  /\ StartAuth(s, [kind |-> "Registered", slot |-> s, asker |-> seat[s], account |-> n,
                   first |-> Unclaimed /\ rightToken, correct |-> TRUE])
  /\ UNCHANGED <<seat, arrived, results, accounts, owners, token, claiming, signedIn, proved, late>>

(* /login: a name without an account is hashed all the same, and is wrong. *)
Login(s, n, rightPassword) ==
  /\ seat[s] # Nobody
  /\ StartAuth(s, [kind |-> "SignedIn", slot |-> s, asker |-> seat[s], account |-> n,
                   first |-> FALSE, correct |-> rightPassword /\ n \in accounts])
  /\ UNCHANGED <<seat, arrived, results, accounts, owners, token, claiming, signedIn, proved, late>>

Logout(s) ==
  /\ seat[s] # Nobody /\ signedIn[s] # Nobody
  /\ signedIn' = SignOut(signedIn, s)
  /\ UNCHANGED <<seat, arrived, inFlight, hashing, results, accounts, owners, token, claiming,
                 proved, late>>

(* insert_account refuses a name that was taken meanwhile. *)
InsertAccount(n) == n \notin accounts /\ accounts' = accounts \cup {n}

SpendToken(first) == token /\ ~first

(* The console's claim hashes on the game task itself. *)
ConsoleClaim(n) ==
  /\ Unclaimed
  /\ InsertAccount(n)
  /\ owners' = owners \cup {n}
  /\ token'  = SpendToken(TRUE)
  /\ UNCHANGED <<seat, arrived, inFlight, hashing, results, claiming, signedIn, proved, late>>

(* The panel's login looks the server up, hashes an owner account in its own task,  *)
(* and sends it to be inserted.                                                      *)
PanelClaim(n) ==
  /\ PanelOn /\ Unclaimed /\ token
  /\ claiming' = claiming \cup {n}
  /\ UNCHANGED <<seat, arrived, inFlight, hashing, results, accounts, owners, token, signedIn,
                 proved, late>>

PanelInsertAccount(n) ==
  /\ n \in claiming
  /\ claiming' = claiming \ {n}
  /\ \/ /\ InsertAccount(n)
        /\ owners' = owners \cup {n}
        /\ token'  = SpendToken(TRUE)
     \/ n \in accounts /\ UNCHANGED <<accounts, owners, token>>
  /\ UNCHANGED <<seat, arrived, inFlight, hashing, results, signedIn, proved, late>>

(* ---- the blocking threads, and their answers ----------------------------------------- *)

HashFinishes(i) ==
  /\ hashing' = Without(hashing, i)
  /\ results' = Append(results, hashing[i])
  /\ UNCHANGED <<seat, arrived, inFlight, accounts, owners, token, claiming, signedIn, proved, late>>

Answered(kind) == results # << >> /\ Head(results).kind = kind /\ results' = Tail(results)

(* The slot may hash again. *)
Released_OnSuccess(job) == IF job.correct THEN inFlight \ {job.slot} ELSE inFlight
Released(job) == inFlight \ {job.slot}

(* note_finished_auth polls every outcome there is in one tick; one at a time is    *)
(* the same, as an outcome not polled is one whose thread took longer.               *)
NoteRegistered ==
  /\ Answered("Registered")
  /\ LET job == Head(results) IN
     /\ inFlight' = Released(job)
     /\ \/ /\ InsertAccount(job.account)
           /\ owners' = IF job.first THEN owners \cup {job.account} ELSE owners
           /\ token'  = SpendToken(job.first)
        \/ job.account \in accounts /\ UNCHANGED <<accounts, owners, token>>
  /\ UNCHANGED <<seat, arrived, hashing, claiming, signedIn, proved, late>>

(* complete_sign_in, for the slot the question came from. *)
CompleteSignIn_Always(job) == [signedIn EXCEPT ![job.slot] = job.account]
CompleteSignIn(job) ==
  IF job.correct /\ job.account \in accounts
  THEN [signedIn EXCEPT ![job.slot] = job.account] ELSE signedIn

NoteSignedIn ==
  /\ Answered("SignedIn")
  /\ LET job == Head(results) IN
     /\ inFlight' = Released(job)
     /\ signedIn' = CompleteSignIn(job)
     /\ proved'   = IF job.correct THEN proved \cup {<<job.asker, job.account>>} ELSE proved
  /\ UNCHANGED <<seat, arrived, hashing, accounts, owners, token, claiming, late>>

(* ---- the whole system ------------------------------------------------------------------ *)

Init ==
  /\ seat = [s \in Slots |-> Nobody] /\ arrived = {}
  /\ inFlight = {} /\ hashing = << >> /\ results = << >>
  /\ accounts = {} /\ owners = {} /\ token = TRUE /\ claiming = {}
  /\ signedIn = [s \in Slots |-> Nobody]
  /\ proved = {} /\ late = FALSE

NoteFinishedAuth == NoteRegistered \/ NoteSignedIn
WorkerStep == \E i \in DOMAIN hashing : HashFinishes(i)

Next ==
  \/ \E s \in Slots :
       \/ \E c \in Conns : Arrive(c, s)
       \/ Depart(s) \/ Logout(s)
       \/ \E n \in Names, right \in BOOLEAN : Register(s, n, right) \/ Login(s, n, right)
  \/ \E n \in Names : ConsoleClaim(n) \/ PanelClaim(n) \/ PanelInsertAccount(n)
  \/ WorkerStep
  \/ NoteFinishedAuth

Spec == Init /\ [][Next]_vars

(* ---- properties -------------------------------------------------------------------------- *)

(* Type correctness of the whole state. *)
TypeOK ==
  /\ seat \in [Slots -> Conns \cup {Nobody}] /\ arrived \subseteq Conns
  /\ inFlight \subseteq Slots
  /\ hashing \in Seq(Job) /\ results \in Seq(Job)
  /\ accounts \subseteq Names /\ owners \subseteq accounts
  /\ token \in BOOLEAN /\ claiming \subseteq Names
  /\ signedIn \in [Slots -> Names \cup {Nobody}]
  /\ proved \subseteq Conns \X Names /\ late \in BOOLEAN

(* No reservation leaks: a slot that may not start a hash has one on its way, so the *)
(* ceiling is never held by nobody ("would hold all of them").  And as long as nobody  *)
(* has left with a hash under way, the ceiling bounds the hashes themselves, one per    *)
(* slot, each asked for by whoever sits there.                                           *)
HashesReserved ==
  /\ \A s \in inFlight : \E i \in DOMAIN Jobs : Jobs[i].slot = s
  /\ ~late => /\ Len(Jobs) <= MaxAuthInFlight
              /\ \A i, j \in DOMAIN Jobs : Jobs[i].slot = Jobs[j].slot => i = j
              /\ \A i \in DOMAIN Jobs : Jobs[i].slot \in inFlight /\ seat[Jobs[i].slot] = Jobs[i].asker

(* A session belongs to the connection that gave the password for it, as long as      *)
(* nobody has left with a hash under way: a slot does not hand its rights on.          *)
SessionProved ==
  ~late => \A s \in Slots : signedIn[s] # Nobody => <<seat[s], signedIn[s]>> \in proved

(* The same without the condition: "whoever reuses this slot starts as nobody".       *)
SessionAlwaysProved ==
  \A s \in Slots : signedIn[s] # Nobody => <<seat[s], signedIn[s]>> \in proved

(* A server with accounts has an owner, and its claim token is spent: however many     *)
(* registrations were under way when it was claimed.                                    *)
ClaimedHasOwner == accounts # {} => owners # {} /\ ~token
===============================================================================
