---------------------------- MODULE PanelSessions ----------------------------
(***************************************************************************)
(* The admin panel (panel/auth.rs, panel/accounts.rs, panel/status.rs): its    *)
(* sessions, the logins that make them, the requests that change accounts and   *)
(* groups, and the sockets that feed a page.  Every handler is a task; it asks   *)
(* the game task and waits, and the others go on meanwhile.                      *)
(*                                                                           *)
(* Every request is one of two kinds, by the permission it needs; which account,  *)
(* group and permission it names is chosen when the game task carries it out, as   *)
(* nothing looks at them before.  Requests that only read are left out.  A login   *)
(* that claims the server is AuthPipeline's.                                       *)
(***************************************************************************)
EXTENDS AdminStore, Throttle

CONSTANTS
  Tokens,       \* the session tokens handed out in one run
  NoSession,    \* a token nobody was given, or that was removed
  Requests,     \* requests that can be under way together
  NoRequest,    \* none is
  IdleTimeout,  \* SESSION_IDLE_TIMEOUT
  PanelView,    \* panel.view
  AddressOf,    \* where each attempt comes from
  OwnName       \* of some attempts, the account whose owner makes no others

ASSUME PanelAssumption ==
  /\ IdleTimeout \in Nat
  /\ PanelView \in Perms /\ Names \subseteq Keys /\ AddressOf \in [Attempts -> Keys]
  /\ DOMAIN OwnName \subseteq Attempts /\ \A a \in DOMAIN OwnName : OwnName[a] \in Names

VARIABLES
  sessions,  \* PanelState.sessions: for each token, whose it is and since when unused
  issued,    \* tokens that have been handed out; each is random, and never comes twice
  lookups,   \* for each login under way, the name and what PanelAuthLookup said of it
  requests,  \* requests under way, with the account and permission of each
  feeds      \* tokens whose socket is open

panelVars == <<sessions, issued, lookups, requests, feeds>>
vars == <<storeVars, throttleVars, panelVars>>

TypeOK ==
  /\ StoreTypeOK /\ ThrottleTypeOK
  /\ sessions \in [Tokens -> [name : Names, idle : 0 .. IdleTimeout + 1] \cup {NoSession}]
  /\ issued \subseteq Tokens /\ feeds \subseteq Tokens
  /\ lookups \in [Attempts -> [name : Names, view : BOOLEAN]]
  /\ requests \in [Requests -> [name : Names, need : Perms, granted : BOOLEAN] \cup {NoRequest}]

(* ---- sessions ------------------------------------------------------------------- *)

(* session_name: a token in use becomes fresh, one idle too long is removed. *)
Live(t) == sessions[t] # NoSession /\ sessions[t].idle <= IdleTimeout
Removed(t) == [sessions EXCEPT ![t] = NoSession]
LookedUp(t) == IF Live(t) THEN [sessions EXCEPT ![t].idle = 0] ELSE Removed(t)

Logout(t) ==
  /\ sessions[t] # NoSession
  /\ sessions' = Removed(t)
  /\ UNCHANGED <<storeVars, throttleVars, issued, lookups, requests, feeds>>

(* Hours in which nothing is asked. *)
Idle ==
  /\ sessions' = [t \in Tokens |-> IF sessions[t] = NoSession THEN NoSession
                                   ELSE [sessions[t] EXCEPT !.idle = AtMost(@ + 1, IdleTimeout + 1)]]
  /\ UNCHANGED <<storeVars, throttleVars, issued, lookups, requests, feeds>>

(* ---- login: the lookup, the throttles, the hash, and a session for it --------------- *)

NoLookup == [name |-> CHOOSE n \in Names : TRUE, view |-> FALSE]

Login(a, n, right) ==
  /\ right => Exists(n)
  /\ a \in DOMAIN OwnName => right /\ n = OwnName[a]
  /\ Begins(a, {n, AddressOf[a]}, right)
  /\ lookups' = IF attempts'[a] = NoAttempt THEN lookups
                 ELSE [lookups EXCEPT ![a] = [name |-> n, view |-> Authorized(n, PanelView)]]
  /\ UNCHANGED <<storeVars, sessions, issued, requests, feeds>>

(* issue_session *)
Issued(n, t) ==
  /\ t \notin issued
  /\ issued' = issued \cup {t}
  /\ sessions' = [sessions EXCEPT ![t] = [name |-> n, idle |-> 0]]

(* What the lookup said is a hash old by now. *)
LoginEnds(a) ==
  /\ Concludes(a)
  /\ IF attempts[a].right /\ lookups[a].view
     THEN \E t \in Tokens : Issued(lookups[a].name, t)
     ELSE UNCHANGED <<sessions, issued>>
  /\ lookups' = [lookups EXCEPT ![a] = NoLookup]
  /\ UNCHANGED <<storeVars, requests, feeds>>

Second == Elapse /\ UNCHANGED <<storeVars, panelVars>>

(* ---- requests -------------------------------------------------------------------- *)

(* authorized_token: the session is looked up, and the game asked about its account. *)
Ask(r, t, need) ==
  /\ requests[r] = NoRequest /\ sessions[t] # NoSession
  /\ sessions' = LookedUp(t)
  /\ requests' = IF Live(t)
                 THEN [requests EXCEPT ![r] = [name |-> sessions[t].name, need |-> need, granted |-> FALSE]]
                 ELSE requests
  /\ UNCHANGED <<storeVars, throttleVars, issued, lookups, feeds>>

Done(r) == [requests EXCEPT ![r] = NoRequest]

Answer(r) ==
  /\ requests[r] # NoRequest /\ ~requests[r].granted
  /\ requests' = IF Authorized(requests[r].name, requests[r].need)
                 THEN [requests EXCEPT ![r].granted = TRUE]
                 ELSE Done(r)
  /\ UNCHANGED <<storeVars, throttleVars, sessions, issued, lookups, feeds>>

(* Carried out on the game task, or refused there. *)
CarryOut(r) ==
  /\ requests[r] # NoRequest /\ requests[r].granted
  /\ requests' = Done(r)
  /\ \/ requests[r].need = AdminAccounts /\ AccountChange(requests[r].name)
     \/ requests[r].need = AdminGroups /\ GroupChange(requests[r].name)
     \/ UNCHANGED storeVars
  /\ UNCHANGED <<throttleVars, sessions, issued, lookups, feeds>>

Chat == ChatStep /\ UNCHANGED <<throttleVars, panelVars>>

(* ---- sockets ---------------------------------------------------------------------- *)

MaySee(t) == Live(t) /\ Authorized(sessions[t].name, PanelView)

Upgrade(t) ==
  /\ t \notin feeds /\ sessions[t] # NoSession
  /\ sessions' = LookedUp(t)
  /\ feeds' = IF MaySee(t) THEN feeds \cup {t} ELSE feeds
  /\ UNCHANGED <<storeVars, throttleVars, issued, lookups, requests>>

(* stream_status, stream_world: the whole check again on every refresh. *)
Refreshed_UnlessGone(t) == IF sessions[t] = NoSession THEN feeds \ {t} ELSE feeds
Refreshed(t) == IF MaySee(t) THEN feeds ELSE feeds \ {t}

FeedTick(t) ==
  /\ t \in feeds
  /\ sessions' = LookedUp(t)
  /\ feeds' = Refreshed(t)
  /\ UNCHANGED <<storeVars, throttleVars, issued, lookups, requests>>

(* ---- the whole panel ---------------------------------------------------------------- *)

(* Sessions are not kept anywhere; the panel starts with none. *)
InitWith(signedIn) ==
  /\ StoreInit /\ ThrottleInit
  /\ sessions = signedIn
  /\ issued = {t \in Tokens : signedIn[t] # NoSession}
  /\ lookups = [a \in Attempts |-> NoLookup]
  /\ requests = [r \in Requests |-> NoRequest]
  /\ feeds = {}

Init == InitWith([t \in Tokens |-> NoSession])

LoginStep(a) == \/ \E n \in Names, right \in BOOLEAN : Login(a, n, right)
                \/ LoginEnds(a)

RequestStep(r) ==
  \/ \E t \in Tokens, need \in {AdminAccounts, AdminGroups} : Ask(r, t, need)
  \/ Answer(r) \/ CarryOut(r)

Next ==
  \/ \E a \in Attempts : LoginStep(a)
  \/ \E r \in Requests : RequestStep(r)
  \/ \E t \in Tokens : Logout(t) \/ Upgrade(t) \/ FeedTick(t)
  \/ Idle \/ Second \/ Chat

(* Sockets refresh on an interval, the hashing threads finish, the clock goes on. *)
PanelFairness ==
  /\ \A t \in Tokens : WF_vars(FeedTick(t))
  /\ \A a \in Attempts : WF_vars(LoginEnds(a))
  /\ WF_vars(Second)

Spec == Init /\ [][Next]_vars /\ PanelFairness

(* ---- properties --------------------------------------------------------------------- *)

(* A socket does not outlive the right to it: once its session is gone, or expired, or    *)
(* its account deleted or moved to where it may not see the panel, it is closed.           *)
FeedsEnd == \A t \in Tokens : (<>[](~MaySee(t))) => <>[](t \notin feeds)

(* "Neither window can be forced open forever by a third party": however many go on guessing,  *)
(* together and one after the other, every window closes again, as what is refused meanwhile      *)
(* costs nothing and what was hashed meanwhile counts from when it was asked.                      *)
WindowsClose == \A k \in Keys : []<>(wait[k] = 0)

(* "A real owner trying their own account mid-attack waits at most that long": again and again    *)
(* there is a moment at which the owner of an account is not refused.                              *)
WaitsAtMostThatLong ==
  \A a \in DOMAIN OwnName : []<>(\A k \in {OwnName[a], AddressOf[a]} : wait[k] = 0)
=============================================================================
