----------------------------- MODULE MCFrontDoors -----------------------------
(* The two ways in, the listener for players and the panel, and the log of what is  *)
(* done by those let in.  They share nothing, and the store, the logins and the      *)
(* sockets of the panel touch each other in the sessions only; which of them is in   *)
(* use is chosen at the start.                                                        *)
EXTENDS PanelSessions, Listener, AuditLog

VARIABLE focus

MCNames    == {"ann", "bob"}
MCPerms    == {"*", "groups", "accounts", "view"}
MCCovers   == [p \in MCPerms |-> {p, "*"}]
MCAccounts == [n \in MCNames |-> IF n = "ann" THEN "owner" ELSE "default"]
MCGroups   == [g \in {"owner", "default"} |-> IF g = "owner" THEN {"*"} ELSE {}]
MCAddress  == [a \in {"owner", "guess1", "guess2"} |-> IF a = "guess1" THEN "away" ELSE "home"]

(* As after a login of each. *)
MCSessions == [t \in Tokens |-> [name |-> IF t = 1 THEN "ann" ELSE "bob", idle |-> 0]]

MCSocketFrom == [c \in {"c1", "c2", "c3", "c4"} |-> IF c = "c4" THEN "away" ELSE "home"]
MCOwnName == [a \in {"owner"} |-> "ann"]

(* Who is not the owner guesses, at any account. *)
Guessers == Attempts \ DOMAIN OwnName
Guess(a) == LoginEnds(a) \/ \E n \in Names : Login(a, n, FALSE)

MCInit ==
  /\ ListenerInit /\ LogInit
  /\ \/ focus \in {"logins", "listener", "log"} /\ Init
     \/ focus \in {"store", "sockets"} /\ InitWith(MCSessions)

MCNext ==
  /\ UNCHANGED focus
  /\ \/ /\ focus = "store" /\ UNCHANGED <<listenerVars, logVars>>
        /\ Chat \/ \E r \in Requests : RequestStep(r)
     \/ /\ focus = "logins" /\ UNCHANGED <<listenerVars, logVars>>
        /\ Second \/ LoginStep("owner") \/ \E a \in Guessers : Guess(a)
     \/ /\ focus = "sockets" /\ UNCHANGED <<listenerVars, logVars>>
        /\ \/ Chat \/ Idle
           \/ RequestStep("r1") /\ groups' = groups
           \/ \E t \in Tokens : Logout(t) \/ Upgrade(t) \/ FeedTick(t)
     \/ focus = "listener" /\ ListenerStep /\ UNCHANGED <<vars, logVars>>
     \/ focus = "log" /\ LogStep /\ UNCHANGED <<vars, listenerVars>>

MCSpec == MCInit /\ [][MCNext]_<<vars, listenerVars, logVars, focus>> /\ PanelFairness
===============================================================================
