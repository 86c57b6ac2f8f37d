------------------------------ MODULE AdminStore ------------------------------
(***************************************************************************)
(* Accounts and groups of a server that has been claimed (admin/store.rs,     *)
(* admin/group.rs), and the operations that change who may do what: the       *)
(* panel's (game/server/panel.rs), each of which runs on the game task for    *)
(* the account that asked, and /group in chat (game/server/console.rs).       *)
(*                                                                           *)
(* A permission is a member of Perms, the wildcards among them; Covers says    *)
(* which of them grant it.  Names are folded to one case, groups are neither   *)
(* added nor removed (no operation does), and every account's group exists.    *)
(* The console's own group command, which obeys no rule, is left out.          *)
(***************************************************************************)
EXTENDS Integers, FiniteSets

CONSTANTS
  Names,         \* account names
  Groups,        \* the groups of the admin file
  Perms,         \* permission names and wildcards
  Covers,        \* for each permission, those whose holder has it
  AdminGroups,   \* admin.groups, which may edit groups
  AdminAccounts, \* admin.accounts, which may make, move and delete accounts
  DefaultGroup,  \* the group of a player who is not signed in
  StartAccounts, \* the accounts at the start, each in its group
  StartGroups,   \* what each group grants at the start
  NoAccount      \* a name nobody registered

ASSUME CoversAssumption ==
  /\ Covers \in [Perms -> SUBSET Perms]
  /\ \A p \in Perms : p \in Covers[p]
  /\ \A p, q \in Perms : q \in Covers[p] => Covers[q] \subseteq Covers[p]
ASSUME NamesAssumption      == Names # {}
ASSUME AdminPermsAssumption == AdminGroups \in Perms /\ AdminAccounts \in Perms
ASSUME DefaultAssumption    == DefaultGroup \in Groups /\ NoAccount \notin Groups
ASSUME StartAssumption      == /\ StartAccounts \in [Names -> Groups \cup {NoAccount}]
                               /\ StartGroups \in [Groups -> SUBSET Perms]

VARIABLES
  accounts,  \* for each name, its account's group
  groups,    \* for each group, the permissions in its list
  chatMoved  \* history: /group has moved an account

storeVars == <<accounts, groups, chatMoved>>

StoreTypeOK ==
  /\ accounts \in [Names -> Groups \cup {NoAccount}]
  /\ groups \in [Groups -> SUBSET Perms]
  /\ chatMoved \in BOOLEAN

Exists(n) == accounts[n] # NoAccount

(* group::grants *)
Grants(held, p) == Covers[p] \cap held # {}

(* Whoever claimed the server is its owner, and may do everything. *)
ASSUME OwnerAssumption ==
  \E n \in Names : StartAccounts[n] # NoAccount /\ Grants(StartGroups[StartAccounts[n]], AdminGroups)

(* PanelAuthorize: asked of the account there is now. *)
Authorized(n, p) == Exists(n) /\ Grants(groups[accounts[n]], p)

(* group_within_reach: the actor's group already has all that the other grants. *)
WithinReach_Admins(actor, target) ==
  Grants(groups[target], AdminGroups) => Grants(groups[actor], AdminGroups)
WithinReach(actor, target) == \A p \in groups[target] : Grants(groups[actor], p)

(* admin_capable_accounts, if the groups were gs. *)
CapableWith(gs) == {n \in Names : Exists(n) /\ Grants(gs[accounts[n]], AdminGroups)}
Capable == CapableWith(groups)

(* n is the last who can still administer the server. *)
LastAdmin_Never(n) == FALSE
LastAdmin(n) == n \in Capable /\ Capable \subseteq {n}

(* ---- the panel's operations, for the account actor ------------------------------ *)

SetAccountGroup(actor, n, g) ==
  /\ Exists(actor) /\ Exists(n)
  /\ WithinReach(accounts[actor], g)
  /\ LastAdmin(n) => Grants(groups[g], AdminGroups)
  /\ accounts' = [accounts EXCEPT ![n] = g]
  /\ UNCHANGED <<groups, chatMoved>>

CreateAccount(actor, n, g) ==
  /\ Exists(actor) /\ ~Exists(n)
  /\ WithinReach(accounts[actor], g)
  /\ accounts' = [accounts EXCEPT ![n] = g]
  /\ UNCHANGED <<groups, chatMoved>>

DeleteAccount(actor, n) ==
  /\ Exists(actor) /\ Exists(n)
  /\ WithinReach(accounts[actor], accounts[n])
  /\ ~LastAdmin(n)
  /\ accounts' = [accounts EXCEPT ![n] = NoAccount]
  /\ UNCHANGED <<groups, chatMoved>>

GrantPermission(actor, g, p) ==
  /\ Exists(actor) /\ Grants(groups[accounts[actor]], p)
  /\ groups' = [groups EXCEPT ![g] = @ \cup {p}]
  /\ UNCHANGED <<accounts, chatMoved>>

(* Taken away, counted, and put back if that leaves nobody. *)
RevokePermission(actor, g, p) ==
  /\ Exists(actor)
  /\ groups' = [groups EXCEPT ![g] = @ \ {p}]
  /\ groups' # groups => CapableWith(groups') # {}
  /\ UNCHANGED <<accounts, chatMoved>>

AccountChange(actor) ==
  \E n \in Names :
    \/ DeleteAccount(actor, n)
    \/ \E g \in Groups : SetAccountGroup(actor, n, g) \/ CreateAccount(actor, n, g)

GroupChange(actor) ==
  \E g \in Groups, p \in Perms : GrantPermission(actor, g, p) \/ RevokePermission(actor, g, p)

(* ---- chat: /group, by a player signed in as n or as nobody (group_of) -------------- *)

GroupOf(n) == IF n \in Names /\ Exists(n) THEN accounts[n] ELSE DefaultGroup

ChatGroup(asker, n, g) ==
  /\ Grants(groups[GroupOf(asker)], AdminAccounts)
  /\ WithinReach(GroupOf(asker), g)
  /\ Exists(n)
  /\ accounts' = [accounts EXCEPT ![n] = g]
  /\ chatMoved' = TRUE
  /\ UNCHANGED groups

(* /register on a claimed server; AuthPipeline has the hash it waits for. *)
ChatRegister(n) ==
  /\ ~Exists(n) /\ \E m \in Names : Exists(m)
  /\ accounts' = [accounts EXCEPT ![n] = DefaultGroup]
  /\ UNCHANGED <<groups, chatMoved>>

ChatStep ==
  \E n \in Names :
    \/ ChatRegister(n)
    \/ \E asker \in Names \cup {NoAccount}, g \in Groups : ChatGroup(asker, n, g)

StoreInit == accounts = StartAccounts /\ groups = StartGroups /\ chatMoved = FALSE

(* ---- properties ----------------------------------------------------------------- *)

(* As long as accounts are moved from the panel only, somebody can always edit who may *)
(* do what: no order of deletions, moves and edits of groups, by however many           *)
(* administrators at once, takes the last one away.                                      *)
SomebodyAdministers == chatMoved \/ Capable # {}

(* All that anybody may do: an account, or a player without one. *)
InUse  == {DefaultGroup} \cup {accounts[n] : n \in {m \in Names : Exists(m)}}
Powers == {p \in Perms : \E g \in InUse : Grants(groups[g], p)}

(* Power only changes hands: no operation lets anybody do what nobody could do before,  *)
(* so whoever is not an owner cannot become one, alone or with others.                   *)
PowerOnlyMoves == [][Powers' \subseteq Powers]_storeVars
=============================================================================
