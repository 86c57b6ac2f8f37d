-------------------------- MODULE FrontDoors_proofs --------------------------
(***************************************************************************)
(* The two ways in.  Nobody gains a power that nobody had, and the panel never *)
(* takes the last administrator away, for every set of names, groups and       *)
(* permissions, and for any number of requests, logins and sessions; and the    *)
(* places of the listener are accounted for, for any number of sockets and      *)
(* addresses and for every limit.  And the log of what administrators did keeps  *)
(* its order through every rotation, failure and crash, whatever its limits.       *)
(***************************************************************************)
EXTENDS PanelSessions, Listener, AuditLog, FiniteSetTheorems, SequenceTheorems, TLAPS

(* ---- the panel and its store ------------------------------------------------ *)

(* The store only ever changes by these steps, whatever the panel does besides. *)
StoreNext ==
  \/ \E actor \in Names : AccountChange(actor) \/ GroupChange(actor)
  \/ ChatStep

(* Permissions grant along Covers: what a group has, it has through one that it lists. *)
LEMMA GrantsTransitive ==
  ASSUME NEW granted \in SUBSET Perms, NEW more \in SUBSET Perms, NEW q \in Perms,
         \A p \in more : Grants(granted, p), Grants(more, q)
  PROVE  Grants(granted, q)
<1>1. PICK c \in Covers[q] \cap more : TRUE
  BY DEF Grants
<1>2. PICK d \in Covers[c] \cap granted : TRUE
  BY <1>1 DEF Grants
<1>3. d \in Covers[q]
  BY <1>1, <1>2, CoversAssumption
<1> QED
  BY <1>2, <1>3 DEF Grants

(* A group within reach has no power that the one that reaches it lacks. *)
LEMMA ReachAddsNothing ==
  ASSUME StoreTypeOK, NEW a \in Groups, NEW g \in Groups, WithinReach(a, g), NEW q \in Perms,
         Grants(groups[g], q)
  PROVE  Grants(groups[a], q)
BY GrantsTransitive DEF StoreTypeOK, WithinReach

LEMMA StoreTypeInit == StoreInit => StoreTypeOK
BY StartAssumption DEF StoreInit, StoreTypeOK

LEMMA StoreTypeStep ==
  ASSUME StoreTypeOK, StoreNext \/ UNCHANGED storeVars PROVE StoreTypeOK'
<1>1. CASE UNCHANGED storeVars
  BY <1>1 DEF StoreTypeOK, storeVars
<1>2. ASSUME NEW actor \in Names, AccountChange(actor) PROVE StoreTypeOK'
  BY <1>2 DEF StoreTypeOK, AccountChange, DeleteAccount, SetAccountGroup, CreateAccount
<1>3. ASSUME NEW actor \in Names, GroupChange(actor) PROVE StoreTypeOK'
  BY <1>3 DEF StoreTypeOK, GroupChange, GrantPermission, RevokePermission
<1>4. CASE ChatStep
  BY <1>4, DefaultAssumption DEF StoreTypeOK, ChatStep, ChatRegister, ChatGroup
<1> QED
  BY <1>1, <1>2, <1>3, <1>4 DEF StoreNext

-----------------------------------------------------------------------------
(* ---- power -------------------------------------------------------------- *)

(* An account that is moved, or made, gets what its new group grants, which somebody *)
(* in use, the actor, has already.                                                    *)
LEMMA MoveKeepsPowers ==
  ASSUME StoreTypeOK, NEW a \in InUse, NEW n \in Names, NEW g \in Groups,
         WithinReach(a, g) \/ g = DefaultGroup,
         accounts' = [accounts EXCEPT ![n] = g], groups' = groups
  PROVE  Powers' \subseteq Powers
<1> SUFFICES ASSUME NEW q \in Perms, NEW h \in InUse', Grants(groups'[h], q)
             PROVE  \E k \in InUse : Grants(groups[k], q)
  BY DEF Powers
<1>1. a \in Groups
  BY DefaultAssumption DEF InUse, StoreTypeOK, Exists
<1>2. h \in InUse \/ h = g
  BY DefaultAssumption DEF InUse, StoreTypeOK, Exists
<1>3. CASE h \in InUse
  BY <1>3
<1>4. CASE h = g /\ WithinReach(a, g)
  <2>1. Grants(groups[a], q)
    BY <1>1, <1>4, ReachAddsNothing
  <2> QED
    BY <2>1
<1>5. CASE h = g /\ g = DefaultGroup
  BY <1>5 DEF InUse
<1> QED
  BY <1>2, <1>3, <1>4, <1>5

LEMMA ActorInUse ==
  ASSUME StoreTypeOK, NEW actor \in Names, Exists(actor) PROVE accounts[actor] \in InUse
BY DEF InUse

LEMMA AskerInUse ==
  ASSUME StoreTypeOK, NEW asker PROVE GroupOf(asker) \in InUse
BY DEF InUse, GroupOf

LEMMA PowersStep ==
  ASSUME StoreTypeOK, StoreNext \/ UNCHANGED storeVars PROVE Powers' \subseteq Powers
<1>1. CASE UNCHANGED storeVars
  BY <1>1 DEF storeVars, Powers, InUse, Exists, Grants
<1>2. ASSUME NEW actor \in Names, NEW n \in Names, NEW g \in Groups,
             SetAccountGroup(actor, n, g) \/ CreateAccount(actor, n, g)
      PROVE  Powers' \subseteq Powers
  BY <1>2, ActorInUse, MoveKeepsPowers DEF SetAccountGroup, CreateAccount
<1>3. ASSUME NEW actor \in Names, NEW n \in Names, DeleteAccount(actor, n)
      PROVE  Powers' \subseteq Powers
  <2>1. InUse' \subseteq InUse
    BY <1>3, DefaultAssumption DEF DeleteAccount, InUse, Exists, StoreTypeOK
  <2> QED
    BY <1>3, <2>1 DEF DeleteAccount, Powers, Grants
<1>4. ASSUME NEW actor \in Names, NEW g \in Groups, NEW p \in Perms, GrantPermission(actor, g, p)
      PROVE  Powers' \subseteq Powers
  <2> SUFFICES ASSUME NEW q \in Perms, NEW h \in InUse, Grants(groups'[h], q)
               PROVE  \E k \in InUse : Grants(groups[k], q)
    BY <1>4 DEF GrantPermission, Powers, InUse, Exists
  <2>1. CASE Grants(groups[h], q)
    BY <2>1
  <2>2. CASE ~Grants(groups[h], q)
    <3>1. p \in Covers[q]
      BY <1>4, <2>2 DEF GrantPermission, Grants, StoreTypeOK
    <3>2. Grants(groups[accounts[actor]], p) /\ Exists(actor)
      BY <1>4 DEF GrantPermission
    <3>3. Grants(groups[accounts[actor]], q)
      BY <3>1, <3>2, CoversAssumption DEF Grants
    <3> QED
      BY <3>2, <3>3, ActorInUse
  <2> QED
    BY <2>1, <2>2
<1>5. ASSUME NEW actor \in Names, NEW g \in Groups, NEW p \in Perms, RevokePermission(actor, g, p)
      PROVE  Powers' \subseteq Powers
  <2>1. \A h \in Groups : groups'[h] \subseteq groups[h]
    BY <1>5 DEF RevokePermission, StoreTypeOK
  <2>2. InUse' = InUse /\ InUse \subseteq Groups
    BY <1>5, DefaultAssumption DEF RevokePermission, InUse, Exists, StoreTypeOK
  <2> QED
    BY <2>1, <2>2 DEF Powers, Grants
<1>6. ASSUME NEW n \in Names, ChatRegister(n) PROVE Powers' \subseteq Powers
  BY <1>6, MoveKeepsPowers, DefaultAssumption DEF ChatRegister, InUse
<1>7. ASSUME NEW asker, NEW n \in Names, NEW g \in Groups, ChatGroup(asker, n, g)
      PROVE  Powers' \subseteq Powers
  BY <1>7, AskerInUse, MoveKeepsPowers DEF ChatGroup
<1> QED
  BY <1>1, <1>2, <1>3, <1>4, <1>5, <1>6, <1>7
     DEF StoreNext, AccountChange, GroupChange, ChatStep

-----------------------------------------------------------------------------
(* ---- administrators ------------------------------------------------------- *)

LEMMA AdministersStep ==
  ASSUME StoreTypeOK, SomebodyAdministers, StoreNext \/ UNCHANGED storeVars
  PROVE  SomebodyAdministers'
<1> SUFFICES ASSUME ~chatMoved', ~chatMoved PROVE Capable' # {}
  BY DefaultAssumption DEF SomebodyAdministers, storeVars, StoreNext, AccountChange, GroupChange,
     DeleteAccount, SetAccountGroup, CreateAccount, GrantPermission, RevokePermission, ChatStep,
     ChatRegister, ChatGroup
<1>a. PICK m \in Capable : TRUE
  BY DEF SomebodyAdministers
<1>b. m \in Names /\ Exists(m) /\ Grants(groups[accounts[m]], AdminGroups)
  BY <1>a DEF Capable, CapableWith
<1>1. CASE UNCHANGED storeVars
  BY <1>1, <1>b DEF storeVars, Capable, CapableWith, Exists, Grants
<1>2. ASSUME NEW actor \in Names, NEW n \in Names, NEW g \in Groups, SetAccountGroup(actor, n, g)
      PROVE  Capable' # {}
  <2>1. CASE LastAdmin(n)
    BY <1>2, <2>1, DefaultAssumption
       DEF SetAccountGroup, Capable, CapableWith, Exists, Grants, StoreTypeOK
  <2>2. CASE ~LastAdmin(n)
    <3>1. PICK k \in Capable : k # n
      BY <1>a, <2>2 DEF LastAdmin
    <3> QED
      BY <1>2, <3>1 DEF SetAccountGroup, Capable, CapableWith, Exists, Grants, StoreTypeOK
  <2> QED
    BY <2>1, <2>2
<1>3. ASSUME NEW actor \in Names, NEW n \in Names, DeleteAccount(actor, n) PROVE Capable' # {}
  <2>1. PICK k \in Capable : k # n
    BY <1>3, <1>a DEF LastAdmin, DeleteAccount
  <2> QED
    BY <1>3, <2>1 DEF DeleteAccount, Capable, CapableWith, Exists, Grants, StoreTypeOK
<1>4. ASSUME NEW n \in Names, NEW g \in Groups, ~Exists(n),
             accounts' = [accounts EXCEPT ![n] = g], groups' = groups
      PROVE  Capable' # {}
  BY <1>4, <1>b DEF Capable, CapableWith, Exists, Grants, StoreTypeOK
<1>5. ASSUME NEW actor \in Names, NEW g \in Groups, NEW p \in Perms, GrantPermission(actor, g, p)
      PROVE  Capable' # {}
  <2>1. accounts[m] \in Groups
    BY <1>b DEF Exists, StoreTypeOK
  <2>2. groups[accounts[m]] \subseteq groups'[accounts[m]]
    BY <1>5, <2>1 DEF GrantPermission, StoreTypeOK
  <2> QED
    BY <1>5, <1>b, <2>2 DEF GrantPermission, Capable, CapableWith, Exists, Grants
<1>6. ASSUME NEW actor \in Names, NEW g \in Groups, NEW p \in Perms, RevokePermission(actor, g, p)
      PROVE  Capable' # {}
  <2>1. CASE groups' = groups
    BY <1>6, <1>b, <2>1 DEF RevokePermission, Capable, CapableWith, Exists, Grants
  <2>2. CASE groups' # groups
    BY <1>6, <2>2 DEF RevokePermission, Capable, CapableWith, Exists, Grants
  <2> QED
    BY <2>1, <2>2
<1> QED
  BY <1>1, <1>2, <1>3, <1>4, <1>5, <1>6, DefaultAssumption
     DEF StoreNext, AccountChange, GroupChange, ChatStep, CreateAccount, ChatRegister, ChatGroup

-----------------------------------------------------------------------------
(* ---- the panel --------------------------------------------------------------- *)

(* Who a session, a login and a request is for is the name of an account, whether it   *)
(* still exists or not.                                                                 *)
NamesTypeOK ==
  /\ sessions \in [Tokens -> [name : Names, idle : Int] \cup {NoSession}]
  /\ lookups \in [Attempts -> [name : Names, view : BOOLEAN]]
  /\ requests \in [Requests -> [name : Names, need : Perms, granted : BOOLEAN] \cup {NoRequest}]

LEMMA NoLookupType == NoLookup \in [name : Names, view : BOOLEAN]
<1>1. (CHOOSE n \in Names : TRUE) \in Names
  BY NamesAssumption
<1> QED
  BY <1>1 DEF NoLookup

LEMMA NamesTypeInit == Init => NamesTypeOK
BY NoLookupType DEF Init, InitWith, NamesTypeOK

LEMMA NamesTypeStep ==
  ASSUME NamesTypeOK, [Next]_vars PROVE NamesTypeOK'
<1> USE DEF NamesTypeOK
<1>1. CASE UNCHANGED vars
  BY <1>1 DEF vars, panelVars
<1>2. ASSUME NEW a \in Attempts, LoginStep(a) PROVE NamesTypeOK'
  <2>1. ASSUME NEW n \in Names, NEW right \in BOOLEAN, Login(a, n, right) PROVE NamesTypeOK'
    <3>1. Authorized(n, PanelView) \in BOOLEAN
      BY DEF Authorized, Grants
    <3> QED
      BY <2>1, <3>1 DEF Login
  <2>2. CASE LoginEnds(a)
    BY <2>2, NoLookupType DEF LoginEnds, Issued
  <2> QED
    BY <1>2, <2>1, <2>2 DEF LoginStep
<1>3. ASSUME NEW r \in Requests, RequestStep(r) PROVE NamesTypeOK'
  <2>1. ASSUME NEW t \in Tokens, NEW need \in {AdminAccounts, AdminGroups}, Ask(r, t, need)
        PROVE  NamesTypeOK'
    <3>1. need \in Perms
      BY AdminPermsAssumption
    <3>2. sessions[t] \in [name : Names, idle : Int]
      BY <2>1 DEF Ask
    <3>3. sessions' \in [Tokens -> [name : Names, idle : Int] \cup {NoSession}]
      BY <2>1, <3>2 DEF Ask, LookedUp, Removed
    <3>4. requests' \in [Requests -> [name : Names, need : Perms, granted : BOOLEAN] \cup {NoRequest}]
      BY <2>1, <3>1, <3>2 DEF Ask
    <3> QED
      BY <2>1, <3>3, <3>4 DEF Ask
  <2>2. CASE Answer(r)
    BY <2>2 DEF Answer, Done
  <2>3. CASE CarryOut(r)
    BY <2>3 DEF CarryOut, Done
  <2> QED
    BY <1>3, <2>1, <2>2, <2>3 DEF RequestStep
<1>4. ASSUME NEW t \in Tokens, Logout(t) PROVE NamesTypeOK'
  BY <1>4 DEF Logout, Removed
<1>5. ASSUME NEW t \in Tokens, Upgrade(t) \/ FeedTick(t) PROVE NamesTypeOK'
  BY <1>5 DEF Upgrade, FeedTick, LookedUp, Removed, Live
<1>6. CASE Idle
  BY <1>6, PanelAssumption DEF Idle, AtMost
<1>7. CASE Second \/ Chat
  BY <1>7 DEF Second, Chat, panelVars
<1> QED
  BY <1>1, <1>2, <1>3, <1>4, <1>5, <1>6, <1>7 DEF Next

(* Every step of the panel is one of the store, for an account that has a name, or leaves *)
(* the store alone.                                                                      *)
LEMMA PanelStepsStore ==
  ASSUME NamesTypeOK, [Next]_vars PROVE StoreNext \/ UNCHANGED storeVars
<1>1. ASSUME NEW r \in Requests, CarryOut(r) PROVE StoreNext \/ UNCHANGED storeVars
  <2>1. requests[r].name \in Names
    BY <1>1 DEF CarryOut, NamesTypeOK
  <2> QED
    BY <1>1, <2>1 DEF CarryOut, StoreNext
<1>2. CASE Chat
  BY <1>2 DEF Chat, StoreNext
<1>3. CASE UNCHANGED vars
  BY <1>3 DEF vars
<1>4. CASE Second \/ Idle
  BY <1>4 DEF Second, Idle
<1>5. ASSUME NEW a \in Attempts, LoginStep(a) PROVE UNCHANGED storeVars
  BY <1>5 DEF LoginStep, Login, LoginEnds
<1>6. ASSUME NEW t \in Tokens, Logout(t) \/ Upgrade(t) \/ FeedTick(t) PROVE UNCHANGED storeVars
  BY <1>6 DEF Logout, Upgrade, FeedTick
<1>7. ASSUME NEW r \in Requests, Answer(r) \/ \E t \in Tokens, need \in {AdminAccounts, AdminGroups} : Ask(r, t, need)
      PROVE  UNCHANGED storeVars
  BY <1>7 DEF Answer, Ask
<1> QED
  BY <1>1, <1>2, <1>3, <1>4, <1>5, <1>6, <1>7 DEF Next, RequestStep

LEMMA StoreInvariant == Spec => [](StoreTypeOK /\ NamesTypeOK)
<1>1. Init => StoreTypeOK /\ NamesTypeOK
  BY StoreTypeInit, NamesTypeInit DEF Init, InitWith
<1>2. StoreTypeOK /\ NamesTypeOK /\ [Next]_vars => StoreTypeOK' /\ NamesTypeOK'
  BY NamesTypeStep, PanelStepsStore, StoreTypeStep
<1> QED
  BY <1>1, <1>2, PTL DEF Spec

(* No operation, of the panel or in chat, lets anybody do what nobody could do before     *)
(* (admin/store.rs, group_within_reach).                                                *)
THEOREM PowerNeverGrows == Spec => PowerOnlyMoves
<1>1. StoreTypeOK /\ NamesTypeOK /\ [Next]_vars => [Powers' \subseteq Powers]_storeVars
  BY PanelStepsStore, PowersStep
<1> QED
  BY <1>1, StoreInvariant, PTL DEF Spec, PowerOnlyMoves

(* As long as nobody uses /group, somebody can still edit who may do what                 *)
(* (game/server/panel.rs, admin_capable_accounts).                                      *)
THEOREM AnAdministratorStays == Spec => []SomebodyAdministers
<1>1. Init => SomebodyAdministers
  BY OwnerAssumption DEF Init, InitWith, StoreInit, SomebodyAdministers, Capable, CapableWith, Exists
<1>2. StoreTypeOK /\ NamesTypeOK /\ SomebodyAdministers /\ [Next]_vars => SomebodyAdministers'
  BY PanelStepsStore, AdministersStep
<1> QED
  BY <1>1, <1>2, StoreInvariant, PTL DEF Spec

-----------------------------------------------------------------------------
(* ---- the listener ------------------------------------------------------------ *)

(* What PlacesAccountedFor leaves open: who holds a place is a socket, and the counts *)
(* are numbers.                                                                      *)
CountsTypeOK ==
  /\ held \subseteq Sockets
  /\ total \in Nat
  /\ perAddress \in [DOMAIN perAddress -> Nat]

PInv == CountsTypeOK /\ PlacesAccountedFor

LEMMA HeldFinite ==
  ASSUME CountsTypeOK
  PROVE  /\ IsFiniteSet(held) /\ Cardinality(held) \in Nat
         /\ \A a : IsFiniteSet(From(a)) /\ Cardinality(From(a)) \in Nat
<1>1. IsFiniteSet(held)
  BY ListenerAssumption, FS_Subset DEF CountsTypeOK
<1>2. \A a : IsFiniteSet(From(a))
  BY <1>1, FS_Subset DEF From
<1> QED
  BY <1>1, <1>2, FS_CardinalityType

(* The count of an address that has no entry is that of its connections, none. *)
LEMMA CountIsExact ==
  ASSUME PInv, NEW a PROVE CountOf(a) = Cardinality(From(a))
<1>1. CASE a \in DOMAIN perAddress
  BY <1>1 DEF PInv, PlacesAccountedFor, CountOf
<1>2. CASE a \notin DOMAIN perAddress
  <2>1. From(a) = {}
    BY <1>2 DEF PInv, PlacesAccountedFor, From
  <2> QED
    BY <1>2, <2>1, FS_EmptySet DEF CountOf
<1> QED
  BY <1>1, <1>2

LEMMA PlacesInit == ListenerInit => PInv
BY FS_EmptySet, ListenerAssumption DEF ListenerInit, PInv, CountsTypeOK, PlacesAccountedFor

LEMMA ClaimKeeps ==
  ASSUME PInv, NEW c \in Sockets, ClaimPlace(c) PROVE PInv'
<1> DEFINE here == AddressOfSocket[c]
<1>1. held' = held \cup {c} /\ c \notin held /\ total' = total + 1
  BY DEF ClaimPlace
<1>2. perAddress' = [b \in DOMAIN perAddress \cup {here} |->
                       IF b = here THEN CountOf(here) + 1 ELSE perAddress[b]]
  BY DEF ClaimPlace, WithCount
<1>3. CountOf(here) = Cardinality(From(here)) /\ CountOf(here) \in Nat
  BY CountIsExact, HeldFinite DEF PInv
<1>4. From(here)' = From(here) \cup {c} /\ c \notin From(here)
  BY <1>1 DEF From
<1>5. Cardinality(From(here)') = CountOf(here) + 1
  <2>1. IsFiniteSet(From(here))
    BY HeldFinite DEF PInv
  <2>2. Cardinality(From(here) \cup {c}) = Cardinality(From(here)) + 1
    BY <1>4, <2>1, FS_AddElement
  <2> QED
    BY <1>3, <1>4, <2>2
<1>6. \A b : b # here => From(b)' = From(b)
  BY <1>1 DEF From
<1>7. DOMAIN perAddress' = {AddressOfSocket[d] : d \in held'}
  BY <1>1, <1>2 DEF PInv, PlacesAccountedFor
<1>8. Cardinality(held') = total + 1
  BY <1>1, HeldFinite, FS_AddElement DEF PInv, PlacesAccountedFor
<1>9. CountsTypeOK'
  BY <1>1, <1>2, <1>3 DEF PInv, CountsTypeOK
<1>10. total' = Cardinality(held') /\ total' <= MaxTotal
  BY <1>1, <1>8, ListenerAssumption DEF ClaimPlace, PInv, CountsTypeOK
<1>11. ASSUME NEW b \in DOMAIN perAddress'
       PROVE  perAddress'[b] = Cardinality(From(b)') /\ perAddress'[b] <= MaxPerAddress
  <2>1. CASE b = here
    BY <1>2, <1>3, <1>5, <2>1, ListenerAssumption DEF ClaimPlace
  <2>2. CASE b # here
    BY <1>2, <1>6, <2>2 DEF PInv, PlacesAccountedFor
  <2> QED
    BY <2>1, <2>2
<1> QED
  BY <1>7, <1>9, <1>10, <1>11 DEF PInv, PlacesAccountedFor, From

LEMMA GiveBackKeeps ==
  ASSUME PInv, NEW c \in Sockets, GiveBack(c) PROVE PInv'
<1> DEFINE here == AddressOfSocket[c]
<1>1. held' = held \ {c} /\ c \in held /\ total' = total - 1
  BY DEF GiveBack
<1>2. CountOf(here) = Cardinality(From(here)) /\ CountOf(here) \in Nat
  BY CountIsExact, HeldFinite DEF PInv
<1>3. From(here)' = From(here) \ {c} /\ c \in From(here)
  BY <1>1 DEF From
<1>4. Cardinality(From(here)') = CountOf(here) - 1 /\ CountOf(here) > 0
  <2>1. Cardinality(From(here) \ {c}) = Cardinality(From(here)) - 1
    BY <1>3, HeldFinite, FS_RemoveElement DEF PInv
  <2>2. Cardinality(From(here)) # 0
    BY <1>3, HeldFinite, FS_EmptySet DEF PInv
  <2> QED
    BY <1>2, <1>3, <2>1, <2>2
<1>5. \A b : b # here => From(b)' = From(b)
  BY <1>1 DEF From
<1>6. Cardinality(held') = total - 1 /\ total > 0
  <2>1. Cardinality(held \ {c}) = Cardinality(held) - 1
    BY <1>1, HeldFinite, FS_RemoveElement DEF PInv
  <2>2. Cardinality(held) # 0
    BY <1>1, HeldFinite, FS_EmptySet DEF PInv
  <2> QED
    BY <1>1, <2>1, <2>2, HeldFinite DEF PInv, PlacesAccountedFor
<1>7. here \in DOMAIN perAddress
  BY <1>1 DEF PInv, PlacesAccountedFor
<1>8. total' = Cardinality(held') /\ total' \in Nat /\ total' <= MaxTotal
  BY <1>1, <1>6, ListenerAssumption DEF PInv, PlacesAccountedFor, CountsTypeOK
<1>9. CASE CountOf(here) > 1
  <2>1. perAddress' = [b \in DOMAIN perAddress |->
                         IF b = here THEN CountOf(here) - 1 ELSE perAddress[b]]
    BY <1>7, <1>9 DEF GiveBack, Counted, WithCount
  <2>2. PICK d \in From(here)' : TRUE
    BY <1>4, <1>9, <1>2, FS_EmptySet
  <2>3. {AddressOfSocket[e] : e \in held'} = DOMAIN perAddress
    BY <1>1, <2>2 DEF PInv, PlacesAccountedFor, From
  <2>4. CountsTypeOK'
    BY <1>1, <1>2, <1>8, <1>9, <2>1 DEF PInv, CountsTypeOK
  <2>5. ASSUME NEW b \in DOMAIN perAddress'
        PROVE  perAddress'[b] = Cardinality(From(b)') /\ perAddress'[b] <= MaxPerAddress
    <3>1. CASE b = here
      <4>1. CountOf(here) <= MaxPerAddress
        BY <1>7 DEF PInv, PlacesAccountedFor, CountOf
      <4> QED
        BY <1>2, <1>4, <2>1, <3>1, <4>1, ListenerAssumption
    <3>2. CASE b # here
      BY <1>5, <2>1, <3>2 DEF PInv, PlacesAccountedFor
    <3> QED
      BY <3>1, <3>2
  <2> QED
    BY <1>8, <2>1, <2>3, <2>4, <2>5 DEF PInv, PlacesAccountedFor, From
<1>10. CASE ~(CountOf(here) > 1)
  <2>1. perAddress' = [b \in DOMAIN perAddress \ {here} |-> perAddress[b]]
    BY <1>10 DEF GiveBack, Counted
  <2>2. From(here)' = {}
    <3>1. Cardinality(From(here)') = 0
      BY <1>2, <1>4, <1>10
    <3>2. IsFiniteSet(From(here)')
      BY <1>3, HeldFinite, FS_Subset DEF PInv
    <3> QED
      BY <3>1, <3>2, FS_EmptySet
  <2>3. {AddressOfSocket[d] : d \in held'} = DOMAIN perAddress \ {here}
    BY <1>1, <2>2 DEF PInv, PlacesAccountedFor, From
  <2>4. CountsTypeOK'
    BY <1>1, <1>8, <2>1 DEF PInv, CountsTypeOK
  <2>5. ASSUME NEW b \in DOMAIN perAddress'
        PROVE  perAddress'[b] = Cardinality(From(b)') /\ perAddress'[b] <= MaxPerAddress
    BY <1>5, <2>1 DEF PInv, PlacesAccountedFor
  <2> QED
    BY <1>8, <2>1, <2>3, <2>4, <2>5 DEF PInv, PlacesAccountedFor, From
<1> QED
  BY <1>9, <1>10

(* The counts are those of the connections there are, whatever order they come and go in, *)
(* and the table has no entry for an address without one (net/listener.rs).              *)
THEOREM PlacesAreCounted == ListenerSpec => []PlacesAccountedFor
<1>1. PInv /\ [ListenerStep]_listenerVars => PInv'
  <2>1. PInv /\ UNCHANGED listenerVars => PInv'
    BY DEF PInv, CountsTypeOK, PlacesAccountedFor, From, listenerVars
  <2> QED
    BY <2>1, ClaimKeeps, GiveBackKeeps DEF ListenerStep
<1>2. PInv => PlacesAccountedFor
  BY DEF PInv
<1> QED
  BY <1>1, <1>2, PlacesInit, PTL DEF ListenerSpec

(* ---- the log of what administrators did -------------------------------------------- *)

Entry == Nat \cup {Torn}

LogTypeOK ==
  /\ live \in Seq(Entry) \cup {Missing} /\ segment \in [Segments -> Seq(Entry) \cup {Missing}]
  /\ midLine \in BOOLEAN /\ events \in Nat /\ kept \in SUBSET Nat
  /\ call \in [does : {"nothing", "write", "drop", "shift"}, n : Int]

(* A torn line is the last, an event is a new one, and a segment is moved where none is. *)
TornLast == midLine => live # Missing /\ live # << >> /\ live[Len(live)] = Torn
EventsNew == \A e \in kept : e <= events /\ (e = events => Does("nothing"))
Vacant ==
  /\ Does("drop") => Keep # 0
  /\ Does("shift") => call.n + 1 \in 1 .. Keep /\ (segment[call.n + 1] = Missing \/ call.n + 1 = Keep)

LInv == LogTypeOK /\ TornLast /\ EventsNew /\ Vacant /\ HistoryIsAnEnd

LEMMA LinesAre ==
  ASSUME LogTypeOK, NEW n \in Files
  PROVE  /\ Lines(n) \in Seq(Entry) /\ DOMAIN Lines(n) = 1 .. Len(Lines(n))
         /\ EventsIn(n) \subseteq Nat
<1>1. n = 0 \/ n \in Segments
  BY AuditAssumption DEF Files, Segments
<1>2. Lines(n) \in Seq(Entry)
  BY <1>1 DEF LogTypeOK, Lines, LinesOf
<1> QED
  BY <1>2 DEF EventsIn, Entry

(* With the oldest file goes what is older than everything else, and nothing is missing. *)
LEMMA OldestGoes ==
  ASSUME LogTypeOK, HistoryIsAnEnd, UNCHANGED kept,
         History' = History \/ History' = UNION {EventsIn(n) : n \in Files \ {Keep}}
  PROVE  NothingMissing'
<1>1. CASE History' = History
  BY <1>1 DEF HistoryIsAnEnd, NothingMissing
<1>2. CASE History' = UNION {EventsIn(n) : n \in Files \ {Keep}}
  <2>1. History' \subseteq History
    BY <1>2 DEF History
  <2>2. ASSUME NEW e \in History', NEW f \in kept, f > e PROVE f \in History'
    <3>1. PICK n \in Files \ {Keep} : e \in EventsIn(n)
      BY <1>2
    <3>2. f \in History
      BY <2>1, <2>2 DEF HistoryIsAnEnd, NothingMissing
    <3>3. PICK m \in Files : f \in EventsIn(m)
      BY <3>2 DEF History
    <3>4. m # Keep
      <4>1. SUFFICES ASSUME m = Keep PROVE FALSE
        OBVIOUS
      <4>2. m > n
        BY <3>1, <4>1, AuditAssumption DEF Files
      <4>3. f < e
        BY <3>1, <3>3, <4>2 DEF HistoryIsAnEnd, FilesInOrder
      <4>4. e \in Nat /\ f \in Nat
        BY <3>1, <3>3, LinesAre
      <4> QED
        BY <2>2, <4>3, <4>4
    <3> QED
      BY <1>2, <3>3, <3>4
  <2> QED
    BY <2>1, <2>2 DEF HistoryIsAnEnd, NothingMissing
<1> QED
  BY <1>1, <1>2

(* The oldest file may go. *)
LEMMA DroppingKeeps ==
  ASSUME LogTypeOK, HistoryIsAnEnd, UNCHANGED kept,
         \A n \in Files : Lines(n)' = IF n = Keep THEN << >> ELSE Lines(n)
  PROVE  HistoryIsAnEnd'
<1>1. \A n \in Files : EventsIn(n)' = IF n = Keep THEN {} ELSE EventsIn(n)
  BY DEF EventsIn
<1>2. LinesInOrder'
  BY DEF HistoryIsAnEnd, LinesInOrder
<1>3. FilesInOrder'
  BY <1>1 DEF HistoryIsAnEnd, FilesInOrder
<1>4. History' = UNION {EventsIn(n) : n \in Files \ {Keep}}
  BY <1>1 DEF History
<1> QED
  BY <1>2, <1>3, <1>4, OldestGoes DEF HistoryIsAnEnd

(* And a file may move up by one, to where none is or onto the oldest. *)
LEMMA MovingUpKeeps ==
  ASSUME LogTypeOK, HistoryIsAnEnd, UNCHANGED kept,
         NEW k \in 1 .. Keep, Lines(k) = << >> \/ k = Keep,
         \A n \in Files : Lines(n)' = IF n = k THEN Lines(k - 1)
                                      ELSE IF n = k - 1 THEN << >> ELSE Lines(n)
  PROVE  HistoryIsAnEnd'
<1>1. k \in Files /\ k - 1 \in Files /\ k # k - 1 /\ Keep \in Files /\ (k - 1 # Keep)
  BY AuditAssumption DEF Files
<1>2. \A n \in Files : EventsIn(n)' = IF n = k THEN EventsIn(k - 1)
                                      ELSE IF n = k - 1 THEN {} ELSE EventsIn(n)
  BY DEF EventsIn
<1>3. LinesInOrder'
  BY <1>1 DEF HistoryIsAnEnd, LinesInOrder
<1>4. FilesInOrder'
  <2> SUFFICES ASSUME NEW m \in Files, NEW n \in Files, m > n,
                      NEW e \in EventsIn(m)', NEW f \in EventsIn(n)'
               PROVE  e < f
    BY DEF FilesInOrder
  <2> DEFINE old(i) == IF i = k THEN k - 1 ELSE i
  <2>1. e \in EventsIn(old(m)) /\ f \in EventsIn(old(n)) /\ m # k - 1 /\ n # k - 1
    BY <1>1, <1>2
  <2>2. old(m) \in Files /\ old(n) \in Files /\ old(m) > old(n)
    BY <1>1, <2>1, AuditAssumption DEF Files
  <2> HIDE DEF old
  <2> QED
    BY <2>1, <2>2 DEF HistoryIsAnEnd, FilesInOrder
<1>5. CASE k = Keep
  <2>1. History' = UNION {EventsIn(n) : n \in Files \ {Keep}}
    <3>1. \A n \in Files \ {Keep} : \E m \in Files : EventsIn(m)' = EventsIn(n)
      BY <1>1, <1>2, <1>5
    <3>2. \A m \in Files : EventsIn(m)' = {} \/ \E n \in Files \ {Keep} : EventsIn(m)' = EventsIn(n)
      BY <1>1, <1>2, <1>5
    <3> QED
      BY <3>1, <3>2 DEF History
  <2> QED
    BY <1>3, <1>4, <2>1, OldestGoes DEF HistoryIsAnEnd
<1>6. CASE Lines(k) = << >>
  <2>1. History' = History
    <3>1. EventsIn(k) = {}
      BY <1>6 DEF EventsIn
    <3>2. \A n \in Files : EventsIn(n) = {} \/ \E m \in Files : EventsIn(m)' = EventsIn(n)
      BY <1>1, <1>2, <3>1
    <3>3. \A m \in Files : EventsIn(m)' = {} \/ \E n \in Files : EventsIn(m)' = EventsIn(n)
      BY <1>1, <1>2
    <3> QED
      BY <3>2, <3>3 DEF History
  <2> QED
    BY <1>3, <1>4, <2>1, OldestGoes DEF HistoryIsAnEnd
<1> QED
  BY <1>5, <1>6

(* A line that is appended to the live file is the newest. *)
LEMMA AppendingKeeps ==
  ASSUME LogTypeOK, HistoryIsAnEnd, EventsNew, ~Does("nothing"),
         \A n \in Files \ {0} : Lines(n)' = Lines(n),
         NEW e \in {events, Torn}, Lines(0)' = Append(Lines(0), e),
         kept' = kept \cup ({e} \ {Torn})
  PROVE  HistoryIsAnEnd'
<1>0. 0 \in Files /\ Torn \notin Nat /\ events \in Nat /\ e \in Entry
  BY AuditAssumption DEF Files, LogTypeOK, Entry
<1>1. \A n \in Files \ {0} : EventsIn(n)' = EventsIn(n)
  BY DEF EventsIn
<1> DEFINE s == Lines(0)
           a == Append(s, e)
<1>2. s \in Seq(Entry) /\ DOMAIN s = 1 .. Len(s) /\ Len(s) \in Nat
  BY <1>0, LinesAre
<1>3. DOMAIN a = 1 .. Len(s) + 1 /\ (\A i \in DOMAIN s : a[i] = s[i]) /\ a[Len(s) + 1] = e
  <2> HIDE DEF s
  <2> QED
    BY <1>0, <1>2, AppendProperties
<1>4. EventsIn(0) = {s[i] : i \in DOMAIN s} \ {Torn} /\ EventsIn(0)' = {a[i] : i \in DOMAIN a} \ {Torn}
  BY DEF EventsIn
<1>5. EventsIn(0)' = EventsIn(0) \cup ({e} \ {Torn})
  <2> HIDE DEF a, s
  <2>1. {a[i] : i \in DOMAIN a} = {s[i] : i \in DOMAIN s} \cup {e}
    BY <1>2, <1>3
  <2> QED
    BY <1>4, <2>1
<1>6. \A f \in History : f \in Nat /\ f < events
  <2>1. \A f \in History : f \in kept /\ f \in Nat
    BY DEF HistoryIsAnEnd, NothingMissing, LogTypeOK
  <2> QED
    BY <1>0, <2>1 DEF EventsNew
<1>7. History' = History \cup ({e} \ {Torn})
  BY <1>0, <1>1, <1>5 DEF History
<1>8. LinesInOrder'
  <2> SUFFICES ASSUME NEW n \in Files, NEW i \in DOMAIN Lines(n)', NEW j \in DOMAIN Lines(n)', i < j,
                      Torn \notin {Lines(n)'[i], Lines(n)'[j]}
               PROVE  Lines(n)'[i] < Lines(n)'[j]
    BY DEF LinesInOrder
  <2>1. CASE n # 0
    BY <2>1 DEF HistoryIsAnEnd, LinesInOrder
  <2>2. CASE n = 0 /\ j \in DOMAIN s
    <3>1. i \in DOMAIN s
      BY <1>2, <1>3, <2>2
    <3>2. a[i] = s[i] /\ a[j] = s[j]
      BY <1>3, <2>2, <3>1
    <3> QED
      BY <1>0, <2>2, <3>1, <3>2 DEF HistoryIsAnEnd, LinesInOrder
  <2>3. CASE n = 0 /\ j \notin DOMAIN s
    <3>1. j = Len(s) + 1 /\ i \in DOMAIN s
      BY <1>2, <1>3, <2>3
    <3>2. s[i] \in EventsIn(0) /\ e = events
      BY <1>3, <1>4, <2>3, <3>1
    <3>3. s[i] < events
      BY <1>0, <1>6, <3>2 DEF History
    <3> QED
      BY <1>3, <2>3, <3>1, <3>2, <3>3
  <2> QED
    BY <2>1, <2>2, <2>3
<1>9. FilesInOrder'
  <2> SUFFICES ASSUME NEW m \in Files, NEW n \in Files, m > n,
                      NEW d \in EventsIn(m)', NEW f \in EventsIn(n)'
               PROVE  d < f
    BY DEF FilesInOrder
  <2>1. m # 0 /\ d \in EventsIn(m)
    BY <1>1 DEF Files
  <2>2. f \in EventsIn(n) \/ f = events
    BY <1>1, <1>5
  <2>3. d < events
    BY <1>6, <2>1 DEF History
  <2> QED
    BY <2>1, <2>2, <2>3 DEF HistoryIsAnEnd, FilesInOrder
<1>10. NothingMissing'
  <2> HIDE DEF s, a
  <2>1. History' \subseteq kept'
    BY <1>7 DEF HistoryIsAnEnd, NothingMissing
  <2>2. ASSUME NEW d \in History', NEW f \in kept', f > d PROVE f \in History'
    <3>1. CASE f \notin kept
      BY <1>7, <3>1
    <3>2. CASE f \in kept
      <4>1. f <= events /\ f # events
        BY <3>2 DEF EventsNew
      <4>2. f \in Nat
        BY <3>2 DEF LogTypeOK
      <4>3. d # events
        BY <1>0, <2>2, <4>1, <4>2
      <4>4. d \in History
        BY <1>7, <4>3
      <4> QED
        BY <1>7, <2>2, <3>2, <4>4 DEF HistoryIsAnEnd, NothingMissing
    <3> QED
      BY <3>1, <3>2
  <2> QED
    BY <2>1, <2>2 DEF NothingMissing
<1> QED
  BY <1>8, <1>9, <1>10 DEF HistoryIsAnEnd

(* ---- the steps of append --------------------------------------------------------- *)

LEMMA FilesStand ==
  ASSUME HistoryIsAnEnd, UNCHANGED <<live, segment, kept>> PROVE HistoryIsAnEnd'
BY DEF HistoryIsAnEnd, LinesInOrder, FilesInOrder, NothingMissing, History, EventsIn, Lines

LEMMA RecordKeeps == LInv /\ Record => LInv'
<1> SUFFICES ASSUME LInv, Record PROVE LInv'
  OBVIOUS
<1>1. UNCHANGED <<live, segment, midLine, kept>>
  BY DEF Record
<1>2. LogTypeOK' /\ TornLast' /\ EventsNew'
  BY DEF LInv, Record, LogTypeOK, TornLast, EventsNew, Does
<1>3. Vacant'
  BY DEF LInv, Record, Vacant, Does, Full
<1> QED
  BY <1>1, <1>2, <1>3, FilesStand DEF LInv

LEMMA CrashKeeps == LInv /\ CrashInCall => LInv'
<1> SUFFICES ASSUME LInv, CrashInCall PROVE LInv'
  OBVIOUS
<1>1. UNCHANGED <<live, segment, midLine, events, kept>> /\ call' = Rest
  BY DEF CrashInCall
<1>2. LogTypeOK' /\ TornLast' /\ EventsNew' /\ Vacant'
  BY <1>1 DEF LInv, LogTypeOK, TornLast, EventsNew, Vacant, Does, Rest
<1> QED
  BY <1>1, <1>2, FilesStand DEF LInv

LEMMA DropKeeps == LInv /\ DropOldest => LInv'
<1> SUFFICES ASSUME LInv, DropOldest PROVE LInv'
  OBVIOUS
<1>1. /\ UNCHANGED <<live, midLine, events, kept>> /\ call' = [does |-> "shift", n |-> Keep - 1]
      /\ Keep # 0 /\ Keep \in Segments /\ Keep \in Files /\ Does("drop")
  BY AuditAssumption DEF DropOldest, LInv, Vacant, Does, Segments, Files
<1>2. LogTypeOK' /\ TornLast' /\ EventsNew'
  BY <1>1, AuditAssumption DEF LInv, DropOldest, LogTypeOK, TornLast, EventsNew, Does
<1>3. Vacant'
  BY <1>1, AuditAssumption DEF Vacant, Does
<1>4. HistoryIsAnEnd'
  <2>1. CASE segment' = segment
    BY <1>1, <2>1, FilesStand DEF LInv
  <2>2. CASE segment' = [segment EXCEPT ![Keep] = Missing]
    <3>1. \A n \in Files : Lines(n)' = IF n = Keep THEN << >> ELSE Lines(n)
      BY <1>1, <2>2, AuditAssumption DEF LInv, LogTypeOK, Lines, LinesOf, Files, Segments
    <3> QED
      BY <1>1, <3>1, DroppingKeeps DEF LInv
  <2> QED
    BY <2>1, <2>2 DEF DropOldest
<1> QED
  BY <1>2, <1>3, <1>4 DEF LInv

LEMMA ShiftKeeps == LInv /\ ShiftSegment => LInv'
<1> SUFFICES ASSUME LInv, ShiftSegment PROVE LInv'
  OBVIOUS
<1>1. UNCHANGED <<live, midLine, events, kept>> /\ Does("shift")
  BY DEF ShiftSegment
<1>2. PICK n \in Int : n = call.n
  BY DEF LInv, LogTypeOK
<1>3. /\ n >= 1 /\ n \in Segments /\ n + 1 \in Segments /\ n + 1 \in 1 .. Keep
      /\ segment[n + 1] = Missing \/ n + 1 = Keep
  BY <1>1, <1>2, AuditAssumption DEF LInv, Vacant, ShiftSegment, Segments
<1>4. /\ call'.does \in {"write", "shift"} /\ call' \in [does : {"nothing", "write", "drop", "shift"}, n : Int]
      /\ call'.does = "shift" => call'.n = n - 1
  BY <1>1, <1>2 DEF ShiftSegment, AfterFailure, Does, LInv, LogTypeOK
<1>5. EventsNew'
  BY <1>1, <1>4 DEF LInv, EventsNew, Does
<1>6. TornLast'
  BY <1>1 DEF LInv, TornLast
<1>7. CASE UNCHANGED segment /\ (segment[n] = Missing \/ call'.does = "write")
  <2>1. LogTypeOK'
    BY <1>1, <1>4, <1>7 DEF LInv, LogTypeOK
  <2>2. Vacant'
    BY <1>3, <1>4, <1>7, AuditAssumption DEF Vacant, Does
  <2> QED
    BY <1>1, <1>5, <1>6, <1>7, <2>1, <2>2, FilesStand DEF LInv
<1>8. CASE segment' = [segment EXCEPT ![n + 1] = segment[n], ![n] = Missing]
  <2>1. LogTypeOK'
    BY <1>1, <1>3, <1>4, <1>8 DEF LInv, LogTypeOK
  <2>2. segment'[n] = Missing /\ segment'[n + 1] = segment[n]
        /\ \A i \in Segments \ {n, n + 1} : segment'[i] = segment[i]
    BY <1>3, <1>8 DEF LInv, LogTypeOK
  <2>3. Vacant'
    BY <1>3, <1>4, <2>2, AuditAssumption DEF Vacant, Does
  <2>4. \A i \in Files : Lines(i)' = IF i = n + 1 THEN Lines(n) ELSE IF i = n THEN << >> ELSE Lines(i)
    BY <1>1, <1>3, <2>2 DEF Lines, LinesOf, Files, Segments
  <2>5. HistoryIsAnEnd'
    <3>1. (n + 1) - 1 = n
      BY <1>2
    <3>2. Lines(n + 1) = << >> \/ n + 1 = Keep
      BY <1>3 DEF Lines, LinesOf
    <3> QED
      BY <1>1, <1>3, <2>4, <3>1, <3>2, MovingUpKeeps DEF LInv
  <2> QED
    BY <1>5, <1>6, <2>1, <2>3, <2>5 DEF LInv
<1> QED
  BY <1>2, <1>7, <1>8 DEF ShiftSegment, AfterFailure

LEMMA RollKeeps == LInv /\ RollLive => LInv'
<1> SUFFICES ASSUME LInv, RollLive PROVE LInv'
  OBVIOUS
<1>1. /\ UNCHANGED <<events, kept>> /\ Does("shift") /\ call' = [does |-> "write", n |-> 0]
      /\ call.n < 1 /\ call.n \in Int
  BY DEF RollLive, LInv, LogTypeOK
<1>2. 1 \in Segments /\ 1 \in 1 .. Keep /\ (segment[1] = Missing \/ 1 = Keep)
  BY <1>1, AuditAssumption DEF LInv, Vacant, Segments
<1>3. EventsNew' /\ Vacant'
  BY <1>1 DEF LInv, EventsNew, Vacant, Does
<1>4. CASE UNCHANGED <<segment, live, midLine>>
  <2>1. LogTypeOK' /\ TornLast'
    BY <1>1, <1>4 DEF LInv, LogTypeOK, TornLast
  <2> QED
    BY <1>1, <1>3, <1>4, <2>1, FilesStand DEF LInv
<1>5. CASE segment' = [segment EXCEPT ![1] = live] /\ live' = Missing /\ midLine' = FALSE
  <2>0. midLine' \in BOOLEAN /\ ~midLine'
    BY <1>5
  <2>1. LogTypeOK' /\ TornLast'
    <3>1. segment' \in [Segments -> Seq(Entry) \cup {Missing}] /\ live' \in Seq(Entry) \cup {Missing}
      BY <1>5 DEF LInv, LogTypeOK
    <3>2. call' \in [does : {"nothing", "write", "drop", "shift"}, n : Int]
      BY <1>1
    <3> QED
      BY <1>1, <2>0, <3>1, <3>2 DEF LInv, LogTypeOK, TornLast
  <2>2. segment'[1] = live /\ \A i \in Segments \ {1} : segment'[i] = segment[i]
    BY <1>2, <1>5 DEF LInv, LogTypeOK
  <2>3. \A i \in Files : Lines(i)' = IF i = 1 THEN Lines(0) ELSE IF i = 0 THEN << >> ELSE Lines(i)
    BY <1>2, <1>5, <2>2 DEF Lines, LinesOf, Files, Segments
  <2>4. Lines(1) = << >> \/ 1 = Keep
    BY <1>2 DEF Lines, LinesOf
  <2>5. 1 - 1 = 0
    OBVIOUS
  <2>6. HistoryIsAnEnd'
    BY <1>1, <1>2, <2>3, <2>4, <2>5, MovingUpKeeps DEF LInv
  <2> QED
    BY <1>3, <2>1, <2>6 DEF LInv
<1> QED
  BY <1>4, <1>5 DEF RollLive

LEMMA WriteKeeps == LInv /\ Write => LInv'
<1> SUFFICES ASSUME LInv, Write PROVE LInv'
  OBVIOUS
<1>1. UNCHANGED <<segment, events>> /\ Does("write") /\ call' = Rest
  BY DEF Write
<1>2. call' \in [does : {"nothing", "write", "drop", "shift"}, n : Int] /\ Does("nothing")' /\ Vacant'
  <2>1. call'.does = "nothing" /\ call'.n = 0 /\ call' = Rest
    BY <1>1 DEF Rest
  <2> QED
    BY <2>1 DEF Does, Vacant, Rest
<1>3. EventsNew'
  <2>1. kept' \subseteq kept \cup {events}
    BY DEF Write
  <2> QED
    BY <1>1, <1>2, <2>1 DEF LInv, EventsNew, LogTypeOK
<1>4. CASE UNCHANGED <<live, kept>> /\ (UNCHANGED midLine \/ midLine)
  <2>1. midLine' \in BOOLEAN
    BY DEF Write, LInv, LogTypeOK
  <2>2. LogTypeOK'
    BY <1>1, <1>2, <1>4, <2>1 DEF LInv, LogTypeOK
  <2>3. TornLast'
    BY <1>4 DEF LInv, TornLast
  <2> QED
    BY <1>1, <1>2, <1>3, <1>4, <2>2, <2>3, FilesStand DEF LInv
<1>5. ASSUME ~midLine, NEW e \in {events, Torn}, live' = Append(Opened, e),
             kept' = kept \cup ({e} \ {Torn}), midLine' = (e = Torn)
      PROVE  LInv'
  <2>1. Opened = Lines(0) /\ 0 \in Files
    BY AuditAssumption DEF Opened, Lines, LinesOf, Files
  <2>2. Opened \in Seq(Entry) /\ e \in Entry /\ (e # Torn => e \in Nat)
    BY <2>1, LinesAre DEF LInv, LogTypeOK, Entry
  <2>3. /\ live' \in Seq(Entry) /\ live' # << >> /\ live'[Len(live')] = e /\ live' # Missing
        /\ Lines(0)' = Append(Lines(0), e)
    <3>1. live' \in Seq(Entry) /\ live' # << >> /\ live'[Len(live')] = e
      BY <1>5, <2>2, AppendProperties, EmptySeq
    <3>2. live' # Missing
      BY <3>1, AuditAssumption DEF Entry
    <3>3. Lines(0)' = live'
      BY <3>2 DEF Lines, LinesOf
    <3> QED
      BY <1>5, <2>1, <3>1, <3>2, <3>3
  <2>4. LogTypeOK' /\ TornLast'
    BY <1>1, <1>2, <1>5, <2>2, <2>3 DEF LInv, LogTypeOK, TornLast
  <2>5. \A n \in Files \ {0} : Lines(n)' = Lines(n)
    BY <1>1 DEF Lines
  <2>6. HistoryIsAnEnd'
    BY <1>1, <1>5, <2>3, <2>5, AppendingKeeps DEF LInv, Does
  <2> QED
    BY <1>2, <1>3, <2>4, <2>6 DEF LInv
<1>6. CASE midLine
  <2>1. live \in Seq(Entry) /\ live # << >> /\ Opened = live /\ live[Len(live)] = Torn
    BY <1>6 DEF LInv, TornLast, LogTypeOK, Opened
  <2>2. [Opened EXCEPT ![Len(Opened)] = Torn] = live
    BY <2>1
  <2>3. UNCHANGED <<live, kept>>
    BY <1>6, <2>2 DEF Write, Extended
  <2> QED
    BY <1>4, <1>6, <2>3
<1>7. CASE ~midLine
  <2>1. CASE live' = Extended(events) /\ midLine' = FALSE /\ kept' = kept \cup {events}
    <3>1. events # Torn
      BY AuditAssumption DEF LInv, LogTypeOK
    <3>2. {events} \ {Torn} = {events} /\ midLine' = (events = Torn)
      BY <2>1, <3>1
    <3> QED
      BY <1>5, <1>7, <2>1, <3>2 DEF Extended
  <2>2. CASE live' = Extended(Torn) /\ midLine' = TRUE /\ UNCHANGED kept
    <3>1. kept' = kept \cup ({Torn} \ {Torn})
      BY <2>2
    <3> QED
      BY <1>5, <1>7, <2>2, <3>1 DEF Extended
  <2>3. CASE UNCHANGED <<live, midLine, kept>>
    BY <1>4, <2>3
  <2> QED
    BY <1>7, <2>1, <2>2, <2>3 DEF Write
<1> QED
  BY <1>6, <1>7

LEMMA LogStarts == LogInit => LInv
<1> SUFFICES ASSUME LogInit PROVE LInv
  OBVIOUS
<1>0. midLine \in BOOLEAN /\ ~midLine
  BY DEF LogInit
<1>1. LogTypeOK /\ TornLast /\ EventsNew /\ Vacant
  BY <1>0 DEF LogInit, LogTypeOK, TornLast, EventsNew, Vacant, Does, Rest
<1>2. \A n \in Files : Lines(n) = << >> /\ EventsIn(n) = {}
  BY DEF LogInit, Lines, LinesOf, EventsIn, Files, Segments
<1>3. HistoryIsAnEnd
  BY <1>2 DEF HistoryIsAnEnd, LinesInOrder, FilesInOrder, NothingMissing, History
<1> QED
  BY <1>1, <1>3 DEF LInv

(* The record of what administrators did (audit.rs) is in order, with nothing twice and    *)
(* nothing missing in between, whatever fails on the disk and wherever the process ends.     *)
THEOREM LogIsAnEnd == LogSpec => []HistoryIsAnEnd
<1>1. LInv /\ [LogStep]_logVars => LInv'
  <2> SUFFICES ASSUME LInv, [LogStep]_logVars PROVE LInv'
    OBVIOUS
  <2>1. CASE UNCHANGED logVars
    BY <2>1, FilesStand DEF logVars, LInv, LogTypeOK, TornLast, EventsNew, Vacant, Does
  <2> QED
    BY <2>1, RecordKeeps, DropKeeps, ShiftKeeps, RollKeeps, WriteKeeps, CrashKeeps DEF LogStep
<1>2. LInv => HistoryIsAnEnd
  BY DEF LInv
<1> QED
  BY <1>1, <1>2, LogStarts, PTL DEF LogSpec
=============================================================================
