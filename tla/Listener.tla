------------------------------- MODULE Listener -------------------------------
(***************************************************************************)
(* The places a listener hands out (net/listener.rs): so many connections at   *)
(* once, and so many from one address.  A connection holds its place in a       *)
(* guard that gives it back however the connection ends, panics included; the    *)
(* two counts change under one lock.  A socket refused a place is dropped and    *)
(* changes nothing.  The retries of a failing accept are left out.               *)
(***************************************************************************)
EXTENDS Integers, FiniteSets

CONSTANTS
  Sockets,          \* connections that may be open together
  AddressOfSocket,  \* where each comes from
  MaxTotal,         \* max_connections
  MaxPerAddress     \* max_connections_per_address

ASSUME ListenerAssumption ==
  IsFiniteSet(Sockets) /\ Sockets # {} /\ MaxTotal \in Nat \ {0} /\ MaxPerAddress \in Nat \ {0}

VARIABLES
  held,        \* connections whose ConnectionSlot is alive
  total,       \* OpenConnections.total
  perAddress   \* OpenConnections.per_address: an entry for each address with a connection

listenerVars == <<held, total, perAddress>>

From(a) == {c \in held : AddressOfSocket[c] = a}
CountOf(a) == IF a \in DOMAIN perAddress THEN perAddress[a] ELSE 0
WithCount(a, n) == [b \in (DOMAIN perAddress \cup {a}) |-> IF b = a THEN n ELSE perAddress[b]]

(* claim *)
ClaimPlace(c) ==
  /\ c \notin held
  /\ total < MaxTotal /\ CountOf(AddressOfSocket[c]) < MaxPerAddress
  /\ held' = held \cup {c}
  /\ total' = total + 1
  /\ perAddress' = WithCount(AddressOfSocket[c], CountOf(AddressOfSocket[c]) + 1)

(* The entry of an address goes with its last connection. *)
Counted_KeepsEmpty(a) == WithCount(a, CountOf(a) - 1)
Counted(a) ==
  IF CountOf(a) > 1 THEN WithCount(a, CountOf(a) - 1)
                    ELSE [b \in DOMAIN perAddress \ {a} |-> perAddress[b]]

(* Drop *)
GiveBack(c) ==
  /\ c \in held
  /\ held' = held \ {c}
  /\ total' = total - 1
  /\ perAddress' = Counted(AddressOfSocket[c])

ListenerInit == held = {} /\ total = 0 /\ perAddress = << >>
ListenerStep == \E c \in Sockets : ClaimPlace(c) \/ GiveBack(c)
ListenerSpec == ListenerInit /\ [][ListenerStep]_listenerVars

(* No place is lost or given twice: whatever order connections come and go in, the   *)
(* counts are those of the connections there are, and an address that has none has    *)
(* no entry, so the table does not grow with the addresses ever seen.                 *)
PlacesAccountedFor ==
  /\ total = Cardinality(held) /\ total <= MaxTotal
  /\ DOMAIN perAddress = {AddressOfSocket[c] : c \in held}
  /\ \A a \in DOMAIN perAddress : perAddress[a] = Cardinality(From(a)) /\ perAddress[a] <= MaxPerAddress
=============================================================================
