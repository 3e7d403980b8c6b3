------------------------------ MODULE NetworkView ------------------------------
(***************************************************************************)
(* The bookkeeping of src/view.rs: which peers are known, at which         *)
(* addresses, and which connections run over which address.  This module   *)
(* holds the operations as functions from views to views, so that the      *)
(* component can be run on its own (NetworkViewMachine) and inside the     *)
(* node (SavedNetwork).                                                    *)
(*                                                                         *)
(* A view maps each known peer to its record.  The record's "addresses"    *)
(* stands for the Vec<AddressMetadata>: a map from address to metadata,    *)
(* since every push is guarded by a search for the address.  Of the order  *)
(* of the Vec the program only uses index 0, kept here as "best": it is    *)
(* what the last call of resort() put first, and stays so while time goes  *)
(* by.  An address is a model value; Rank is its place in the order        *)
(* (scope.rank(), transport.rank(), address) of resort()'s key, which is   *)
(* total and does not change (Multiaddrs, KeySeparates).                   *)
(*                                                                         *)
(* (last_err, err_count) is kept as the number of seconds the address has  *)
(* still to cool down.  err_count saturates at BackoffCap, which changes   *)
(* nothing: it is only read as err_count.min(6).                           *)
(***************************************************************************)
EXTENDS Integers, FiniteSets

CONSTANTS
  Peer,        \* PeerIds
  Addr,        \* multiaddresses
  NoAddr,      \* what index 0 of an empty address list stands for
  ConnId,      \* ConnectionIds
  Rank,        \* Addr -> place in the preference order
  Rtt,         \* round-trip times, 0 among them
  BackoffCap   \* the exponent's cap: 6 in the source

ASSUME ViewAssumption ==
  /\ NoAddr \notin Addr
  /\ Rank \in [Addr -> Nat]
  /\ \A a, b \in Addr : Rank[a] = Rank[b] => a = b
  /\ Rtt \subseteq Nat /\ 0 \in Rtt
  /\ BackoffCap \in 1..6

\* 1 << n seconds, for n up to 6.
Backoff(n) == <<1, 2, 4, 8, 16, 32, 64>>[n + 1]

----------------------------------------------------------------------------
(* Data *)

AddressMetadata ==
  [active_connections : SUBSET ConnId,
   err_count          : 0..BackoffCap,
   cooldown           : 0..64]

IsPeerInfoExt(info) ==
  /\ info \in [addresses : {info.addresses}, best : Addr \cup {NoAddr},
               supports_relay_hop_v2 : BOOLEAN, rtt : Rtt]
  /\ DOMAIN info.addresses \subseteq Addr
  /\ info.addresses \in [DOMAIN info.addresses -> AddressMetadata]

IsView(v) ==
  /\ DOMAIN v \subseteq Peer
  /\ v = [p \in DOMAIN v |-> v[p]]
  /\ \A p \in DOMAIN v : IsPeerInfoExt(v[p])

NewAddress == [active_connections |-> {}, err_count |-> 0, cooldown |-> 0]

NewPeer ==
  [addresses |-> [a \in {} |-> NewAddress], best |-> NoAddr,
   supports_relay_hop_v2 |-> FALSE, rtt |-> 0]

\* A map with one entry set, and with one entry removed.
Put(f, k, x) == [j \in DOMAIN f \cup {k} |-> IF j = k THEN x ELSE f[j]]
Drop(f, k) == [j \in DOMAIN f \ {k} |-> f[j]]

\* entry(peer).or_default()
Entry(v, p) == IF p \in DOMAIN v THEN v[p] ELSE NewPeer

AddressesOf(v, p) == Entry(v, p).addresses

Best(v, p) == Entry(v, p).best

----------------------------------------------------------------------------
(* The order of a peer's addresses *)

is_in_cooldown(m) == m.cooldown > 0

\* Mutant of SortsNoLater: cooldown does not count.
RanksNoLater(addresses, a, b) == Rank[a] <= Rank[b]

\* a's sort key is not greater than b's.
SortsNoLater(addresses, a, b) ==
  IF is_in_cooldown(addresses[a]) <=> is_in_cooldown(addresses[b])
  THEN Rank[a] <= Rank[b]
  ELSE is_in_cooldown(addresses[b])

IsFirst(addresses, a) ==
  /\ a \in DOMAIN addresses
  /\ \A b \in DOMAIN addresses : SortsNoLater(addresses, a, b)

First(addresses) ==
  IF DOMAIN addresses = {} THEN NoAddr
  ELSE CHOOSE a \in DOMAIN addresses : IsFirst(addresses, a)

\* Mutant of Resort: the list is not sorted again.
ResortKeepsHead(info, addresses) ==
  [info EXCEPT !.addresses = addresses,
               !.best = IF @ = NoAddr THEN First(addresses) ELSE @]

\* info with another address list, sorted.
Resort(info, addresses) ==
  [addresses |-> addresses, best |-> First(addresses),
   supports_relay_hop_v2 |-> info.supports_relay_hop_v2, rtt |-> info.rtt]

----------------------------------------------------------------------------
(* Addresses *)

IsNewAddress(v, p, a) == a \notin DOMAIN AddressesOf(v, p)

AddAddress(v, p, a) ==
  LET known == AddressesOf(v, p)
  IN  Put(v, p, Resort(Entry(v, p),
        IF a \in DOMAIN known THEN known ELSE Put(known, a, NewAddress)))

\* Mutant of PruneEmpty: never prunes.
KeepEmpty(v, p) == v

PruneEmpty(v, p) == IF DOMAIN v[p].addresses = {} THEN Drop(v, p) ELSE v

\* The metadata goes with the address, its active connections included.
RemoveAddress(v, p, a) ==
  IF p \in DOMAIN v
  THEN PruneEmpty(Put(v, p, Resort(v[p], Drop(v[p].addresses, a))), p)
  ELSE v

----------------------------------------------------------------------------
(* Connections *)

Holders(addresses, c) ==
  {a \in DOMAIN addresses : c \in addresses[a].active_connections}

\* Mutant of Detach: does nothing.
DetachNothing(addresses, c) == addresses

\* Both handlers take c off one address that holds it, the first they find.
Detach(addresses, c) ==
  IF Holders(addresses, c) = {} THEN addresses
  ELSE LET a == CHOOSE h \in Holders(addresses, c) : TRUE
       IN  Put(addresses, a, [addresses[a] EXCEPT !.active_connections = @ \ {c}])

\* Mutant of AddConnection: success does not clear the backoff.
AddConnectionUncleared(v, p, c, a) ==
  LET rest == Detach(AddressesOf(v, p), c)
      old  == IF a \in DOMAIN rest THEN rest[a] ELSE NewAddress
  IN  Put(v, p, Resort(Entry(v, p),
        Put(rest, a, [old EXCEPT !.active_connections = @ \cup {c}])))

\* Mutant of AddConnection: the count is cleared, the cooldown is not.
AddConnectionCooling(v, p, c, a) ==
  LET rest == Detach(AddressesOf(v, p), c)
      old  == IF a \in DOMAIN rest THEN rest[a] ELSE NewAddress
  IN  Put(v, p, Resort(Entry(v, p),
        Put(rest, a, [old EXCEPT !.active_connections = @ \cup {c}, !.err_count = 0])))

\* Mutant of AddConnection: the connections of the address are replaced.
AddConnectionAlone(v, p, c, a) ==
  Put(v, p, Resort(Entry(v, p), Put(Detach(AddressesOf(v, p), c), a,
    [NewAddress EXCEPT !.active_connections = {c}])))

\* Moves c if another address holds it; success clears the backoff.
AddConnection(v, p, c, a) ==
  LET rest == Detach(AddressesOf(v, p), c)
      old  == IF a \in DOMAIN rest THEN rest[a] ELSE NewAddress
      new  == [NewAddress EXCEPT !.active_connections = old.active_connections \cup {c}]
  IN  Put(v, p, Resort(Entry(v, p), Put(rest, a, new)))

RemoveConnection(v, p, c) ==
  IF p \in DOMAIN v
  THEN PruneEmpty(Put(v, p, Resort(v[p], Detach(v[p].addresses, c))), p)
  ELSE v

IsUp(m) == m.active_connections # {}

IsConnectedOver(v, p, a) ==
  a \in DOMAIN AddressesOf(v, p) /\ IsUp(AddressesOf(v, p)[a])

IsConnected(v, p) == \E a \in DOMAIN AddressesOf(v, p) : IsConnectedOver(v, p, a)

\* The connections the view tracks for p, and the address it has for one.
ConnsOf(v, p) == UNION {m.active_connections : m \in {AddressesOf(v, p)[a] : a \in DOMAIN AddressesOf(v, p)}}

----------------------------------------------------------------------------
(* Failures, time, protocols and round-trip times *)

\* The metadata of an address after one more failure.
Failed(m) ==
  LET n == IF m.err_count < BackoffCap THEN m.err_count + 1 ELSE BackoffCap
  IN  [active_connections |-> m.active_connections, err_count |-> n, cooldown |-> Backoff(n)]

\* One call of mark_failure for each address of S.
MarkFailures(v, p, S) ==
  LET known == AddressesOf(v, p)
  IN  IF S \cap DOMAIN known = {} THEN v
      ELSE Put(v, p, Resort(v[p],
             [a \in DOMAIN known |-> IF a \in S THEN Failed(known[a]) ELSE known[a]]))

MarkFailure(v, p, a) == MarkFailures(v, p, {a})

\* One second goes by; nothing is sorted again.
Elapse(v) ==
  [p \in DOMAIN v |-> [v[p] EXCEPT !.addresses =
    [a \in DOMAIN v[p].addresses |->
      LET m == v[p].addresses[a]
      IN  [m EXCEPT !.cooldown = IF is_in_cooldown(m) THEN m.cooldown - 1 ELSE 0]]]]

SetProtocols(v, p, hop) == Put(v, p, [Entry(v, p) EXCEPT !.supports_relay_hop_v2 = hop])

\* A ping result counts only if its connection is one the view tracks.
RecordRtt(v, p, c, rtt) ==
  IF Holders(AddressesOf(v, p), c) # {} THEN Put(v, p, [v[p] EXCEPT !.rtt = rtt]) ELSE v

----------------------------------------------------------------------------
(* What a view must satisfy *)

\* best is an address of the list, or there is none.
HeadListed(info) ==
  IF DOMAIN info.addresses = {} THEN info.best = NoAddr
  ELSE info.best \in DOMAIN info.addresses

\* An address that has not failed since it last worked has nothing worse than
\* itself in front of it.
HeadSound(info) ==
  \A a \in DOMAIN info.addresses :
    info.addresses[a].err_count = 0 =>
      /\ ~is_in_cooldown(info.addresses[info.best])
      /\ Rank[info.best] <= Rank[a]

OnlyFailedCool(info) ==
  \A a \in DOMAIN info.addresses :
    is_in_cooldown(info.addresses[a]) => info.addresses[a].err_count > 0

HeldOnce(info) ==
  \A a, b \in DOMAIN info.addresses :
    a # b => info.addresses[a].active_connections
               \cap info.addresses[b].active_connections = {}

SoundPeer(info) ==
  HeadListed(info) /\ HeadSound(info) /\ OnlyFailedCool(info) /\ HeldOnce(info)

SoundView(v) == IsView(v) /\ \A p \in DOMAIN v : SoundPeer(v[p])
===============================================================================
