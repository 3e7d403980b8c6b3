--------------------------- MODULE NetworkViewLemmas ---------------------------
(***************************************************************************)
(* What each operation of src/view.rs, and reconciling, does to a view: it *)
(* keeps a sound view sound, and brings in, keeps or loses addresses and   *)
(* connections.  The lemmas are about one call each, so that they serve    *)
(* the view on its own, the node that contains it and the pair of nodes.   *)
(***************************************************************************)
EXTENDS Reconcile, FiniteSetTheorems, WellFoundedInduction, NaturalsInduction, TLAPS

\* The part of SoundPeer and of the type that is about the address list only.
SoundAddresses(addresses) ==
  /\ DOMAIN addresses \subseteq Addr
  /\ addresses \in [DOMAIN addresses -> AddressMetadata]
  /\ \A a \in DOMAIN addresses :
       is_in_cooldown(addresses[a]) => addresses[a].err_count > 0
  /\ \A a, b \in DOMAIN addresses :
       a # b => addresses[a].active_connections
                  \cap addresses[b].active_connections = {}

----------------------------------------------------------------------------
\* Every non-empty set of naturals has a least element.
LEMMA NatMin ==
  ASSUME NEW S, S \subseteq Nat, S # {}
  PROVE  \E m \in S : \A n \in S : m <= n
<1> DEFINE R == OpToRel(<, Nat)
<1>1. IsWellFoundedOn(R, Nat)
  BY NatLessThanWellFounded, Zenon
<1> HIDE DEF R
<1>2. PICK m \in S : \A n \in S : ~(<<n, m>> \in R)
  BY <1>1, WFMin, Zenon
<1>3. \A n \in S : ~(n < m)
  BY <1>2, Zenon DEF R, OpToRel
<1> QED
  BY <1>3

\* A set of addresses has one that ranks first: what makes the choice in First
\* the result of resort() (view.rs:316-326).
LEMMA RankMin ==
  ASSUME NEW S, S \subseteq Addr, S # {}
  PROVE  \E a \in S : \A b \in S : Rank[a] <= Rank[b]
<1> DEFINE Ranks == {Rank[a] : a \in S}
<1>1. Ranks \subseteq Nat /\ Ranks # {}
  BY ViewAssumption
<1>2. PICK m \in Ranks : \A n \in Ranks : m <= n
  BY <1>1, NatMin
<1> QED
  BY <1>2

\* A sorted non-empty list starts with a least address (view.rs:316-326).
LEMMA FirstIsFirst ==
  ASSUME NEW addresses, SoundAddresses(addresses), DOMAIN addresses # {}
  PROVE  IsFirst(addresses, First(addresses))
<1> DEFINE Cool == {a \in DOMAIN addresses : is_in_cooldown(addresses[a])}
           Warm == DOMAIN addresses \ Cool
<1>1. \E a \in DOMAIN addresses : IsFirst(addresses, a)
  <2>1. CASE Warm # {}
    <3>1. PICK a \in Warm : \A b \in Warm : Rank[a] <= Rank[b]
      BY <2>1, RankMin DEF SoundAddresses
    <3> QED
      BY <3>1 DEF IsFirst, SortsNoLater
  <2>2. CASE Warm = {}
    <3>1. PICK a \in DOMAIN addresses : \A b \in DOMAIN addresses : Rank[a] <= Rank[b]
      BY RankMin DEF SoundAddresses
    <3> QED
      BY <2>2, <3>1 DEF IsFirst, SortsNoLater
  <2> QED
    BY <2>1, <2>2
<1> QED
  BY <1>1 DEF First

\* Sorting a sound list gives a sound record (view.rs:316-326).
LEMMA ResortSound ==
  ASSUME NEW info, IsPeerInfoExt(info), NEW addresses, SoundAddresses(addresses)
  PROVE  IsPeerInfoExt(Resort(info, addresses)) /\ SoundPeer(Resort(info, addresses))
<1> DEFINE new == Resort(info, addresses)
<1>1. /\ new.addresses = addresses /\ new.best = First(addresses)
      /\ new = [addresses |-> addresses, best |-> First(addresses),
                supports_relay_hop_v2 |-> info.supports_relay_hop_v2, rtt |-> info.rtt]
      /\ info.supports_relay_hop_v2 \in BOOLEAN /\ info.rtt \in Rtt
  BY DEF Resort, IsPeerInfoExt
<1>2. CASE DOMAIN addresses = {}
  <2>1. First(addresses) = NoAddr
    BY <1>2 DEF First
  <2> QED
    BY <1>1, <1>2, <2>1
    DEF IsPeerInfoExt, SoundPeer, HeadListed, HeadSound, OnlyFailedCool, HeldOnce,
        SoundAddresses
<1>3. CASE DOMAIN addresses # {}
  <2>1. IsFirst(addresses, First(addresses))
    BY <1>3, FirstIsFirst
  <2>2. First(addresses) \in Addr /\ First(addresses) \in DOMAIN addresses
    BY <2>1 DEF IsFirst, SoundAddresses
  <2>3. IsPeerInfoExt(new)
    BY <1>1, <2>2 DEF IsPeerInfoExt, SoundAddresses
  <2>4. HeadListed(new)
    BY <1>1, <1>3, <2>2 DEF HeadListed
  <2>5. HeadSound(new)
    BY <1>1, <2>1, <2>2
    DEF HeadSound, IsFirst, SortsNoLater, SoundAddresses, is_in_cooldown, AddressMetadata
  <2>6. OnlyFailedCool(new) /\ HeldOnce(new)
    BY <1>1 DEF OnlyFailedCool, HeldOnce, SoundAddresses
  <2> QED
    BY <2>3, <2>4, <2>5, <2>6 DEF SoundPeer
<1> QED
  BY <1>2, <1>3

----------------------------------------------------------------------------
(* The view's own map *)

\* Replacing or adding one sound record keeps a view sound.
LEMMA PutSound ==
  ASSUME NEW v, SoundView(v), NEW p \in Peer, NEW info,
         IsPeerInfoExt(info), SoundPeer(info)
  PROVE  SoundView(Put(v, p, info))
  BY DEF SoundView, IsView, Put

\* So does forgetting a peer.
LEMMA DropSound ==
  ASSUME NEW v, SoundView(v), NEW p
  PROVE  SoundView(Drop(v, p))
  BY DEF SoundView, IsView, Drop

\* The defaults of a peer not seen before are sound (view.rs:13-22).
LEMMA NewPeerSound == IsPeerInfoExt(NewPeer) /\ SoundPeer(NewPeer)
<1>1. DOMAIN NewPeer.addresses = {}
  BY DEF NewPeer
<1>2. IsPeerInfoExt(NewPeer)
  BY ViewAssumption DEF NewPeer, IsPeerInfoExt
<1>3. NewPeer.best = NoAddr
  BY DEF NewPeer
<1> QED
  BY <1>1, <1>2, <1>3 DEF SoundPeer, HeadListed, HeadSound, OnlyFailedCool, HeldOnce

\* entry().or_default() of a sound view is a sound record with a sound list.
LEMMA EntrySound ==
  ASSUME NEW v, SoundView(v), NEW p
  PROVE  /\ IsPeerInfoExt(Entry(v, p)) /\ SoundPeer(Entry(v, p))
         /\ SoundAddresses(AddressesOf(v, p))
<1>1. IsPeerInfoExt(Entry(v, p)) /\ SoundPeer(Entry(v, p))
  BY NewPeerSound DEF Entry, SoundView, IsView
<1> QED
  BY <1>1 DEF AddressesOf, SoundAddresses, IsPeerInfoExt, SoundPeer, OnlyFailedCool, HeldOnce

\* prune_empty keeps a view sound (view.rs:237-250).
LEMMA PruneEmptySound ==
  ASSUME NEW v, SoundView(v), NEW p
  PROVE  SoundView(PruneEmpty(v, p))
  BY DropSound DEF PruneEmpty

----------------------------------------------------------------------------
(* Addresses *)

\* An entry without connections and without a failure is harmless anywhere.
LEMMA PutNewAddress ==
  ASSUME NEW addresses, SoundAddresses(addresses), NEW a \in Addr
  PROVE  SoundAddresses(Put(addresses, a, NewAddress))
<1>1. NewAddress \in AddressMetadata /\ ~is_in_cooldown(NewAddress)
      /\ NewAddress.active_connections = {}
  BY ViewAssumption DEF NewAddress, AddressMetadata, is_in_cooldown
<1> QED
  BY <1>1 DEF SoundAddresses, Put

\* A list stays sound without one of its entries.
LEMMA DropAddress ==
  ASSUME NEW addresses, SoundAddresses(addresses), NEW a
  PROVE  SoundAddresses(Drop(addresses, a))
  BY DEF SoundAddresses, Drop

\* add_address (view.rs:106-129).
LEMMA AddAddressSound ==
  ASSUME NEW v, SoundView(v), NEW p \in Peer, NEW a \in Addr
  PROVE  SoundView(AddAddress(v, p, a))
<1> DEFINE known == AddressesOf(v, p)
           list == IF a \in DOMAIN known THEN known ELSE Put(known, a, NewAddress)
<1>1. SoundAddresses(list)
  BY EntrySound, PutNewAddress
<1>2. IsPeerInfoExt(Resort(Entry(v, p), list)) /\ SoundPeer(Resort(Entry(v, p), list))
  BY <1>1, EntrySound, ResortSound
<1> QED
  BY <1>2, PutSound DEF AddAddress

\* remove_address (view.rs:131-140).
LEMMA RemoveAddressSound ==
  ASSUME NEW v, SoundView(v), NEW p, NEW a
  PROVE  SoundView(RemoveAddress(v, p, a))
<1>1. CASE p \in DOMAIN v
  <2> DEFINE new == Resort(v[p], Drop(v[p].addresses, a))
  <2>1. Entry(v, p) = v[p] /\ AddressesOf(v, p) = v[p].addresses /\ p \in Peer
    BY <1>1 DEF Entry, AddressesOf, SoundView, IsView
  <2>2. SoundAddresses(Drop(v[p].addresses, a)) /\ IsPeerInfoExt(v[p])
    BY <2>1, EntrySound, DropAddress
  <2>3. IsPeerInfoExt(new) /\ SoundPeer(new)
    BY <2>2, ResortSound
  <2> QED
    BY <1>1, <2>1, <2>3, PutSound, PruneEmptySound DEF RemoveAddress
<1>2. CASE p \notin DOMAIN v
  BY <1>2 DEF RemoveAddress
<1> QED
  BY <1>1, <1>2

----------------------------------------------------------------------------
(* Connections *)

\* Taking a connection off the address that holds it (view.rs:156-170, 206-211):
\* the list stays sound and, since one address at most held it, nothing holds
\* it any more.
LEMMA DetachSound ==
  ASSUME NEW addresses, SoundAddresses(addresses), NEW c
  PROVE  /\ SoundAddresses(Detach(addresses, c))
         /\ DOMAIN Detach(addresses, c) = DOMAIN addresses
         /\ \A a \in DOMAIN addresses :
              /\ c \notin Detach(addresses, c)[a].active_connections
              /\ Detach(addresses, c)[a].active_connections
                   \subseteq addresses[a].active_connections
              /\ Detach(addresses, c)[a].err_count = addresses[a].err_count
<1>1. CASE Holders(addresses, c) = {}
  BY <1>1 DEF Detach, Holders
<1>2. CASE Holders(addresses, c) # {}
  <2> DEFINE h == CHOOSE x \in Holders(addresses, c) : TRUE
             new == [addresses[h] EXCEPT !.active_connections = @ \ {c}]
  <2>1. h \in DOMAIN addresses /\ c \in addresses[h].active_connections
    BY <1>2 DEF Holders
  <2>2. Detach(addresses, c) = Put(addresses, h, new)
    BY <1>2 DEF Detach
  <2> HIDE DEF h
  <2>3. addresses[h] \in AddressMetadata
    BY <2>1 DEF SoundAddresses
  <2>4. /\ new \in AddressMetadata
        /\ new.active_connections = addresses[h].active_connections \ {c}
        /\ new.err_count = addresses[h].err_count /\ new.cooldown = addresses[h].cooldown
    BY <2>3 DEF AddressMetadata
  <2>5. \A a \in DOMAIN addresses : a # h => c \notin addresses[a].active_connections
    BY <2>1 DEF SoundAddresses
  <2> HIDE DEF new
  <2> DEFINE list == Put(addresses, h, new)
  <2>6. /\ DOMAIN list = DOMAIN addresses
        /\ \A a \in DOMAIN addresses : list[a] = IF a = h THEN new ELSE addresses[a]
        /\ list = [a \in DOMAIN addresses |-> IF a = h THEN new ELSE addresses[a]]
    BY <2>1 DEF Put
  <2>7. SoundAddresses(list)
    <3>1. list \in [DOMAIN list -> AddressMetadata] /\ DOMAIN list \subseteq Addr
      BY <2>4, <2>6 DEF SoundAddresses
    <3>2. \A a \in DOMAIN list : is_in_cooldown(list[a]) => list[a].err_count > 0
      BY <2>1, <2>4, <2>6 DEF SoundAddresses, is_in_cooldown
    <3>3. \A a, b \in DOMAIN list : a # b =>
            list[a].active_connections \cap list[b].active_connections = {}
      BY <2>1, <2>4, <2>6 DEF SoundAddresses
    <3> QED
      BY <3>1, <3>2, <3>3 DEF SoundAddresses
  <2> QED
    BY <2>2, <2>4, <2>5, <2>6, <2>7
<1> QED
  BY <1>1, <1>2

\* add_connection (view.rs:142-201).
LEMMA AddConnectionSound ==
  ASSUME NEW v, SoundView(v), NEW p \in Peer, NEW c \in ConnId, NEW a \in Addr
  PROVE  SoundView(AddConnection(v, p, c, a))
<1> DEFINE rest == Detach(AddressesOf(v, p), c)
           old == IF a \in DOMAIN rest THEN rest[a] ELSE NewAddress
           new == [NewAddress EXCEPT !.active_connections = old.active_connections \cup {c}]
           list == Put(rest, a, new)
<1>1. /\ SoundAddresses(rest)
      /\ \A b \in DOMAIN rest : c \notin rest[b].active_connections
  BY EntrySound, DetachSound
<1> HIDE DEF rest
<1>2. old.active_connections \subseteq ConnId
  BY <1>1 DEF SoundAddresses, AddressMetadata, NewAddress
<1>3. \A b \in DOMAIN rest : a # b =>
        rest[b].active_connections \cap old.active_connections = {}
  BY <1>1 DEF SoundAddresses, NewAddress
<1> HIDE DEF old
<1>4. /\ new \in AddressMetadata /\ ~is_in_cooldown(new)
      /\ new.active_connections = old.active_connections \cup {c}
  BY <1>2, ViewAssumption DEF NewAddress, AddressMetadata, is_in_cooldown
<1> HIDE DEF new
<1>5. SoundAddresses(list)
  <2>1. /\ DOMAIN list = DOMAIN rest \cup {a}
        /\ \A b \in DOMAIN list : list[b] = IF b = a THEN new ELSE rest[b]
        /\ list = [b \in DOMAIN list |-> list[b]]
    BY DEF Put
  <2>2. DOMAIN list \subseteq Addr /\ list \in [DOMAIN list -> AddressMetadata]
    BY <1>1, <1>4, <2>1 DEF SoundAddresses
  <2>3. \A b \in DOMAIN list : is_in_cooldown(list[b]) => list[b].err_count > 0
    BY <1>1, <1>4, <2>1 DEF SoundAddresses
  <2>4. \A b, d \in DOMAIN list : b # d =>
          list[b].active_connections \cap list[d].active_connections = {}
    BY <1>1, <1>3, <1>4, <2>1 DEF SoundAddresses
  <2> QED
    BY <2>2, <2>3, <2>4 DEF SoundAddresses
<1>6. IsPeerInfoExt(Resort(Entry(v, p), list)) /\ SoundPeer(Resort(Entry(v, p), list))
  BY <1>5, EntrySound, ResortSound
<1> QED
  BY <1>6, PutSound DEF AddConnection, rest, old, new

\* remove_connection (view.rs:203-216).
LEMMA RemoveConnectionSound ==
  ASSUME NEW v, SoundView(v), NEW p, NEW c
  PROVE  SoundView(RemoveConnection(v, p, c))
<1>1. CASE p \in DOMAIN v
  <2> DEFINE new == Resort(v[p], Detach(v[p].addresses, c))
  <2>1. Entry(v, p) = v[p] /\ AddressesOf(v, p) = v[p].addresses /\ p \in Peer
    BY <1>1 DEF Entry, AddressesOf, SoundView, IsView
  <2>2. SoundAddresses(Detach(v[p].addresses, c)) /\ IsPeerInfoExt(v[p])
    BY <2>1, EntrySound, DetachSound
  <2>3. IsPeerInfoExt(new) /\ SoundPeer(new)
    BY <2>2, ResortSound
  <2> QED
    BY <1>1, <2>1, <2>3, PutSound, PruneEmptySound DEF RemoveConnection
<1>2. CASE p \notin DOMAIN v
  BY <1>2 DEF RemoveConnection
<1> QED
  BY <1>1, <1>2

----------------------------------------------------------------------------
(* Failures, time, protocols and round-trip times *)

\* The schedule stays within the type: 2 to 64 seconds after a failure
\* (view.rs:98).
LEMMA BackoffRange ==
  ASSUME NEW n \in 1..BackoffCap
  PROVE  Backoff(n) \in 1..64
<1>1. n \in {1, 2, 3, 4, 5, 6}
  BY ViewAssumption
<1> QED
  BY <1>1 DEF Backoff

\* One more failure of an address is a failure (view.rs:292-293).
LEMMA FailedSound ==
  ASSUME NEW m \in AddressMetadata
  PROVE  /\ Failed(m) \in AddressMetadata /\ Failed(m).err_count > 0
         /\ Failed(m).active_connections = m.active_connections
<1> DEFINE n == IF m.err_count < BackoffCap THEN m.err_count + 1 ELSE BackoffCap
<1>1. m.err_count \in 0..BackoffCap /\ BackoffCap \in Nat /\ BackoffCap >= 1
  BY ViewAssumption DEF AddressMetadata
<1>2. n \in 1..BackoffCap
  BY <1>1
<1>3. Backoff(n) \in 1..64
  BY <1>2, BackoffRange
<1>4. Failed(m) = [active_connections |-> m.active_connections, err_count |-> n,
                   cooldown |-> Backoff(n)]
  BY DEF Failed
<1> HIDE DEF n
<1> QED
  BY <1>1, <1>2, <1>3, <1>4 DEF AddressMetadata

\* mark_failure, for any number of addresses of a peer (view.rs:290-297).
LEMMA MarkFailuresSound ==
  ASSUME NEW v, SoundView(v), NEW p, NEW S
  PROVE  SoundView(MarkFailures(v, p, S))
<1> DEFINE known == AddressesOf(v, p)
           list == [a \in DOMAIN known |-> IF a \in S THEN Failed(known[a]) ELSE known[a]]
<1>1. CASE S \cap DOMAIN known # {}
  <2>1. p \in DOMAIN v /\ p \in Peer /\ Entry(v, p) = v[p]
    BY <1>1 DEF AddressesOf, Entry, NewPeer, SoundView, IsView
  <2>2. SoundAddresses(known) /\ IsPeerInfoExt(v[p])
    BY <2>1, EntrySound
  <2>3. MarkFailures(v, p, S) = Put(v, p, Resort(v[p], list))
    BY <1>1 DEF MarkFailures
  <2> HIDE DEF known
  <2>4. \A a \in DOMAIN known : known[a] \in AddressMetadata
    BY <2>2 DEF SoundAddresses
  <2>5. \A a \in DOMAIN known :
          /\ list[a] \in AddressMetadata
          /\ list[a].active_connections = known[a].active_connections
          /\ list[a] = known[a] \/ list[a].err_count > 0
    BY <2>4, FailedSound
  <2>6. DOMAIN list = DOMAIN known /\ list \in [DOMAIN list -> AddressMetadata]
    BY <2>5
  <2> HIDE DEF list
  <2>7. SoundAddresses(list)
    <3>1. \A a \in DOMAIN list : is_in_cooldown(list[a]) => list[a].err_count > 0
      BY <2>2, <2>5, <2>6 DEF SoundAddresses
    <3>2. \A a, b \in DOMAIN list : a # b =>
            list[a].active_connections \cap list[b].active_connections = {}
      BY <2>2, <2>5, <2>6 DEF SoundAddresses
    <3> QED
      BY <2>2, <2>6, <3>1, <3>2 DEF SoundAddresses
  <2>8. IsPeerInfoExt(Resort(v[p], list)) /\ SoundPeer(Resort(v[p], list))
    BY <2>2, <2>7, ResortSound
  <2> QED
    BY <2>1, <2>3, <2>8, PutSound
<1>2. CASE S \cap DOMAIN known = {}
  BY <1>2 DEF MarkFailures
<1> QED
  BY <1>1, <1>2

\* A second that goes by sorts nothing, but it only ever lets addresses out of
\* cooldown, and those have failed (view.rs:95-102).
LEMMA ElapseSound ==
  ASSUME NEW v, SoundView(v)
  PROVE  SoundView(Elapse(v))
<1> DEFINE w == Elapse(v)
           older(m) == [m EXCEPT !.cooldown = IF is_in_cooldown(m) THEN m.cooldown - 1 ELSE 0]
<1>1. DOMAIN w = DOMAIN v /\ w = [p \in DOMAIN v |-> w[p]]
  BY DEF Elapse
<1>2. ASSUME NEW m \in AddressMetadata
      PROVE  /\ older(m) \in AddressMetadata
             /\ older(m).err_count = m.err_count
             /\ older(m).active_connections = m.active_connections
             /\ is_in_cooldown(older(m)) => is_in_cooldown(m)
  BY DEF AddressMetadata, is_in_cooldown
<1>3. ASSUME NEW p \in DOMAIN v
      PROVE  IsPeerInfoExt(w[p]) /\ SoundPeer(w[p])
  <2> DEFINE addresses == v[p].addresses
             list == [a \in DOMAIN addresses |-> older(addresses[a])]
  <2>1. IsPeerInfoExt(v[p]) /\ SoundPeer(v[p])
    BY DEF SoundView, IsView
  <2>2. w[p] = [v[p] EXCEPT !.addresses = list]
    BY DEF Elapse
  <2>3. /\ w[p] = [addresses |-> list, best |-> v[p].best,
                   supports_relay_hop_v2 |-> v[p].supports_relay_hop_v2, rtt |-> v[p].rtt]
        /\ v[p].best \in Addr \cup {NoAddr}
        /\ v[p].supports_relay_hop_v2 \in BOOLEAN /\ v[p].rtt \in Rtt
    BY <2>1, <2>2 DEF IsPeerInfoExt
  <2>4. w[p].addresses = list /\ w[p].best = v[p].best
    BY <2>3
  <2>5. \A a \in DOMAIN addresses : addresses[a] \in AddressMetadata
    BY <2>1 DEF IsPeerInfoExt
  <2>6. DOMAIN list = DOMAIN addresses /\ DOMAIN addresses \subseteq Addr
    BY <2>1 DEF IsPeerInfoExt
  <2>7. \A a \in DOMAIN addresses :
          /\ list[a] \in AddressMetadata
          /\ list[a].err_count = addresses[a].err_count
          /\ list[a].active_connections = addresses[a].active_connections
          /\ is_in_cooldown(list[a]) => is_in_cooldown(addresses[a])
    <3> HIDE DEF addresses, older
    <3> QED
      BY <1>2, <2>5
  <2>8. list \in [DOMAIN list -> AddressMetadata]
    BY <2>6, <2>7
  <2> HIDE DEF list, w
  <2>9. IsPeerInfoExt(w[p])
    BY <2>3, <2>4, <2>6, <2>8 DEF IsPeerInfoExt
  <2>10. SoundPeer(w[p])
    <3>1. HeadListed(w[p])
      BY <2>1, <2>4, <2>6 DEF SoundPeer, HeadListed
    <3>2. HeadSound(w[p])
      BY <2>1, <2>4, <2>6, <2>7, <3>1 DEF SoundPeer, HeadSound, HeadListed
    <3>3. OnlyFailedCool(w[p]) /\ HeldOnce(w[p])
      BY <2>1, <2>4, <2>6, <2>7 DEF SoundPeer, OnlyFailedCool, HeldOnce
    <3> QED
      BY <3>1, <3>2, <3>3 DEF SoundPeer
  <2> QED
    BY <2>9, <2>10
<1> QED
  BY <1>1, <1>3 DEF SoundView, IsView

\* Fields beside the address list do not matter to soundness.
LEMMA OtherFieldsSound ==
  ASSUME NEW info, IsPeerInfoExt(info), SoundPeer(info), NEW hop \in BOOLEAN, NEW rtt \in Rtt,
         NEW new, new = [addresses |-> info.addresses, best |-> info.best,
                         supports_relay_hop_v2 |-> hop, rtt |-> rtt]
  PROVE  IsPeerInfoExt(new) /\ SoundPeer(new)
  BY DEF IsPeerInfoExt, SoundPeer, HeadListed, HeadSound, OnlyFailedCool, HeldOnce

\* set_protocols (view.rs:252-274).
LEMMA SetProtocolsSound ==
  ASSUME NEW v, SoundView(v), NEW p \in Peer, NEW hop \in BOOLEAN
  PROVE  SoundView(SetProtocols(v, p, hop))
<1> DEFINE info == Entry(v, p)
           new == [info EXCEPT !.supports_relay_hop_v2 = hop]
<1>1. IsPeerInfoExt(info) /\ SoundPeer(info)
  BY EntrySound
<1> HIDE DEF info
<1>2. /\ new = [addresses |-> info.addresses, best |-> info.best,
                supports_relay_hop_v2 |-> hop, rtt |-> info.rtt]
      /\ info.rtt \in Rtt
  BY <1>1 DEF IsPeerInfoExt
<1> HIDE DEF new
<1>3. IsPeerInfoExt(new) /\ SoundPeer(new)
  BY <1>1, <1>2, OtherFieldsSound
<1> QED
  BY <1>3, PutSound DEF SetProtocols, info, new

\* The Ping handler's write to the view (mod.rs:487-510).
LEMMA RecordRttSound ==
  ASSUME NEW v, SoundView(v), NEW p, NEW c, NEW rtt \in Rtt
  PROVE  SoundView(RecordRtt(v, p, c, rtt))
<1>1. CASE Holders(AddressesOf(v, p), c) # {}
  <2> DEFINE info == v[p]
             new == [info EXCEPT !.rtt = rtt]
  <2>1. p \in DOMAIN v /\ p \in Peer
    BY <1>1 DEF Holders, AddressesOf, Entry, NewPeer, SoundView, IsView
  <2>2. IsPeerInfoExt(info) /\ SoundPeer(info)
    BY <2>1 DEF SoundView, IsView
  <2> HIDE DEF info
  <2>3. /\ new = [addresses |-> info.addresses, best |-> info.best,
                  supports_relay_hop_v2 |-> info.supports_relay_hop_v2, rtt |-> rtt]
        /\ info.supports_relay_hop_v2 \in BOOLEAN
    BY <2>2 DEF IsPeerInfoExt
  <2> HIDE DEF new
  <2>4. IsPeerInfoExt(new) /\ SoundPeer(new)
    BY <2>2, <2>3, OtherFieldsSound
  <2> QED
    BY <1>1, <2>1, <2>4, PutSound DEF RecordRtt, info, new
<1>2. CASE Holders(AddressesOf(v, p), c) = {}
  BY <1>2 DEF RecordRtt
<1> QED
  BY <1>1, <1>2

----------------------------------------------------------------------------
(* What an operation does to the connections and to the health of a view *)

\* Connection c counts for address a of p.
Holds(v, p, a, c) ==
  /\ p \in DOMAIN v /\ a \in DOMAIN v[p].addresses
  /\ c \in v[p].addresses[a].active_connections

Has(v, p, a) == p \in DOMAIN v /\ a \in DOMAIN v[p].addresses

\* What is up has no failure on record.
UpIsWell(v) ==
  \A p \in DOMAIN v : \A a \in DOMAIN v[p].addresses :
    IsUp(v[p].addresses[a]) => v[p].addresses[a].err_count = 0

\* w has no connection that v has not, and is as healthy.
Inherits(w, v) ==
  /\ \A p, a, c : Holds(w, p, a, c) => Holds(v, p, a, c)
  /\ UpIsWell(v) => UpIsWell(w)

LEMMA InheritsSteps ==
  ASSUME NEW u, NEW v, NEW w, Inherits(v, u), Inherits(w, v) PROVE Inherits(w, u)
  BY DEF Inherits

\* An address is there or not, and p's record is one entry of the view.
LEMMA PutEntry ==
  ASSUME NEW v, NEW p, NEW info
  PROVE  /\ DOMAIN Put(v, p, info) = DOMAIN v \cup {p}
         /\ Put(v, p, info)[p] = info
         /\ \A q \in DOMAIN v : q # p => Put(v, p, info)[q] = v[q]
  BY DEF Put

\* A peer's list is replaced by one that inherits from it.
LEMMA PutInherits ==
  ASSUME NEW v, NEW p, NEW info,
         \A a \in DOMAIN info.addresses :
           /\ \A c \in info.addresses[a].active_connections : Holds(v, p, a, c)
           /\ UpIsWell(v) /\ IsUp(info.addresses[a]) => info.addresses[a].err_count = 0
  PROVE  Inherits(Put(v, p, info), v)
<1> DEFINE w == Put(v, p, info)
<1>1. DOMAIN w = DOMAIN v \cup {p} /\ w[p] = info /\ \A q \in DOMAIN v : q # p => w[q] = v[q]
  BY DEF Put
<1> HIDE DEF w
<1>2. ASSUME NEW q, NEW a, NEW c, Holds(w, q, a, c) PROVE Holds(v, q, a, c)
  BY <1>1, <1>2 DEF Holds
<1>3. ASSUME UpIsWell(v) PROVE UpIsWell(w)
  BY <1>1, <1>3 DEF UpIsWell
<1> QED
  BY <1>2, <1>3 DEF Inherits, w

\* The list of p that an operation starts from is p's own, or empty.
LEMMA KnownAreOwn ==
  ASSUME NEW v, NEW p, NEW a \in DOMAIN AddressesOf(v, p)
  PROVE  /\ p \in DOMAIN v /\ a \in DOMAIN v[p].addresses
         /\ AddressesOf(v, p)[a] = v[p].addresses[a]
         /\ \A c \in AddressesOf(v, p)[a].active_connections : Holds(v, p, a, c)
         /\ UpIsWell(v) /\ IsUp(AddressesOf(v, p)[a]) => AddressesOf(v, p)[a].err_count = 0
<1>1. p \in DOMAIN v
  BY DEF AddressesOf, Entry, NewPeer
<1> QED
  BY <1>1 DEF AddressesOf, Entry, Holds, UpIsWell

\* What a sound view holds is typed.
LEMMA HoldsTyped ==
  ASSUME NEW v, SoundView(v), NEW p, NEW a, NEW c, Holds(v, p, a, c)
  PROVE  p \in Peer /\ a \in Addr /\ c \in ConnId
<1>1. IsPeerInfoExt(v[p]) /\ p \in Peer
  BY DEF Holds, SoundView, IsView
<1>2. v[p].addresses[a] \in AddressMetadata /\ a \in Addr
  BY <1>1 DEF Holds, IsPeerInfoExt
<1> QED
  BY <1>1, <1>2 DEF Holds, AddressMetadata

LEMMA AddAddressInherits ==
  ASSUME NEW v, NEW p, NEW a
  PROVE  /\ Inherits(AddAddress(v, p, a), v)
         /\ Has(AddAddress(v, p, a), p, a)
         /\ \A q, b : Has(v, q, b) => Has(AddAddress(v, p, a), q, b)
<1> DEFINE known == AddressesOf(v, p)
           list == IF a \in DOMAIN known THEN known ELSE Put(known, a, NewAddress)
           info == Resort(Entry(v, p), list)
<1>1. AddAddress(v, p, a) = Put(v, p, info)
  BY DEF AddAddress
<1>2. info.addresses = list
  BY DEF Resort
<1>3. /\ DOMAIN list = DOMAIN known \cup {a}
      /\ \A b \in DOMAIN list : \/ b \in DOMAIN known /\ list[b] = known[b]
                                \/ list[b].active_connections = {}
  BY DEF Put, NewAddress
<1> HIDE DEF info, list, known
<1>4. \A b \in DOMAIN info.addresses :
        /\ \A c \in info.addresses[b].active_connections : Holds(v, p, b, c)
        /\ UpIsWell(v) /\ IsUp(info.addresses[b]) => info.addresses[b].err_count = 0
  BY <1>2, <1>3, KnownAreOwn DEF known, IsUp
<1>5. Inherits(Put(v, p, info), v)
  BY <1>4, PutInherits
<1>6. \A b : Has(v, p, b) => b \in DOMAIN known
  BY DEF Has, known, AddressesOf, Entry
<1>7. Has(Put(v, p, info), p, a) /\ \A q, b : Has(v, q, b) => Has(Put(v, p, info), q, b)
  BY <1>2, <1>3, <1>6 DEF Has, Put
<1> QED
  BY <1>1, <1>5, <1>7

\* Forgetting an empty peer changes nothing.
LEMMA PruneEmptySame ==
  ASSUME NEW v, NEW p \in DOMAIN v
  PROVE  /\ Inherits(PruneEmpty(v, p), v)
         /\ \A q, a : Has(v, q, a) <=> Has(PruneEmpty(v, p), q, a)
  BY DEF PruneEmpty, Drop, Inherits, Holds, Has, UpIsWell

LEMMA RemoveAddressInherits ==
  ASSUME NEW v, NEW p, NEW a
  PROVE  /\ Inherits(RemoveAddress(v, p, a), v)
         /\ \A q, b : Has(v, q, b) /\ b # a => Has(RemoveAddress(v, p, a), q, b)
<1>1. CASE p \notin DOMAIN v
  BY <1>1 DEF RemoveAddress, Inherits
<1>2. CASE p \in DOMAIN v
  <2> DEFINE info == Resort(v[p], Drop(v[p].addresses, a))
             w == Put(v, p, info)
  <2>1. info.addresses = Drop(v[p].addresses, a)
    BY DEF Resort
  <2>2. RemoveAddress(v, p, a) = PruneEmpty(w, p) /\ p \in DOMAIN w
    BY <1>2 DEF RemoveAddress, Put
  <2> HIDE DEF info
  <2>3. Inherits(w, v)
    <3>1. \A b \in DOMAIN info.addresses :
            /\ \A c \in info.addresses[b].active_connections : Holds(v, p, b, c)
            /\ UpIsWell(v) /\ IsUp(info.addresses[b]) => info.addresses[b].err_count = 0
      BY <1>2, <2>1 DEF Drop, Holds, UpIsWell
    <3> QED
      BY <3>1, PutInherits
  <2>4. \A q, b : Has(v, q, b) /\ b # a => Has(w, q, b)
    BY <1>2, <2>1 DEF Has, Put, Drop
  <2> HIDE DEF w
  <2> QED
    BY <2>2, <2>3, <2>4, PruneEmptySame, InheritsSteps
<1> QED
  BY <1>1, <1>2

\* A new connection is the one that is added; success makes the address well.
LEMMA AddConnectionAdds ==
  ASSUME NEW v, SoundView(v), NEW p, NEW c, NEW a
  PROVE  LET w == AddConnection(v, p, c, a) IN
         /\ \A q, b, d : Holds(w, q, b, d) => Holds(v, q, b, d) \/ (q = p /\ b = a /\ d = c)
         /\ UpIsWell(v) => UpIsWell(w)
         /\ \A q, b : Has(v, q, b) => Has(w, q, b)
<1> DEFINE known == AddressesOf(v, p)
           rest == Detach(known, c)
           old == IF a \in DOMAIN rest THEN rest[a] ELSE NewAddress
           new == [NewAddress EXCEPT !.active_connections = old.active_connections \cup {c}]
           info == Resort(Entry(v, p), Put(rest, a, new))
           w == Put(v, p, info)
<1>1. AddConnection(v, p, c, a) = w
  BY DEF AddConnection
<1>2. /\ DOMAIN rest = DOMAIN known
      /\ \A b \in DOMAIN known : /\ rest[b].active_connections \subseteq known[b].active_connections
                                 /\ rest[b].err_count = known[b].err_count
  BY EntrySound, DetachSound
<1>3. info.addresses = Put(rest, a, new)
  BY DEF Resort
<1>4. /\ new.err_count = 0
      /\ new.active_connections = old.active_connections \cup {c}
      /\ a \notin DOMAIN rest => old.active_connections = {}
      /\ a \in DOMAIN rest => old = rest[a]
  BY DEF NewAddress
<1> HIDE DEF rest, old, new, info
<1>5. /\ DOMAIN info.addresses = DOMAIN known \cup {a}
      /\ info.addresses[a] = new
      /\ \A b \in DOMAIN known : b # a => info.addresses[b] = rest[b]
  BY <1>2, <1>3 DEF Put
<1>6. \A b \in DOMAIN info.addresses : \A d \in info.addresses[b].active_connections :
        Holds(v, p, b, d) \/ (b = a /\ d = c)
  BY <1>2, <1>4, <1>5, KnownAreOwn
<1>7. UpIsWell(v) => \A b \in DOMAIN info.addresses :
        IsUp(info.addresses[b]) => info.addresses[b].err_count = 0
  BY <1>2, <1>4, <1>5, KnownAreOwn DEF IsUp
<1>8. /\ DOMAIN w = DOMAIN v \cup {p} /\ w[p] = info /\ \A q \in DOMAIN v : q # p => w[q] = v[q]
  BY DEF Put
<1>9. \A b : Has(v, p, b) => b \in DOMAIN known
  BY DEF Has, AddressesOf, Entry
<1> HIDE DEF w, known
<1>10. \A q, b, d : Holds(w, q, b, d) => Holds(v, q, b, d) \/ (q = p /\ b = a /\ d = c)
  BY <1>6, <1>8 DEF Holds
<1>11. UpIsWell(v) => UpIsWell(w)
  BY <1>7, <1>8 DEF UpIsWell
<1>12. \A q, b : Has(v, q, b) => Has(w, q, b)
  BY <1>5, <1>8, <1>9 DEF Has
<1> QED
  BY <1>1, <1>10, <1>11, <1>12

\* A connection that is taken off is gone.
LEMMA RemoveConnectionRemoves ==
  ASSUME NEW v, SoundView(v), NEW p, NEW c
  PROVE  LET w == RemoveConnection(v, p, c) IN
         /\ Inherits(w, v) /\ \A a : ~Holds(w, p, a, c)
         /\ \A q, b : Has(v, q, b) => Has(w, q, b)
<1>1. CASE p \notin DOMAIN v
  BY <1>1 DEF RemoveConnection, Inherits, Holds
<1>2. CASE p \in DOMAIN v
  <2> DEFINE known == v[p].addresses
             info == Resort(v[p], Detach(known, c))
             w == Put(v, p, info)
  <2>1. RemoveConnection(v, p, c) = PruneEmpty(w, p) /\ p \in DOMAIN w
    BY <1>2 DEF RemoveConnection, Put
  <2>2. SoundAddresses(known)
    BY <1>2, EntrySound DEF AddressesOf, Entry
  <2>3. /\ DOMAIN info.addresses = DOMAIN known
        /\ \A a \in DOMAIN known :
             /\ c \notin info.addresses[a].active_connections
             /\ info.addresses[a].active_connections \subseteq known[a].active_connections
             /\ info.addresses[a].err_count = known[a].err_count
    BY <2>2, DetachSound DEF Resort
  <2> HIDE DEF info
  <2>4. Inherits(w, v)
    <3>1. \A b \in DOMAIN info.addresses :
            /\ \A d \in info.addresses[b].active_connections : Holds(v, p, b, d)
            /\ UpIsWell(v) /\ IsUp(info.addresses[b]) => info.addresses[b].err_count = 0
      BY <1>2, <2>3 DEF Holds, UpIsWell, IsUp
    <3> QED
      BY <3>1, PutInherits
  <2>5. (\A a : ~Holds(w, p, a, c)) /\ \A q, b : Has(v, q, b) => Has(w, q, b)
    BY <1>2, <2>3 DEF Put, Holds, Has
  <2> HIDE DEF w
  <2>6. (\A a : ~Holds(PruneEmpty(w, p), p, a, c))
    BY <2>1, <2>5, PruneEmptySame DEF Inherits
  <2> QED
    BY <2>1, <2>4, <2>5, <2>6, PruneEmptySame, InheritsSteps
<1> QED
  BY <1>1, <1>2

\* Where an operation leaves the lists as they are.
LEMMA SetProtocolsInherits ==
  ASSUME NEW v, SoundView(v), NEW p, NEW hop
  PROVE  /\ Inherits(SetProtocols(v, p, hop), v)
         /\ \A q, b : Has(v, q, b) => Has(SetProtocols(v, p, hop), q, b)
<1> DEFINE info == [Entry(v, p) EXCEPT !.supports_relay_hop_v2 = hop]
<1>1. info.addresses = AddressesOf(v, p)
  BY EntrySound DEF AddressesOf, IsPeerInfoExt
<1> HIDE DEF info
<1>2. Inherits(Put(v, p, info), v)
  BY <1>1, KnownAreOwn, PutInherits
<1>3. \A q, b : Has(v, q, b) => Has(Put(v, p, info), q, b)
  BY <1>1 DEF Has, Put, AddressesOf, Entry
<1> QED
  BY <1>2, <1>3 DEF SetProtocols, info

LEMMA RecordRttInherits ==
  ASSUME NEW v, SoundView(v), NEW p, NEW c, NEW t
  PROVE  /\ Inherits(RecordRtt(v, p, c, t), v)
         /\ \A q, b : Has(v, q, b) => Has(RecordRtt(v, p, c, t), q, b)
<1>1. CASE Holders(AddressesOf(v, p), c) = {}
  BY <1>1 DEF RecordRtt, Inherits
<1>2. CASE Holders(AddressesOf(v, p), c) # {}
  <2> DEFINE info == [v[p] EXCEPT !.rtt = t]
  <2>1. p \in DOMAIN v /\ Entry(v, p) = v[p]
    BY <1>2, KnownAreOwn DEF Holders, Entry
  <2>2. info.addresses = AddressesOf(v, p)
    BY <2>1, EntrySound DEF AddressesOf, IsPeerInfoExt
  <2> HIDE DEF info
  <2>3. Inherits(Put(v, p, info), v)
    BY <2>2, KnownAreOwn, PutInherits
  <2>4. \A q, b : Has(v, q, b) => Has(Put(v, p, info), q, b)
    BY <2>2 DEF Has, Put, AddressesOf, Entry
  <2> QED
    BY <1>2, <2>3, <2>4 DEF RecordRtt, info
<1> QED
  BY <1>1, <1>2

LEMMA ElapseInherits ==
  ASSUME NEW v, SoundView(v)
  PROVE  Inherits(Elapse(v), v) /\ \A q, b : Has(v, q, b) => Has(Elapse(v), q, b)
<1> DEFINE w == Elapse(v)
<1>1. ASSUME NEW p \in DOMAIN v
      PROVE  /\ p \in DOMAIN w /\ DOMAIN w[p].addresses = DOMAIN v[p].addresses
             /\ \A a \in DOMAIN v[p].addresses :
                  /\ w[p].addresses[a].active_connections = v[p].addresses[a].active_connections
                  /\ w[p].addresses[a].err_count = v[p].addresses[a].err_count
  <2>1. IsPeerInfoExt(v[p])
    BY <1>1 DEF SoundView, IsView
  <2>2. \A a \in DOMAIN v[p].addresses : v[p].addresses[a] \in AddressMetadata
    BY <2>1 DEF IsPeerInfoExt
  <2> QED
    BY <1>1, <2>1, <2>2 DEF Elapse, IsPeerInfoExt, AddressMetadata
<1>2. DOMAIN w = DOMAIN v
  BY DEF Elapse
<1> HIDE DEF w
<1> QED
  BY <1>1, <1>2 DEF Inherits, Holds, Has, UpIsWell, IsUp, w

----------------------------------------------------------------------------
(* Reconciling *)

\* A failure takes no address.
LEMMA MarkFailuresHas ==
  ASSUME NEW v, NEW p, NEW S, NEW q, NEW b, Has(v, q, b) PROVE Has(MarkFailures(v, p, S), q, b)
<1> DEFINE known == AddressesOf(v, p)
           list == [a \in DOMAIN known |-> IF a \in S THEN Failed(known[a]) ELSE known[a]]
           info == Resort(v[p], list)
<1>1. MarkFailures(v, p, S) = v \/ MarkFailures(v, p, S) = Put(v, p, info)
  BY DEF MarkFailures
<1>2. DOMAIN info.addresses = DOMAIN known
  BY DEF Resort
<1> HIDE DEF info
<1> QED
  BY <1>1, <1>2 DEF Has, Put, AddressesOf, Entry

\* Failures are no connections, and where the address is down no illness either.
LEMMA MarkFailuresInherits ==
  ASSUME NEW v, SoundView(v), NEW p, NEW S, \A a \in S : ~IsConnectedOver(v, p, a)
  PROVE  /\ Inherits(MarkFailures(v, p, S), v)
         /\ \A q, b : Has(v, q, b) => Has(MarkFailures(v, p, S), q, b)
<1> DEFINE known == AddressesOf(v, p)
           list == [a \in DOMAIN known |-> IF a \in S THEN Failed(known[a]) ELSE known[a]]
           info == Resort(v[p], list)
<1>1. CASE S \cap DOMAIN known = {}
  BY <1>1 DEF MarkFailures, Inherits
<1>2. CASE S \cap DOMAIN known # {}
  <2>1. MarkFailures(v, p, S) = Put(v, p, info) /\ info.addresses = list
    BY <1>2 DEF MarkFailures, Resort
  <2>2. \A a \in DOMAIN known : known[a] \in AddressMetadata
    BY EntrySound DEF SoundAddresses
  <2>3. \A a \in DOMAIN known :
          /\ list[a].active_connections = known[a].active_connections
          /\ a \notin S => list[a] = known[a]
          /\ a \in S => ~IsUp(known[a])
    BY <2>2, FailedSound DEF IsConnectedOver
  <2>4. DOMAIN list = DOMAIN known
    OBVIOUS
  <2> HIDE DEF list, info
  <2>5. \A a \in DOMAIN info.addresses :
          /\ \A c \in info.addresses[a].active_connections : Holds(v, p, a, c)
          /\ UpIsWell(v) /\ IsUp(info.addresses[a]) => info.addresses[a].err_count = 0
    BY <2>1, <2>3, <2>4, KnownAreOwn DEF IsUp
  <2> QED
    BY <2>1, <2>5, PutInherits, MarkFailuresHas
<1> QED
  BY <1>1, <1>2

\* A peer with addresses and no connection, all of whose addresses cool down.
Stuck(v) ==
  \E p \in DOMAIN v :
    /\ DOMAIN v[p].addresses # {} /\ ~IsConnected(v, p)
    /\ \A a \in DOMAIN v[p].addresses : is_in_cooldown(v[p].addresses[a])

\* Marking every address that does not cool down leaves a peer stuck that has no
\* connection.
LEMMA MarkedAllIsStuck ==
  ASSUME NEW v, SoundView(v), NEW p, DOMAIN AddressesOf(v, p) # {}, ~IsConnected(v, p),
         NEW S, \A a \in DOMAIN AddressesOf(v, p) :
                  ~is_in_cooldown(AddressesOf(v, p)[a]) => a \in S,
         S \subseteq DOMAIN AddressesOf(v, p)
  PROVE  Stuck(MarkFailures(v, p, S))
<1> DEFINE known == AddressesOf(v, p)
           w == MarkFailures(v, p, S)
<1>1. p \in DOMAIN v /\ known = v[p].addresses
  BY KnownAreOwn DEF AddressesOf, Entry
<1>2. CASE S = {}
  BY <1>1, <1>2 DEF MarkFailures, Stuck
<1>3. CASE S # {}
  <2> DEFINE list == [a \in DOMAIN known |-> IF a \in S THEN Failed(known[a]) ELSE known[a]]
  <2>1. w = Put(v, p, Resort(v[p], list))
    BY <1>3 DEF MarkFailures
  <2>2. p \in DOMAIN w /\ w[p].addresses = list /\ AddressesOf(w, p) = list
    BY <2>1 DEF Put, Resort, AddressesOf, Entry
  <2>3. \A a \in DOMAIN known : known[a] \in AddressMetadata
    BY EntrySound DEF SoundAddresses
  <2>4. \A m \in AddressMetadata : /\ Failed(m).active_connections = m.active_connections
                                   /\ is_in_cooldown(Failed(m))
    <3> SUFFICES ASSUME NEW m \in AddressMetadata
                 PROVE  Failed(m).active_connections = m.active_connections
                        /\ is_in_cooldown(Failed(m))
      OBVIOUS
    <3> DEFINE n == IF m.err_count < BackoffCap THEN m.err_count + 1 ELSE BackoffCap
    <3>1. n \in 1..BackoffCap
      BY ViewAssumption DEF AddressMetadata
    <3>2. Backoff(n) \in 1..64
      BY <3>1, BackoffRange
    <3> QED
      BY <3>2 DEF Failed, is_in_cooldown
  <2>5. \A a \in DOMAIN known :
          /\ list[a].active_connections = known[a].active_connections
          /\ is_in_cooldown(list[a])
    BY <2>3, <2>4
  <2>6. DOMAIN list = DOMAIN known
    OBVIOUS
  <2> HIDE DEF list, w
  <2>7. ~IsConnected(w, p)
    BY <2>2, <2>5, <2>6 DEF IsConnected, IsConnectedOver, IsUp
  <2>8. \A a \in DOMAIN w[p].addresses : is_in_cooldown(w[p].addresses[a])
    BY <2>2, <2>5, <2>6
  <2>9. DOMAIN w[p].addresses # {}
    BY <2>2, <2>6
  <2>10. Stuck(w)
    BY <2>2, <2>7, <2>8, <2>9 DEF Stuck
  <2> QED
    BY <2>10 DEF w
<1> QED
  BY <1>2, <1>3

LEMMA FirstRankedIs ==
  ASSUME NEW S, S \subseteq Addr, S # {} PROVE FirstRanked(S) \in S
  BY RankMin DEF FirstRanked

\* What an outcome of reconciling must be.
Fine(o, v) ==
  /\ SoundView(o.peers) /\ Inherits(o.peers, v)
  /\ \A q, b : Has(v, q, b) => Has(o.peers, q, b)
  /\ o.diverges \in BOOLEAN /\ (o.diverges => Stuck(o.peers))

LEMMA OutcomeFine == ASSUME NEW v, SoundView(v) PROVE Fine(Outcome(v), v)
  BY DEF Outcome, Fine, Inherits

\* The recursion marks what it cannot dial and diverges only with nothing left.
LEMMA DialFine ==
  ASSUME NEW v, SoundView(v), NEW p, NEW refused,
         DOMAIN AddressesOf(v, p) # {}, ~IsConnected(v, p)
  PROVE  Fine(DialUntilAccepted(v, p, refused), v)
<1> DEFINE known == AddressesOf(v, p)
           warm == {a \in DOMAIN known : ~is_in_cooldown(known[a])}
           good == warm \ refused
           pick == FirstRanked(IF good = {} THEN DOMAIN known ELSE good)
           failed == {a \in warm \cap refused : good = {} \/ Rank[a] < Rank[pick]}
           o == DialUntilAccepted(v, p, refused)
<1>1. /\ o.peers = MarkFailures(v, p, failed)
      /\ pick \in refused => o.diverges = TRUE
      /\ pick \notin refused => o.diverges = FALSE
  <2>1. o.peers = MarkFailures(v, p, failed) /\ o.diverges = (pick \in refused)
    BY DEF DialUntilAccepted, Outcome
  <2> HIDE DEF o, pick, failed
  <2>2. (pick \in refused) \in BOOLEAN
    OBVIOUS
  <2> QED
    BY <2>1, <2>2, Zenon
<1>2. SoundView(o.peers)
  BY <1>1, MarkFailuresSound
<1>3. \A a \in failed : ~IsConnectedOver(v, p, a)
  BY DEF IsConnected
<1>4. Inherits(o.peers, v) /\ \A q, b : Has(v, q, b) => Has(o.peers, q, b)
  BY <1>1, <1>3, MarkFailuresInherits
<1>5. ASSUME pick \in refused PROVE Stuck(o.peers)
  <2>1. good = {}
    <3>1. good # {} => pick \in good
      BY FirstRankedIs, EntrySound DEF SoundAddresses
    <3> QED
      BY <1>5, <3>1
  <2>2. failed \subseteq DOMAIN known /\ \A a \in DOMAIN known : ~is_in_cooldown(known[a]) => a \in failed
    BY <2>1
  <2> HIDE DEF failed
  <2> QED
    BY <1>1, <2>2, MarkedAllIsStuck
<1> HIDE DEF o, pick
<1>6. o.diverges \in BOOLEAN /\ (o.diverges => Stuck(o.peers))
  BY <1>1, <1>5
<1> QED
  BY <1>2, <1>4, <1>6 DEF Fine, o

LEMMA ReconcileFine ==
  ASSUME NEW v, SoundView(v), NEW p, NEW refused PROVE Fine(Reconcile(v, p, refused), v)
<1> DEFINE known == AddressesOf(v, p)
           best == Best(v, p)
           o == Reconcile(v, p, refused)
<1>1. ASSUME NEW S, NEW d PROVE Fine([Outcome(v) EXCEPT !.close = S], v) /\ Fine([Outcome(v) EXCEPT !.dial = d], v)
  BY OutcomeFine DEF Fine, Outcome
<1>2. CASE DOMAIN known = {}
  <2>1. ~IsConnectedOver(v, p, best)
    BY <1>2 DEF IsConnectedOver
  <2>2. ~IsConnected(v, p)
    BY <1>2 DEF IsConnected
  <2> QED
    BY <1>2, <2>1, <2>2, OutcomeFine DEF Reconcile
<1>3. CASE IsConnectedOver(v, p, best)
  <2>1. DOMAIN known # {} /\ IsConnected(v, p)
    BY <1>3 DEF IsConnectedOver, IsConnected
  <2> QED
    BY <1>1, <1>3, <2>1 DEF Reconcile
<1>4. CASE DOMAIN known # {} /\ ~IsConnected(v, p)
  <2>1. ~IsConnectedOver(v, p, best)
    BY <1>4 DEF IsConnected, IsConnectedOver
  <2> QED
    BY <1>4, <2>1, DialFine DEF Reconcile
<1>5. CASE IsConnected(v, p) /\ ~IsConnectedOver(v, p, best)
  <2>1. DOMAIN known # {}
    BY <1>5 DEF IsConnected
  <2>2. Fine(Outcome(MarkFailure(v, p, best)), v)
    BY <1>5, MarkFailuresSound, MarkFailuresInherits DEF MarkFailure, Fine, Outcome
  <2> QED
    BY <1>1, <1>5, <2>1, <2>2, OutcomeFine DEF Reconcile
<1> QED
  BY <1>2, <1>3, <1>4, <1>5

----------------------------------------------------------------------------
(* What an operation does not lose *)

\* w lists every connection that v lists, but for those of S.
Keeps(w, v, S) == \A p, a, c : Holds(v, p, a, c) /\ c \notin S => Holds(w, p, a, c)

LEMMA KeepsSteps ==
  ASSUME NEW u, NEW v, NEW w, NEW S, Keeps(v, u, S), Keeps(w, v, {}) PROVE Keeps(w, u, S)
  BY DEF Keeps

\* A peer's list is replaced by one that has its connections.
LEMMA PutKeeps ==
  ASSUME NEW v, NEW p, NEW info, NEW S,
         \A a, c : Holds(v, p, a, c) /\ c \notin S =>
           a \in DOMAIN info.addresses /\ c \in info.addresses[a].active_connections
  PROVE  Keeps(Put(v, p, info), v, S)
<1> DEFINE w == Put(v, p, info)
<1>1. DOMAIN w = DOMAIN v \cup {p} /\ w[p] = info /\ \A q \in DOMAIN v : q # p => w[q] = v[q]
  BY DEF Put
<1> HIDE DEF w
<1>2. ASSUME NEW q, NEW a, NEW c, Holds(v, q, a, c), c \notin S PROVE Holds(w, q, a, c)
  BY <1>1, <1>2 DEF Holds
<1> QED
  BY <1>2 DEF Keeps, w

\* A connection of p is in p's own list.
LEMMA HeldAreKnown ==
  ASSUME NEW v, NEW p, NEW a, NEW c, Holds(v, p, a, c)
  PROVE  a \in DOMAIN AddressesOf(v, p) /\ c \in AddressesOf(v, p)[a].active_connections
  BY DEF Holds, AddressesOf, Entry

LEMMA AddAddressKeeps == ASSUME NEW v, NEW p, NEW a PROVE Keeps(AddAddress(v, p, a), v, {})
<1> DEFINE known == AddressesOf(v, p)
           list == IF a \in DOMAIN known THEN known ELSE Put(known, a, NewAddress)
           info == Resort(Entry(v, p), list)
<1>1. AddAddress(v, p, a) = Put(v, p, info) /\ info.addresses = list
  BY DEF AddAddress, Resort
<1>2. \A b \in DOMAIN known : b \in DOMAIN list /\ list[b] = known[b]
  BY DEF Put
<1> HIDE DEF info, list
<1> QED
  BY <1>1, <1>2, HeldAreKnown, PutKeeps

\* Only a peer without an address is forgotten.
LEMMA PruneEmptyKeeps == ASSUME NEW v, NEW p PROVE Keeps(PruneEmpty(v, p), v, {})
  BY DEF PruneEmpty, Drop, Keeps, Holds

\* Where c is no connection yet, the others stay where they are.
LEMMA AddConnectionKeeps ==
  ASSUME NEW v, SoundView(v), NEW p, NEW c, NEW a, \A b : ~Holds(v, p, b, c)
  PROVE  /\ Keeps(AddConnection(v, p, c, a), v, {})
         /\ Holds(AddConnection(v, p, c, a), p, a, c)
<1> DEFINE known == AddressesOf(v, p)
           rest == Detach(known, c)
           old == IF a \in DOMAIN rest THEN rest[a] ELSE NewAddress
           new == [NewAddress EXCEPT !.active_connections = old.active_connections \cup {c}]
           info == Resort(Entry(v, p), Put(rest, a, new))
<1>1. AddConnection(v, p, c, a) = Put(v, p, info) /\ info.addresses = Put(rest, a, new)
  BY DEF AddConnection, Resort
<1>2. rest = known
  BY KnownAreOwn DEF Detach, Holders
<1>3. new.active_connections = old.active_connections \cup {c}
  BY DEF NewAddress
<1>4. \A b \in DOMAIN known : /\ b \in DOMAIN info.addresses
                              /\ known[b].active_connections \subseteq info.addresses[b].active_connections
  BY <1>1, <1>2, <1>3 DEF Put
<1>5. a \in DOMAIN info.addresses /\ c \in info.addresses[a].active_connections
  BY <1>1, <1>3 DEF Put
<1> HIDE DEF info
<1>6. Keeps(Put(v, p, info), v, {})
  BY <1>4, HeldAreKnown, PutKeeps
<1>7. Holds(Put(v, p, info), p, a, c)
  BY <1>5 DEF Holds, Put
<1> QED
  BY <1>1, <1>6, <1>7

LEMMA RemoveConnectionKeeps ==
  ASSUME NEW v, SoundView(v), NEW p, NEW c PROVE Keeps(RemoveConnection(v, p, c), v, {c})
<1>1. CASE p \notin DOMAIN v
  BY <1>1 DEF RemoveConnection, Keeps
<1>2. CASE p \in DOMAIN v
  <2> DEFINE known == v[p].addresses
             info == Resort(v[p], Detach(known, c))
  <2>1. RemoveConnection(v, p, c) = PruneEmpty(Put(v, p, info), p)
    BY <1>2 DEF RemoveConnection
  <2>2. \A a \in DOMAIN known : /\ a \in DOMAIN info.addresses
                                /\ known[a].active_connections \ {c} \subseteq info.addresses[a].active_connections
    <3> DEFINE rest == Detach(known, c)
               h == CHOOSE x \in Holders(known, c) : TRUE
               new == [known[h] EXCEPT !.active_connections = @ \ {c}]
    <3>1. rest = known \/ rest = Put(known, h, new)
      BY DEF Detach
    <3>2. known[h] \in AddressMetadata \/ h \notin DOMAIN known
      BY <1>2, EntrySound DEF SoundAddresses, AddressesOf, Entry
    <3>3. known[h] \in AddressMetadata => new.active_connections = known[h].active_connections \ {c}
      BY DEF AddressMetadata
    <3>4. Holders(known, c) # {} => h \in DOMAIN known
      BY DEF Holders
    <3>5. Holders(known, c) = {} => rest = known
      BY DEF Detach
    <3>6. info.addresses = rest
      BY DEF Resort
    <3> HIDE DEF rest, h, new, info
    <3> QED
      BY <3>1, <3>2, <3>3, <3>4, <3>5, <3>6 DEF Put
  <2> HIDE DEF info
  <2>3. Keeps(Put(v, p, info), v, {c})
    BY <2>2, PutKeeps DEF Holds
  <2> QED
    BY <2>1, <2>3, PruneEmptyKeeps, KeepsSteps
<1> QED
  BY <1>1, <1>2

LEMMA SetProtocolsKeeps ==
  ASSUME NEW v, SoundView(v), NEW p, NEW hop PROVE Keeps(SetProtocols(v, p, hop), v, {})
<1> DEFINE info == [Entry(v, p) EXCEPT !.supports_relay_hop_v2 = hop]
<1>1. info.addresses = AddressesOf(v, p)
  BY EntrySound DEF AddressesOf, IsPeerInfoExt
<1> HIDE DEF info
<1>2. Keeps(Put(v, p, info), v, {})
  BY <1>1, HeldAreKnown, PutKeeps
<1> QED
  BY <1>2 DEF SetProtocols, info

LEMMA RecordRttKeeps ==
  ASSUME NEW v, SoundView(v), NEW p, NEW c, NEW t PROVE Keeps(RecordRtt(v, p, c, t), v, {})
<1>1. CASE Holders(AddressesOf(v, p), c) = {}
  BY <1>1 DEF RecordRtt, Keeps
<1>2. CASE Holders(AddressesOf(v, p), c) # {}
  <2> DEFINE info == [v[p] EXCEPT !.rtt = t]
  <2>1. p \in DOMAIN v /\ Entry(v, p) = v[p]
    BY <1>2, KnownAreOwn DEF Holders, Entry
  <2>2. info.addresses = AddressesOf(v, p)
    BY <2>1, EntrySound DEF AddressesOf, IsPeerInfoExt
  <2> HIDE DEF info
  <2>3. Keeps(Put(v, p, info), v, {})
    BY <2>2, HeldAreKnown, PutKeeps
  <2> QED
    BY <1>2, <2>3 DEF RecordRtt, info
<1> QED
  BY <1>1, <1>2

LEMMA ElapseKeeps == ASSUME NEW v, SoundView(v) PROVE Keeps(Elapse(v), v, {})
<1> DEFINE w == Elapse(v)
<1>1. ASSUME NEW p \in DOMAIN v
      PROVE  /\ p \in DOMAIN w /\ DOMAIN w[p].addresses = DOMAIN v[p].addresses
             /\ \A a \in DOMAIN v[p].addresses :
                  w[p].addresses[a].active_connections = v[p].addresses[a].active_connections
  <2>1. IsPeerInfoExt(v[p])
    BY <1>1 DEF SoundView, IsView
  <2>2. \A a \in DOMAIN v[p].addresses : v[p].addresses[a] \in AddressMetadata
    BY <2>1 DEF IsPeerInfoExt
  <2> QED
    BY <1>1, <2>1, <2>2 DEF Elapse, IsPeerInfoExt, AddressMetadata
<1> HIDE DEF w
<1> QED
  BY <1>1 DEF Keeps, Holds, w

LEMMA MarkFailuresKeeps ==
  ASSUME NEW v, SoundView(v), NEW p, NEW S PROVE Keeps(MarkFailures(v, p, S), v, {})
<1> DEFINE known == AddressesOf(v, p)
           list == [a \in DOMAIN known |-> IF a \in S THEN Failed(known[a]) ELSE known[a]]
           info == Resort(v[p], list)
<1>1. CASE S \cap DOMAIN known = {}
  BY <1>1 DEF MarkFailures, Keeps
<1>2. CASE S \cap DOMAIN known # {}
  <2>1. MarkFailures(v, p, S) = Put(v, p, info) /\ info.addresses = list
    BY <1>2 DEF MarkFailures, Resort
  <2>2. \A a \in DOMAIN known : known[a] \in AddressMetadata
    BY EntrySound DEF SoundAddresses
  <2>3. \A a \in DOMAIN known : list[a].active_connections = known[a].active_connections
    BY <2>2, FailedSound
  <2>4. DOMAIN list = DOMAIN known
    OBVIOUS
  <2> HIDE DEF list, info
  <2> QED
    BY <2>1, <2>3, <2>4, HeldAreKnown, PutKeeps
<1> QED
  BY <1>1, <1>2

\* Reconciling closes connections only by asking the swarm to.
LEMMA ReconcileKeeps ==
  ASSUME NEW v, SoundView(v), NEW p, NEW refused PROVE Keeps(Reconcile(v, p, refused).peers, v, {})
<1> DEFINE known == AddressesOf(v, p)
           best == Best(v, p)
           o == Reconcile(v, p, refused)
<1>1. (\E S : DialUntilAccepted(v, p, refused).peers = MarkFailures(v, p, S))
  BY DEF DialUntilAccepted, Outcome
<1>2. \/ DOMAIN known = {}
      \/ IsConnectedOver(v, p, best)
      \/ DOMAIN known # {} /\ ~IsConnected(v, p)
      \/ IsConnected(v, p) /\ ~IsConnectedOver(v, p, best)
  OBVIOUS
<1>3. DOMAIN known = {} => ~IsConnected(v, p) /\ ~IsConnectedOver(v, p, best)
  BY DEF IsConnected, IsConnectedOver
<1>4. IsConnectedOver(v, p, best) => IsConnected(v, p)
  BY DEF IsConnected, IsConnectedOver
<1>5. o.peers = v \/ \E S : o.peers = MarkFailures(v, p, S)
  <2>1. CASE DOMAIN known = {}
    BY <1>3, <2>1 DEF Reconcile, Outcome
  <2>2. CASE IsConnectedOver(v, p, best)
    BY <1>3, <1>4, <2>2 DEF Reconcile, Outcome
  <2>3. CASE DOMAIN known # {} /\ ~IsConnected(v, p)
    <3>1. o = DialUntilAccepted(v, p, refused)
      BY <1>4, <2>3 DEF Reconcile
    <3> QED
      BY <1>1, <3>1
  <2>4. CASE IsConnected(v, p) /\ ~IsConnectedOver(v, p, best)
    BY <1>3, <2>4 DEF Reconcile, Outcome, MarkFailure
  <2> QED
    BY <1>2, <2>1, <2>2, <2>3, <2>4
<1> HIDE DEF o
<1>6. Keeps(o.peers, v, {})
  BY <1>5, MarkFailuresKeeps DEF Keeps
<1> QED
  BY <1>6 DEF o

\* Who is connected stays so while his connections are kept.
LEMMA StaysConnected ==
  ASSUME NEW v, SoundView(v), NEW w, Keeps(w, v, {}), NEW p, IsConnected(v, p) PROVE IsConnected(w, p)
<1>1. PICK a, c : Holds(v, p, a, c)
  BY KnownAreOwn DEF IsConnected, IsConnectedOver, IsUp
<1>2. Holds(w, p, a, c)
  BY <1>1 DEF Keeps
<1> QED
  BY <1>2, HeldAreKnown DEF IsConnected, IsConnectedOver, IsUp

----------------------------------------------------------------------------
(* What an operation does not bring in *)

\* An operation brings in no address.
NoneNew(w, v) == \A q, b : Has(w, q, b) => Has(v, q, b)

LEMMA PutNoneNew ==
  ASSUME NEW v, NEW p, NEW info, NEW A, \A b \in DOMAIN info.addresses : Has(v, p, b) \/ b \in A
  PROVE  \A q, b : Has(Put(v, p, info), q, b) => Has(v, q, b) \/ (q = p /\ b \in A)
  BY DEF Has, Put

LEMMA AddAddressNew ==
  ASSUME NEW v, NEW p, NEW a
  PROVE  /\ \A q, b : Has(AddAddress(v, p, a), q, b) => Has(v, q, b) \/ (q = p /\ b = a)
         /\ ~IsNewAddress(v, p, a) => NoneNew(AddAddress(v, p, a), v)
<1> DEFINE known == AddressesOf(v, p)
           list == IF a \in DOMAIN known THEN known ELSE Put(known, a, NewAddress)
           info == Resort(Entry(v, p), list)
<1>1. AddAddress(v, p, a) = Put(v, p, info) /\ info.addresses = list
  BY DEF AddAddress, Resort
<1>2. DOMAIN list = DOMAIN known \cup {a}
  BY DEF Put
<1>3. \A b \in DOMAIN known : Has(v, p, b)
  BY KnownAreOwn DEF Has
<1> HIDE DEF info, list
<1>4. \A q, b : Has(Put(v, p, info), q, b) => Has(v, q, b) \/ (q = p /\ b \in {a})
  BY <1>1, <1>2, <1>3, PutNoneNew
<1>5. ~IsNewAddress(v, p, a) => Has(v, p, a)
  BY <1>3 DEF IsNewAddress
<1> QED
  BY <1>1, <1>4, <1>5 DEF NoneNew

LEMMA AddConnectionNew ==
  ASSUME NEW v, SoundView(v), NEW p, NEW c, NEW a
  PROVE  \A q, b : Has(AddConnection(v, p, c, a), q, b) => Has(v, q, b) \/ (q = p /\ b = a)
<1> DEFINE known == AddressesOf(v, p)
           rest == Detach(known, c)
           old == IF a \in DOMAIN rest THEN rest[a] ELSE NewAddress
           new == [NewAddress EXCEPT !.active_connections = old.active_connections \cup {c}]
           info == Resort(Entry(v, p), Put(rest, a, new))
<1>1. AddConnection(v, p, c, a) = Put(v, p, info) /\ info.addresses = Put(rest, a, new)
  BY DEF AddConnection, Resort
<1>2. DOMAIN rest = DOMAIN known
  BY EntrySound, DetachSound
<1>3. \A b \in DOMAIN known : Has(v, p, b)
  BY KnownAreOwn DEF Has
<1> HIDE DEF rest, new
<1>4. DOMAIN info.addresses = DOMAIN known \cup {a}
  BY <1>1, <1>2 DEF Put
<1> HIDE DEF info
<1>5. \A q, b : Has(Put(v, p, info), q, b) => Has(v, q, b) \/ (q = p /\ b \in {a})
  BY <1>3, <1>4, PutNoneNew
<1> QED
  BY <1>1, <1>5

LEMMA RemoveConnectionNew ==
  ASSUME NEW v, SoundView(v), NEW p, NEW c PROVE NoneNew(RemoveConnection(v, p, c), v)
<1>1. CASE p \notin DOMAIN v
  BY <1>1 DEF RemoveConnection, NoneNew
<1>2. CASE p \in DOMAIN v
  <2> DEFINE info == Resort(v[p], Detach(v[p].addresses, c))
             w == Put(v, p, info)
  <2>1. RemoveConnection(v, p, c) = PruneEmpty(w, p) /\ p \in DOMAIN w
    BY <1>2 DEF RemoveConnection, Put
  <2>2. DOMAIN info.addresses = DOMAIN v[p].addresses
    BY <1>2, EntrySound, DetachSound DEF Resort, AddressesOf, Entry
  <2> HIDE DEF info
  <2>3. NoneNew(w, v)
    BY <1>2, <2>2 DEF NoneNew, Has, Put
  <2> HIDE DEF w
  <2> QED
    BY <2>1, <2>3, PruneEmptySame DEF NoneNew
<1> QED
  BY <1>1, <1>2

\* An address is removed from one peer; the others keep theirs and their connections.
LEMMA RemoveAddressNew ==
  ASSUME NEW v, NEW p, NEW a
  PROVE  /\ NoneNew(RemoveAddress(v, p, a), v)
         /\ \A q, b, c : Holds(v, q, b, c) /\ q # p => Holds(RemoveAddress(v, p, a), q, b, c)
<1>1. CASE p \notin DOMAIN v
  BY <1>1 DEF RemoveAddress, NoneNew
<1>2. CASE p \in DOMAIN v
  <2> DEFINE info == Resort(v[p], Drop(v[p].addresses, a))
             w == Put(v, p, info)
  <2>1. RemoveAddress(v, p, a) = PruneEmpty(w, p) /\ p \in DOMAIN w
    BY <1>2 DEF RemoveAddress, Put
  <2>2. DOMAIN info.addresses \subseteq DOMAIN v[p].addresses
    BY DEF Resort, Drop
  <2> HIDE DEF info
  <2>3. NoneNew(w, v) /\ \A q, b, c : Holds(v, q, b, c) /\ q # p => Holds(w, q, b, c)
    BY <1>2, <2>2 DEF NoneNew, Has, Put, Holds
  <2> HIDE DEF w
  <2> QED
    BY <2>1, <2>3, PruneEmptySame, PruneEmptyKeeps DEF NoneNew, Keeps
<1> QED
  BY <1>1, <1>2

LEMMA SetProtocolsNew ==
  ASSUME NEW v, SoundView(v), NEW p, NEW hop PROVE NoneNew(SetProtocols(v, p, hop), v)
<1> DEFINE info == [Entry(v, p) EXCEPT !.supports_relay_hop_v2 = hop]
<1>1. info.addresses = AddressesOf(v, p)
  BY EntrySound DEF AddressesOf, IsPeerInfoExt
<1> HIDE DEF info
<1>2. \A b \in DOMAIN info.addresses : Has(v, p, b)
  BY <1>1, KnownAreOwn DEF Has
<1>3. NoneNew(Put(v, p, info), v)
  BY <1>2 DEF NoneNew, Has, Put
<1> QED
  BY <1>3 DEF SetProtocols, info

LEMMA RecordRttNew ==
  ASSUME NEW v, SoundView(v), NEW p, NEW c, NEW t PROVE NoneNew(RecordRtt(v, p, c, t), v)
<1>1. CASE Holders(AddressesOf(v, p), c) = {}
  BY <1>1 DEF RecordRtt, NoneNew
<1>2. CASE Holders(AddressesOf(v, p), c) # {}
  <2> DEFINE info == [v[p] EXCEPT !.rtt = t]
  <2>1. p \in DOMAIN v /\ Entry(v, p) = v[p]
    BY <1>2, KnownAreOwn DEF Holders, Entry
  <2>2. info.addresses = AddressesOf(v, p)
    BY <2>1, EntrySound DEF AddressesOf, IsPeerInfoExt
  <2> HIDE DEF info
  <2>3. \A b \in DOMAIN info.addresses : Has(v, p, b)
    BY <2>2, KnownAreOwn DEF Has
  <2>4. NoneNew(Put(v, p, info), v)
    BY <2>3 DEF NoneNew, Has, Put
  <2> QED
    BY <1>2, <2>4 DEF RecordRtt, info
<1> QED
  BY <1>1, <1>2

LEMMA ElapseNew == ASSUME NEW v, SoundView(v) PROVE NoneNew(Elapse(v), v)
<1>1. ASSUME NEW p \in DOMAIN v PROVE DOMAIN Elapse(v)[p].addresses = DOMAIN v[p].addresses
  <2>1. IsPeerInfoExt(v[p])
    BY <1>1 DEF SoundView, IsView
  <2> QED
    BY <1>1, <2>1 DEF Elapse, IsPeerInfoExt
<1>2. DOMAIN Elapse(v) = DOMAIN v
  BY DEF Elapse
<1> QED
  BY <1>1, <1>2 DEF NoneNew, Has

\* The view has addresses of q, and no connection.
Alone(v, q) == (\E b : Has(v, q, b)) /\ \A b, c : ~Holds(v, q, b, c)

LEMMA AloneIs ==
  ASSUME NEW v, SoundView(v), NEW q
  PROVE  Alone(v, q) <=> DOMAIN AddressesOf(v, q) # {} /\ ~IsConnected(v, q)
<1>1. (\E b : Has(v, q, b)) <=> DOMAIN AddressesOf(v, q) # {}
  BY KnownAreOwn DEF Has, AddressesOf, Entry
<1>2. (\E b, c : Holds(v, q, b, c)) <=> IsConnected(v, q)
  BY KnownAreOwn, HeldAreKnown DEF IsConnected, IsConnectedOver, IsUp
<1> QED
  BY <1>1, <1>2 DEF Alone

----------------------------------------------------------------------------
(* Reconciling where no dial is refused at once *)

\* Where no dial is refused at once, reconciling changes nothing in the view, and dials
\* who is alone (mod.rs:370-379).
LEMMA ReconcileDials ==
  ASSUME NEW v, SoundView(v), NEW p
  PROVE  LET o == Reconcile(v, p, {}) IN
         /\ o.peers = v /\ o.dial \in Addr \cup {NoAddr}
         /\ Alone(v, p) => o.dial \in Addr /\ Has(v, p, o.dial)
<1> DEFINE known == AddressesOf(v, p)
           best == Best(v, p)
           o == Reconcile(v, p, {})
<1>1. DOMAIN known \subseteq Addr
  BY EntrySound DEF SoundAddresses
<1>2. DOMAIN known = {} => ~IsConnected(v, p) /\ ~IsConnectedOver(v, p, best)
  BY DEF IsConnected, IsConnectedOver
<1>3. IsConnectedOver(v, p, best) => IsConnected(v, p)
  BY DEF IsConnected, IsConnectedOver
<1>4. best \in Addr \cup {NoAddr}
  BY EntrySound DEF Best, IsPeerInfoExt
<1>5. CASE DOMAIN known = {} \/ IsConnected(v, p)
  <2>1. o.peers = v /\ o.dial \in {NoAddr, best}
    <3>1. CASE DOMAIN known = {}
      BY <1>2, <3>1 DEF Reconcile, Outcome
    <3>2. CASE IsConnectedOver(v, p, best)
      BY <1>2, <1>3, <3>2 DEF Reconcile, Outcome
    <3>3. CASE IsConnected(v, p) /\ ~IsConnectedOver(v, p, best)
      BY <1>2, <3>3 DEF Reconcile, Outcome
    <3> QED
      BY <1>5, <3>1, <3>2, <3>3
  <2>2. ~Alone(v, p)
    BY <1>5, AloneIs
  <2> QED
    BY <1>4, <2>1, <2>2
<1>6. CASE DOMAIN known # {} /\ ~IsConnected(v, p)
  <2> DEFINE warm == {a \in DOMAIN known : ~is_in_cooldown(known[a])}
             good == warm \ {}
             pick == FirstRanked(IF good = {} THEN DOMAIN known ELSE good)
             failed == {a \in warm \cap {} : good = {} \/ Rank[a] < Rank[pick]}
  <2>1. o = DialUntilAccepted(v, p, {})
    BY <1>3, <1>6 DEF Reconcile
  <2>2. pick \in DOMAIN known
    <3>1. CASE good = {}
      BY <1>1, <1>6, <3>1, FirstRankedIs
    <3>2. CASE good # {}
      <4>1. good \subseteq DOMAIN known
        OBVIOUS
      <4>2. FirstRanked(good) \in good
        BY <1>1, <3>2, <4>1, FirstRankedIs
      <4> QED
        BY <3>2, <4>1, <4>2
    <3> QED
      BY <3>1, <3>2
  <2>3. failed = {}
    OBVIOUS
  <2>4. o.peers = MarkFailures(v, p, failed) /\ o.dial = IF pick \in {} THEN NoAddr ELSE pick
    BY <2>1 DEF DialUntilAccepted, Outcome
  <2> HIDE DEF pick, failed, o
  <2>5. o.peers = v
    BY <2>3, <2>4 DEF MarkFailures
  <2>6. Has(v, p, pick)
    BY <2>2, KnownAreOwn DEF Has
  <2> QED
    BY <1>1, <2>2, <2>4, <2>5, <2>6 DEF o
<1> QED
  BY <1>5, <1>6

----------------------------------------------------------------------------
(* Where no address has failed *)

Rested(v) == \A q, b : Has(v, q, b) => v[q].addresses[b].err_count = 0

LEMMA PutRested ==
  ASSUME NEW v, Rested(v), NEW p, NEW info,
         \A b \in DOMAIN info.addresses : info.addresses[b].err_count = 0
  PROVE  Rested(Put(v, p, info))
  BY DEF Rested, Has, Put

LEMMA KnownRested ==
  ASSUME NEW v, Rested(v), NEW p, NEW a \in DOMAIN AddressesOf(v, p)
  PROVE  AddressesOf(v, p)[a].err_count = 0
  BY KnownAreOwn DEF Rested, Has

LEMMA PruneEmptyRested ==
  ASSUME NEW v, Rested(v), NEW p PROVE Rested(PruneEmpty(v, p))
  BY DEF PruneEmpty, Drop, Rested, Has

LEMMA AddAddressRested ==
  ASSUME NEW v, Rested(v), NEW p, NEW a PROVE Rested(AddAddress(v, p, a))
<1> DEFINE known == AddressesOf(v, p)
           list == IF a \in DOMAIN known THEN known ELSE Put(known, a, NewAddress)
           info == Resort(Entry(v, p), list)
<1>1. AddAddress(v, p, a) = Put(v, p, info) /\ info.addresses = list
  BY DEF AddAddress, Resort
<1>2. \A b \in DOMAIN list : (b \in DOMAIN known /\ list[b] = known[b]) \/ list[b].err_count = 0
  BY DEF Put, NewAddress
<1> HIDE DEF info, list
<1> QED
  BY <1>1, <1>2, KnownRested, PutRested

LEMMA RemoveAddressRested ==
  ASSUME NEW v, Rested(v), NEW p, NEW a PROVE Rested(RemoveAddress(v, p, a))
<1> DEFINE info == Resort(v[p], Drop(v[p].addresses, a))
<1>1. CASE p \in DOMAIN v
  <2>1. \A b \in DOMAIN info.addresses : info.addresses[b].err_count = 0
    BY <1>1 DEF Rested, Has, Resort, Drop
  <2> HIDE DEF info
  <2>2. Rested(Put(v, p, info))
    BY <2>1, PutRested
  <2> QED
    BY <1>1, <2>2, PruneEmptyRested DEF RemoveAddress, info
<1> QED
  BY <1>1 DEF RemoveAddress

LEMMA AddConnectionRested ==
  ASSUME NEW v, SoundView(v), Rested(v), NEW p, NEW c, NEW a
  PROVE  Rested(AddConnection(v, p, c, a))
<1> DEFINE known == AddressesOf(v, p)
           rest == Detach(known, c)
           old == IF a \in DOMAIN rest THEN rest[a] ELSE NewAddress
           new == [NewAddress EXCEPT !.active_connections = old.active_connections \cup {c}]
           info == Resort(Entry(v, p), Put(rest, a, new))
<1>1. AddConnection(v, p, c, a) = Put(v, p, info) /\ info.addresses = Put(rest, a, new)
  BY DEF AddConnection, Resort
<1>2. \A b \in DOMAIN rest : rest[b].err_count = 0
  BY EntrySound, DetachSound, KnownRested
<1>3. new.err_count = 0
  BY DEF NewAddress
<1> HIDE DEF rest, new
<1>4. \A b \in DOMAIN info.addresses : info.addresses[b].err_count = 0
  BY <1>1, <1>2, <1>3 DEF Put
<1> HIDE DEF info
<1> QED
  BY <1>1, <1>4, PutRested

LEMMA RemoveConnectionRested ==
  ASSUME NEW v, SoundView(v), Rested(v), NEW p, NEW c PROVE Rested(RemoveConnection(v, p, c))
<1> DEFINE info == Resort(v[p], Detach(v[p].addresses, c))
<1>1. CASE p \in DOMAIN v
  <2>1. SoundAddresses(v[p].addresses)
    BY <1>1, EntrySound DEF AddressesOf, Entry
  <2>2. \A b \in DOMAIN info.addresses : info.addresses[b].err_count = 0
    BY <1>1, <2>1, DetachSound DEF Rested, Has, Resort
  <2> HIDE DEF info
  <2>3. Rested(Put(v, p, info))
    BY <2>2, PutRested
  <2> QED
    BY <1>1, <2>3, PruneEmptyRested DEF RemoveConnection, info
<1> QED
  BY <1>1 DEF RemoveConnection

LEMMA SetProtocolsRested ==
  ASSUME NEW v, SoundView(v), Rested(v), NEW p, NEW hop PROVE Rested(SetProtocols(v, p, hop))
<1> DEFINE info == [Entry(v, p) EXCEPT !.supports_relay_hop_v2 = hop]
<1>1. info.addresses = AddressesOf(v, p)
  BY EntrySound DEF AddressesOf, IsPeerInfoExt
<1> HIDE DEF info
<1>2. Rested(Put(v, p, info))
  BY <1>1, KnownRested, PutRested
<1> QED
  BY <1>2 DEF SetProtocols, info

LEMMA RecordRttRested ==
  ASSUME NEW v, SoundView(v), Rested(v), NEW p, NEW c, NEW t PROVE Rested(RecordRtt(v, p, c, t))
<1>1. CASE Holders(AddressesOf(v, p), c) # {}
  <2> DEFINE info == [v[p] EXCEPT !.rtt = t]
  <2>1. p \in DOMAIN v /\ Entry(v, p) = v[p]
    BY <1>1, KnownAreOwn DEF Holders, Entry
  <2>2. info.addresses = AddressesOf(v, p)
    BY <2>1, EntrySound DEF AddressesOf, IsPeerInfoExt
  <2> HIDE DEF info
  <2>3. Rested(Put(v, p, info))
    BY <2>2, KnownRested, PutRested
  <2> QED
    BY <1>1, <2>3 DEF RecordRtt, info
<1> QED
  BY <1>1 DEF RecordRtt

LEMMA ElapseRested == ASSUME NEW v, SoundView(v), Rested(v) PROVE Rested(Elapse(v))
<1>1. ASSUME NEW p \in DOMAIN v, NEW a \in DOMAIN v[p].addresses
      PROVE  Elapse(v)[p].addresses[a].err_count = v[p].addresses[a].err_count
  <2>1. IsPeerInfoExt(v[p])
    BY <1>1 DEF SoundView, IsView
  <2>2. v[p].addresses[a] \in AddressMetadata
    BY <1>1, <2>1 DEF IsPeerInfoExt
  <2> QED
    BY <1>1, <2>1, <2>2 DEF Elapse, IsPeerInfoExt, AddressMetadata
<1>2. \A q, b : Has(Elapse(v), q, b) => Has(v, q, b)
  BY ElapseNew DEF NoneNew
<1> QED
  BY <1>1, <1>2 DEF Rested, Has

\* The best address is then the one that ranks first.
LEMMA BestRanksFirst ==
  ASSUME NEW v, SoundView(v), Rested(v), NEW p, NEW b, Has(v, p, b)
  PROVE  Has(v, p, Best(v, p)) /\ b \in Addr /\ Best(v, p) \in Addr /\ Rank[Best(v, p)] <= Rank[b]
<1>1. p \in DOMAIN v /\ b \in DOMAIN v[p].addresses /\ Best(v, p) = v[p].best
  BY DEF Has, Best, Entry
<1>2. IsPeerInfoExt(v[p]) /\ SoundPeer(v[p]) /\ v[p].addresses[b].err_count = 0
  BY <1>1 DEF SoundView, IsView, Rested
<1> QED
  BY <1>1, <1>2 DEF SoundPeer, HeadListed, HeadSound, Has, IsPeerInfoExt

\* It changes only for an address that was not there before.
LEMMA BestStays ==
  ASSUME NEW v, SoundView(v), Rested(v), NEW w, SoundView(w), Rested(w), NEW p,
         \A b : Has(v, p, b) => Has(w, p, b), Has(v, p, Best(w, p))
  PROVE  Best(w, p) = Best(v, p)
<1>1. /\ Has(v, p, Best(v, p)) /\ Rank[Best(v, p)] <= Rank[Best(w, p)]
      /\ Best(v, p) \in Addr
  BY BestRanksFirst
<1>2. Rank[Best(w, p)] <= Rank[Best(v, p)] /\ Best(w, p) \in Addr
  BY <1>1, BestRanksFirst
<1>3. Rank[Best(v, p)] \in Nat /\ Rank[Best(w, p)] \in Nat
  BY <1>1, <1>2, ViewAssumption
<1>4. Rank[Best(v, p)] = Rank[Best(w, p)]
  BY <1>1, <1>2, <1>3
<1> QED
  BY <1>1, <1>2, <1>4, ViewAssumption

\* A leader dials its best address if another one is up, and once the best is up closes
\* whatever runs over the others (mod.rs:380-428).
LEMMA ReconcilePrunes ==
  ASSUME NEW v, SoundView(v), NEW p
  PROVE  LET o == Reconcile(v, p, {})
             best == Best(v, p)
         IN  /\ \A c : c \in o.close <=> /\ p \in Leads /\ \E d : Holds(v, p, best, d)
                                         /\ ~Holds(v, p, best, c) /\ \E a : Holds(v, p, a, c)
             /\ p \in Leads /\ (\A d : ~Holds(v, p, best, d)) /\ (\E a, c : Holds(v, p, a, c))
                  => o.dial = best
<1> DEFINE known == AddressesOf(v, p)
           best == Best(v, p)
           o == Reconcile(v, p, {})
<1>1. \A a, c : Holds(v, p, a, c) <=> a \in DOMAIN known /\ c \in known[a].active_connections
  BY KnownAreOwn, HeldAreKnown
<1>2. IsConnectedOver(v, p, best) <=> \E d : Holds(v, p, best, d)
  BY <1>1 DEF IsConnectedOver, IsUp
<1>3. IsConnected(v, p) <=> \E a, c : Holds(v, p, a, c)
  BY <1>1 DEF IsConnected, IsConnectedOver, IsUp
<1>4. \A c : c \in ConnsOf(v, p) <=> \E a : Holds(v, p, a, c)
  BY <1>1 DEF ConnsOf
<1>5. DOMAIN known = {} => ~IsConnected(v, p)
  BY DEF IsConnected
<1>6. IsConnectedOver(v, p, best) => IsConnected(v, p)
  BY <1>2, <1>3
<1>7. CASE IsConnectedOver(v, p, best)
  <2>1. o.close = IF p \in Leads THEN ConnsOf(v, p) \ known[best].active_connections ELSE {}
    BY <1>5, <1>6, <1>7 DEF Reconcile, Outcome
  <2>2. best \in DOMAIN known
    BY <1>7 DEF IsConnectedOver
  <2> HIDE DEF o, known, best
  <2> QED
    BY <1>1, <1>2, <1>4, <1>7, <2>1, <2>2 DEF o, best
<1>8. CASE ~IsConnectedOver(v, p, best)
  <2>1. o.close = {}
    <3>1. CASE DOMAIN known = {}
      BY <1>5, <1>6, <3>1 DEF Reconcile, Outcome
    <3>2. CASE DOMAIN known # {} /\ ~IsConnected(v, p)
      BY <1>8, <3>2 DEF Reconcile, DialUntilAccepted, Outcome
    <3>3. CASE IsConnected(v, p)
      BY <1>5, <1>8, <3>3 DEF Reconcile, Outcome
    <3> QED
      BY <3>1, <3>2, <3>3
  <2>2. p \in Leads /\ IsConnected(v, p) => o.dial = best
    BY <1>5, <1>8 DEF Reconcile, Outcome
  <2> HIDE DEF o, known, best
  <2> QED
    BY <1>2, <1>3, <1>8, <2>1, <2>2 DEF o, best
<1> QED
  BY <1>7, <1>8

\* Of addresses none of which has failed, a node without a connection dials the best, so
\* that the recursion never gets further than its first call (mod.rs:365-379).
LEMMA ReconcileDialsBest ==
  ASSUME NEW v, SoundView(v), Rested(v), NEW p, Alone(v, p)
  PROVE  Reconcile(v, p, {}).dial = Best(v, p)
<1> DEFINE known == AddressesOf(v, p)
           warm == {a \in DOMAIN known : ~is_in_cooldown(known[a])}
           good == warm \ {}
           pick == FirstRanked(IF good = {} THEN DOMAIN known ELSE good)
           o == Reconcile(v, p, {})
<1>1. /\ DOMAIN known \subseteq Addr
      /\ \A a \in DOMAIN known : known[a].err_count = 0 /\ Has(v, p, a) /\ known[a] \in AddressMetadata
  BY EntrySound, KnownAreOwn DEF SoundAddresses, Rested, Has
<1>2. DOMAIN known # {} /\ ~IsConnected(v, p)
  BY AloneIs
<1>3. ~IsConnectedOver(v, p, Best(v, p))
  BY <1>2 DEF IsConnected, IsConnectedOver
<1>4. \A a \in DOMAIN known : ~is_in_cooldown(known[a])
  <2>1. OnlyFailedCool(Entry(v, p)) /\ known = Entry(v, p).addresses
    BY <1>1, <1>2 DEF SoundView, SoundPeer, Has, AddressesOf, Entry
  <2> QED
    BY <1>1, <2>1 DEF OnlyFailedCool
<1>5. good = DOMAIN known
  BY <1>4
<1>6. o = DialUntilAccepted(v, p, {})
  BY <1>2, <1>3 DEF Reconcile
<1>7. o.dial = pick
  BY <1>6 DEF DialUntilAccepted, Outcome
<1>8. pick = FirstRanked(DOMAIN known)
  BY <1>2, <1>5
<1>9. /\ pick \in DOMAIN known
      /\ \A a \in DOMAIN known : Rank[pick] <= Rank[a]
  BY <1>1, <1>2, <1>8, RankMin DEF FirstRanked
<1> HIDE DEF pick, good, o
<1>10. Best(v, p) \in DOMAIN known /\ \A a \in DOMAIN known : Rank[Best(v, p)] <= Rank[a]
  <2>1. PICK a \in DOMAIN known : TRUE
    BY <1>2
  <2>2. Has(v, p, Best(v, p))
    BY <1>1, <2>1, BestRanksFirst
  <2> QED
    BY <1>1, <2>2, BestRanksFirst DEF Has, AddressesOf, Entry
<1>11. Rank[pick] = Rank[Best(v, p)]
  <2>1. Rank[pick] \in Nat /\ Rank[Best(v, p)] \in Nat
    BY <1>1, <1>9, <1>10, ViewAssumption
  <2> QED
    BY <1>9, <1>10, <2>1
<1> QED
  BY <1>1, <1>7, <1>9, <1>10, <1>11, ViewAssumption DEF o

----------------------------------------------------------------------------
(* What an operation on one peer leaves of the others *)

OnlyAt(w, v, p) == \A q : q # p => Entry(w, q) = Entry(v, q)

LEMMA OnlyAtSteps ==
  ASSUME NEW u, NEW v, NEW w, NEW p, OnlyAt(v, u, p), OnlyAt(w, v, p) PROVE OnlyAt(w, u, p)
  BY DEF OnlyAt

LEMMA PutOnlyAt == ASSUME NEW v, NEW p, NEW info PROVE OnlyAt(Put(v, p, info), v, p)
  BY DEF OnlyAt, Entry, Put

LEMMA PruneOnlyAt == ASSUME NEW v, NEW p PROVE OnlyAt(PruneEmpty(v, p), v, p)
  BY DEF OnlyAt, Entry, PruneEmpty, Drop

LEMMA OperationsOnlyAt ==
  ASSUME NEW v, NEW p
  PROVE  /\ \A a : OnlyAt(AddAddress(v, p, a), v, p) /\ OnlyAt(RemoveAddress(v, p, a), v, p)
         /\ \A c, a : OnlyAt(AddConnection(v, p, c, a), v, p)
         /\ \A c : OnlyAt(RemoveConnection(v, p, c), v, p)
         /\ \A hop : OnlyAt(SetProtocols(v, p, hop), v, p)
<1>1. \A a : OnlyAt(AddAddress(v, p, a), v, p)
  BY PutOnlyAt DEF AddAddress
<1>2. \A c, a : OnlyAt(AddConnection(v, p, c, a), v, p)
  BY PutOnlyAt DEF AddConnection
<1>3. \A hop : OnlyAt(SetProtocols(v, p, hop), v, p)
  BY PutOnlyAt DEF SetProtocols
<1>4. \A info : OnlyAt(PruneEmpty(Put(v, p, info), p), v, p)
  BY PutOnlyAt, PruneOnlyAt, OnlyAtSteps
<1>5. OnlyAt(v, v, p)
  BY DEF OnlyAt
<1>6. \A a : OnlyAt(RemoveAddress(v, p, a), v, p)
  BY <1>4, <1>5 DEF RemoveAddress
<1>7. \A c : OnlyAt(RemoveConnection(v, p, c), v, p)
  BY <1>4, <1>5 DEF RemoveConnection
<1> QED
  BY <1>1, <1>2, <1>3, <1>6, <1>7

\* What the view says of a peer is in its entry.
LEMMA EntryTells ==
  ASSUME NEW v, NEW w, NEW p, Entry(w, p) = Entry(v, p)
  PROVE  /\ \A b : Has(w, p, b) <=> Has(v, p, b)
         /\ \A b, c : Holds(w, p, b, c) <=> Holds(v, p, b, c)
         /\ Best(w, p) = Best(v, p)
<1>1. ASSUME NEW u
      PROVE  /\ \A b : Has(u, p, b) <=> b \in DOMAIN AddressesOf(u, p)
             /\ \A b, c : Holds(u, p, b, c) <=> /\ b \in DOMAIN AddressesOf(u, p)
                                                /\ c \in AddressesOf(u, p)[b].active_connections
  <2>1. \A b : Has(u, p, b) => b \in DOMAIN AddressesOf(u, p)
    BY DEF Has, AddressesOf, Entry
  <2>2. \A b \in DOMAIN AddressesOf(u, p) : Has(u, p, b)
    BY KnownAreOwn DEF Has
  <2>3. \A b \in DOMAIN AddressesOf(u, p) : \A c \in AddressesOf(u, p)[b].active_connections : Holds(u, p, b, c)
    BY KnownAreOwn
  <2> QED
    BY <2>1, <2>2, <2>3, HeldAreKnown
<1>2. AddressesOf(w, p) = AddressesOf(v, p)
  BY DEF AddressesOf
<1> QED
  BY <1>1, <1>2 DEF Best

\* w lists what v lists, and no more.
Alike(w, v) ==
  /\ \A q, b : Has(w, q, b) <=> Has(v, q, b)
  /\ \A q, b, c : Holds(w, q, b, c) <=> Holds(v, q, b, c)
  /\ Rested(v) => Rested(w)

LEMMA AlikeAre ==
  ASSUME NEW v, SoundView(v)
  PROVE  /\ \A p, hop : Alike(SetProtocols(v, p, hop), v)
         /\ \A p, c, t : Alike(RecordRtt(v, p, c, t), v)
         /\ Alike(Elapse(v), v) /\ Alike(v, v)
         /\ \A p, a : ~IsNewAddress(v, p, a) => Alike(AddAddress(v, p, a), v)
<1>1. ASSUME NEW w, Inherits(w, v), Keeps(w, v, {}), NoneNew(w, v),
             \A q, b : Has(v, q, b) => Has(w, q, b), Rested(v) => Rested(w)
      PROVE  Alike(w, v)
  BY <1>1 DEF Inherits, Keeps, NoneNew, Alike
<1>2. \A p, hop : Alike(SetProtocols(v, p, hop), v)
  BY <1>1, SetProtocolsInherits, SetProtocolsKeeps, SetProtocolsNew, SetProtocolsRested
<1>3. \A p, c, t : Alike(RecordRtt(v, p, c, t), v)
  BY <1>1, RecordRttInherits, RecordRttKeeps, RecordRttNew, RecordRttRested
<1>4. Alike(Elapse(v), v)
  BY <1>1, ElapseInherits, ElapseKeeps, ElapseNew, ElapseRested
<1>5. \A p, a : ~IsNewAddress(v, p, a) => Alike(AddAddress(v, p, a), v)
  BY <1>1, AddAddressInherits, AddAddressKeeps, AddAddressNew, AddAddressRested
<1> QED
  BY <1>2, <1>3, <1>4, <1>5 DEF Alike

----------------------------------------------------------------------------
(* The recursion of reconcile, call by call *)

\* The addresses of a peer that do not cool down.
Warm(v, p) == {a \in DOMAIN AddressesOf(v, p) : ~is_in_cooldown(AddressesOf(v, p)[a])}

\* The address of S that ranks first is the one no other address of S outranks.
LEMMA FirstRankedMeans ==
  ASSUME NEW S, S \subseteq Addr, S # {}
  PROVE  /\ FirstRanked(S) \in S
         /\ \A b \in S : Rank[FirstRanked(S)] <= Rank[b]
         /\ \A a \in S : (\A b \in S : Rank[a] <= Rank[b]) => a = FirstRanked(S)
<1>1. /\ FirstRanked(S) \in S
      /\ \A b \in S : Rank[FirstRanked(S)] <= Rank[b]
  BY RankMin DEF FirstRanked
<1>2. ASSUME NEW a \in S, \A b \in S : Rank[a] <= Rank[b] PROVE a = FirstRanked(S)
  <2>1. Rank[a] = Rank[FirstRanked(S)] /\ a \in Addr /\ FirstRanked(S) \in Addr
    BY <1>1, <1>2, ViewAssumption
  <2> QED
    BY <2>1, ViewAssumption
<1> QED
  BY <1>1, <1>2

\* resort() puts the address first that ranks first among those that do not cool
\* down, or among all when all do (view.rs:316-326).
LEMMA FirstIsRanked ==
  ASSUME NEW addresses, SoundAddresses(addresses), DOMAIN addresses # {},
         NEW W, W = {a \in DOMAIN addresses : ~is_in_cooldown(addresses[a])}
  PROVE  First(addresses) = FirstRanked(IF W = {} THEN DOMAIN addresses ELSE W)
<1> DEFINE a == First(addresses)
           S == IF W = {} THEN DOMAIN addresses ELSE W
<1>1. IsFirst(addresses, a)
  BY FirstIsFirst
<1>2. S \subseteq Addr /\ S # {} /\ a \in S
  BY <1>1 DEF IsFirst, SortsNoLater, SoundAddresses
<1>3. \A b \in S : Rank[a] <= Rank[b]
  BY <1>1, <1>2 DEF IsFirst, SortsNoLater
<1> QED
  BY <1>2, <1>3, FirstRankedMeans

\* What marking does to the record of the peer.
LEMMA MarkedIs ==
  ASSUME NEW v, SoundView(v), NEW p, NEW S, S # {}, S \subseteq DOMAIN AddressesOf(v, p),
         NEW list, list = [a \in DOMAIN AddressesOf(v, p) |->
                             IF a \in S THEN Failed(AddressesOf(v, p)[a]) ELSE AddressesOf(v, p)[a]]
  PROVE  /\ p \in DOMAIN v
         /\ MarkFailures(v, p, S) = Put(v, p, Resort(v[p], list))
         /\ AddressesOf(MarkFailures(v, p, S), p) = list
         /\ Best(MarkFailures(v, p, S), p) = First(list)
         /\ SoundAddresses(list)
<1> DEFINE w == MarkFailures(v, p, S)
<1>1. p \in DOMAIN v
  BY DEF AddressesOf, Entry, NewPeer
<1>2. w = Put(v, p, Resort(v[p], list))
  BY DEF MarkFailures
<1>3. AddressesOf(w, p) = list /\ Best(w, p) = First(list) /\ p \in DOMAIN w
  BY <1>2 DEF Put, Resort, AddressesOf, Best, Entry
<1>4. SoundView(w)
  BY MarkFailuresSound
<1>5. SoundAddresses(list)
  BY <1>3, <1>4, EntrySound
<1> QED
  BY <1>1, <1>2, <1>3, <1>5

\* An address that is marked cools down, and the others are as they were.
LEMMA MarkedCool ==
  ASSUME NEW v, SoundView(v), NEW p, NEW S, S \subseteq DOMAIN AddressesOf(v, p)
  PROVE  /\ DOMAIN AddressesOf(MarkFailures(v, p, S), p) = DOMAIN AddressesOf(v, p)
         /\ Warm(MarkFailures(v, p, S), p) = Warm(v, p) \ S
<1>1. CASE S = {}
  BY <1>1 DEF MarkFailures
<1>2. CASE S # {}
  <2> DEFINE known == AddressesOf(v, p)
             list == [a \in DOMAIN known |-> IF a \in S THEN Failed(known[a]) ELSE known[a]]
  <2>1. AddressesOf(MarkFailures(v, p, S), p) = list
    <3>1. list = [a \in DOMAIN known |-> IF a \in S THEN Failed(known[a]) ELSE known[a]]
      OBVIOUS
    <3> HIDE DEF list
    <3> QED
      BY <1>2, <3>1, MarkedIs
  <2>2. \A a \in DOMAIN known : known[a] \in AddressMetadata
    BY EntrySound DEF SoundAddresses
  <2>3. \A m \in AddressMetadata : is_in_cooldown(Failed(m))
    <3> SUFFICES ASSUME NEW m \in AddressMetadata PROVE is_in_cooldown(Failed(m))
      OBVIOUS
    <3> DEFINE n == IF m.err_count < BackoffCap THEN m.err_count + 1 ELSE BackoffCap
    <3>1. n \in 1..BackoffCap
      BY ViewAssumption DEF AddressMetadata
    <3>2. Backoff(n) \in 1..64
      BY <3>1, BackoffRange
    <3> QED
      BY <3>2 DEF Failed, is_in_cooldown
  <2>4. \A a \in DOMAIN known : is_in_cooldown(list[a]) <=> a \in S \/ is_in_cooldown(known[a])
    BY <2>2, <2>3
  <2>5. DOMAIN list = DOMAIN known
    OBVIOUS
  <2> HIDE DEF list
  <2> QED
    BY <2>1, <2>4, <2>5 DEF Warm
<1> QED
  BY <1>1, <1>2

\* Marking one address after others is marking them all (view.rs:290-297).
LEMMA MarkAgain ==
  ASSUME NEW v, SoundView(v), NEW p, NEW S, S \subseteq DOMAIN AddressesOf(v, p),
         NEW b \in DOMAIN AddressesOf(v, p) \ S
  PROVE  MarkFailure(MarkFailures(v, p, S), p, b) = MarkFailures(v, p, S \cup {b})
<1>1. CASE S = {}
  BY <1>1 DEF MarkFailures, MarkFailure
<1>2. CASE S # {}
  <2> DEFINE known == AddressesOf(v, p)
             first == [a \in DOMAIN known |-> IF a \in S THEN Failed(known[a]) ELSE known[a]]
             both == [a \in DOMAIN known |->
                        IF a \in S \cup {b} THEN Failed(known[a]) ELSE known[a]]
             then == [a \in DOMAIN first |-> IF a \in {b} THEN Failed(first[a]) ELSE first[a]]
             w == MarkFailures(v, p, S)
  <2>1. /\ p \in DOMAIN v /\ w = Put(v, p, Resort(v[p], first))
        /\ AddressesOf(w, p) = first
    <3>1. first = [a \in DOMAIN known |-> IF a \in S THEN Failed(known[a]) ELSE known[a]]
      OBVIOUS
    <3> HIDE DEF first
    <3>2. p \in DOMAIN v
      BY KnownAreOwn
    <3>3. AddressesOf(MarkFailures(v, p, S), p) = first
      BY <1>2, <3>1, MarkedIs
    <3>4. MarkFailures(v, p, S) = Put(v, p, Resort(v[p], first))
      BY <1>2, <3>1 DEF MarkFailures
    <3> QED
      BY <3>2, <3>3, <3>4
  <2>2. MarkFailures(v, p, S \cup {b}) = Put(v, p, Resort(v[p], both))
    BY MarkedIs
  <2>3. then = both
    OBVIOUS
  <2>4. {b} \cap DOMAIN first # {}
    OBVIOUS
  <2> HIDE DEF w, first, both, then
  <2>5. MarkFailure(w, p, b) = Put(w, p, Resort(w[p], then))
    BY <2>1, <2>4 DEF MarkFailure, MarkFailures, then
  <2>6. Resort(w[p], then) = Resort(v[p], then)
    BY <2>1 DEF Put, Resort
  <2>7. Put(w, p, Resort(v[p], then)) = Put(v, p, Resort(v[p], then))
    BY <2>1 DEF Put
  <2> QED
    BY <2>2, <2>3, <2>5, <2>6, <2>7 DEF w
<1> QED
  BY <1>1, <1>2

\* The list of p is the one resort() left.
Sorted(v, p) == Best(v, p) = First(AddressesOf(v, p))

\* After marking addresses that did not cool down, the best of the others is
\* next, and the best of all when there are none.
LEMMA NextIs ==
  ASSUME NEW v, SoundView(v), NEW p, DOMAIN AddressesOf(v, p) # {}, Sorted(v, p),
         NEW S, S \subseteq Warm(v, p)
  PROVE  LET rest == Warm(v, p) \ S
             w == MarkFailures(v, p, S)
         IN  /\ Sorted(w, p)
             /\ Best(w, p) = FirstRanked(IF rest = {} THEN DOMAIN AddressesOf(v, p) ELSE rest)
             /\ Best(w, p) \in DOMAIN AddressesOf(v, p)
<1> DEFINE known == AddressesOf(v, p)
           rest == Warm(v, p) \ S
           w == MarkFailures(v, p, S)
<1>1. S \subseteq DOMAIN known
  BY DEF Warm
<1>2. DOMAIN AddressesOf(w, p) = DOMAIN known /\ Warm(w, p) = rest
  BY <1>1, MarkedCool
<1>3. SoundView(w)
  BY MarkFailuresSound
<1>4. Sorted(w, p)
  <2>1. CASE S = {}
    BY <2>1 DEF MarkFailures
  <2>2. CASE S # {}
    <3> DEFINE list == [a \in DOMAIN known |-> IF a \in S THEN Failed(known[a]) ELSE known[a]]
    <3>1. list = [a \in DOMAIN known |-> IF a \in S THEN Failed(known[a]) ELSE known[a]]
      OBVIOUS
    <3> HIDE DEF list
    <3>2. AddressesOf(w, p) = list /\ Best(w, p) = First(list)
      BY <1>1, <2>2, <3>1, MarkedIs
    <3> QED
      BY <3>2 DEF Sorted
  <2> QED
    BY <2>1, <2>2
<1> HIDE DEF w
<1>5. SoundAddresses(AddressesOf(w, p)) /\ DOMAIN AddressesOf(w, p) # {}
  BY <1>2, <1>3, EntrySound
<1>6. First(AddressesOf(w, p))
        = FirstRanked(IF rest = {} THEN DOMAIN AddressesOf(w, p) ELSE rest)
  BY <1>2, <1>5, FirstIsRanked DEF Warm
<1>7. First(AddressesOf(w, p)) \in DOMAIN AddressesOf(w, p)
  BY <1>5, FirstIsFirst DEF IsFirst
<1> QED
  BY <1>2, <1>4, <1>6, <1>7 DEF Sorted, w

\* The view w that n refused dials leave of v while there is an address to try:
\* those tried are the n best that did not cool down.
Trying(w, n, v, p, refused) ==
  \E S \in SUBSET (Warm(v, p) \cap refused) :
    /\ IsFiniteSet(S) /\ Cardinality(S) = n
    /\ w = MarkFailures(v, p, S)
    /\ \A a \in S, b \in Warm(v, p) \ S : Rank[a] < Rank[b]

\* The view w when every address has been refused: the best one stays so.
Exhausted(w, v, p, refused) ==
  /\ SoundView(w) /\ Sorted(w, p)
  /\ DOMAIN AddressesOf(w, p) = DOMAIN AddressesOf(v, p) /\ Warm(w, p) = {}
  /\ Warm(v, p) \subseteq refused
  /\ FirstRanked(DOMAIN AddressesOf(v, p)) \in refused

LEMMA ExhaustedStep ==
  ASSUME NEW v, SoundView(v), NEW p, DOMAIN AddressesOf(v, p) # {},
         NEW refused, NEW w, Exhausted(w, v, p, refused)
  PROVE  Best(w, p) \in refused /\ Exhausted(MarkFailure(w, p, Best(w, p)), v, p, refused)
<1> DEFINE known == AddressesOf(v, p)
           b == Best(w, p)
           next == MarkFailures(w, p, {b})
<1>1. /\ SoundView(w) /\ Sorted(w, p)
      /\ DOMAIN AddressesOf(w, p) = DOMAIN known /\ Warm(w, p) = {}
      /\ Warm(v, p) \subseteq refused /\ FirstRanked(DOMAIN known) \in refused
  BY DEF Exhausted
<1>2. SoundAddresses(AddressesOf(w, p))
  BY <1>1, EntrySound
<1>3. b = FirstRanked(DOMAIN known)
  BY <1>1, <1>2, FirstIsRanked DEF Sorted, Warm
<1>4. {b} \subseteq DOMAIN AddressesOf(w, p) /\ {b} # {}
  BY <1>1, <1>2, FirstIsFirst DEF Sorted, IsFirst
<1>5. DOMAIN AddressesOf(next, p) = DOMAIN AddressesOf(w, p) /\ Warm(next, p) = {}
  BY <1>1, <1>4, MarkedCool
<1>6. SoundView(next)
  BY <1>1, MarkFailuresSound
<1>7. Sorted(next, p)
  <2> DEFINE list == [a \in DOMAIN AddressesOf(w, p) |->
                        IF a \in {b} THEN Failed(AddressesOf(w, p)[a]) ELSE AddressesOf(w, p)[a]]
  <2>1. list = [a \in DOMAIN AddressesOf(w, p) |->
                  IF a \in {b} THEN Failed(AddressesOf(w, p)[a]) ELSE AddressesOf(w, p)[a]]
    OBVIOUS
  <2> HIDE DEF list
  <2>2. /\ AddressesOf(MarkFailures(w, p, {b}), p) = list
        /\ Best(MarkFailures(w, p, {b}), p) = First(list)
    BY <1>1, <1>4, <2>1, MarkedIs
  <2> QED
    BY <2>2 DEF Sorted
<1> HIDE DEF next
<1>8. Exhausted(next, v, p, refused)
  BY <1>1, <1>5, <1>6, <1>7 DEF Exhausted
<1> QED
  BY <1>1, <1>3, <1>8 DEF next, MarkFailure

LEMMA TryingStep ==
  ASSUME NEW v, SoundView(v), NEW p, DOMAIN AddressesOf(v, p) # {}, Sorted(v, p),
         NEW refused, NEW n \in Nat, NEW w, Trying(w, n, v, p, refused),
         Best(w, p) \in refused
  PROVE  LET next == MarkFailure(w, p, Best(w, p))
         IN  Trying(next, n + 1, v, p, refused) \/ Exhausted(next, v, p, refused)
<1> DEFINE known == AddressesOf(v, p)
           b == Best(w, p)
           next == MarkFailure(w, p, b)
<1>1. PICK S \in SUBSET (Warm(v, p) \cap refused) :
        /\ IsFiniteSet(S) /\ Cardinality(S) = n
        /\ w = MarkFailures(v, p, S)
        /\ \A a \in S, c \in Warm(v, p) \ S : Rank[a] < Rank[c]
  BY DEF Trying
<1> DEFINE rest == Warm(v, p) \ S
<1>2. S \subseteq Warm(v, p) /\ S \subseteq DOMAIN known /\ rest \subseteq DOMAIN known
  BY <1>1 DEF Warm
<1>3. /\ b = FirstRanked(IF rest = {} THEN DOMAIN known ELSE rest)
      /\ b \in DOMAIN known
  BY <1>1, <1>2, NextIs
<1>4. SoundAddresses(known) /\ DOMAIN known \subseteq Addr
  BY EntrySound DEF SoundAddresses
<1> HIDE DEF b
<1>5. CASE rest # {}
  <2>1. b \in rest /\ \A c \in rest : Rank[b] <= Rank[c]
    BY <1>2, <1>3, <1>4, <1>5, FirstRankedMeans
  <2>2. next = MarkFailures(v, p, S \cup {b})
    BY <1>1, <1>2, <2>1, MarkAgain
  <2> DEFINE T == S \cup {b}
  <2>3. IsFiniteSet(T) /\ Cardinality(T) = n + 1
    BY <1>1, <2>1, FS_AddElement
  <2>4. T \subseteq Warm(v, p) \cap refused
    BY <1>1, <1>2, <2>1 DEF b
  <2>5. \A c \in Warm(v, p) \ T : Rank[b] < Rank[c]
    BY <1>2, <1>4, <2>1, ViewAssumption
  <2>6. \A a \in T, c \in Warm(v, p) \ T : Rank[a] < Rank[c]
    BY <1>1, <2>5
  <2> HIDE DEF T, next
  <2>7. next = MarkFailures(v, p, T)
    BY <2>2 DEF T
  <2>8. Trying(next, n + 1, v, p, refused)
    BY <2>3, <2>4, <2>6, <2>7 DEF Trying
  <2> QED
    BY <2>8 DEF next, b
<1>6. CASE rest = {}
  <2>1. SoundView(w) /\ DOMAIN AddressesOf(w, p) = DOMAIN known /\ Warm(w, p) = {}
    BY <1>1, <1>2, <1>6, MarkedCool, MarkFailuresSound
  <2>2. Sorted(w, p)
    BY <1>1, <1>2, NextIs
  <2>3. Warm(v, p) \subseteq refused /\ FirstRanked(DOMAIN known) \in refused
    BY <1>1, <1>3, <1>6 DEF b
  <2>4. Exhausted(w, v, p, refused)
    BY <2>1, <2>2, <2>3 DEF Exhausted
  <2> QED
    BY <2>4, ExhaustedStep DEF b
<1> QED
  BY <1>5, <1>6

\* What the closed form says where the recursion stops, and where it does not.
LEMMA TryingStops ==
  ASSUME NEW v, SoundView(v), NEW p, DOMAIN AddressesOf(v, p) # {}, Sorted(v, p),
         NEW refused, NEW n, NEW w, Trying(w, n, v, p, refused)
  PROVE  LET o == DialUntilAccepted(v, p, refused)
         IN  /\ Best(w, p) \notin refused =>
                  o.dial = Best(w, p) /\ o.peers = w /\ o.diverges = FALSE
             /\ Best(w, p) \in refused /\ n = Cardinality(Addr) /\ IsFiniteSet(Addr) =>
                  o.diverges = TRUE
<1> DEFINE known == AddressesOf(v, p)
           b == Best(w, p)
           warm == {a \in DOMAIN known : ~is_in_cooldown(known[a])}
           good == warm \ refused
           pick == FirstRanked(IF good = {} THEN DOMAIN known ELSE good)
           failed == {a \in warm \cap refused : good = {} \/ Rank[a] < Rank[pick]}
           o == DialUntilAccepted(v, p, refused)
<1>1. PICK S \in SUBSET (Warm(v, p) \cap refused) :
        /\ IsFiniteSet(S) /\ Cardinality(S) = n
        /\ w = MarkFailures(v, p, S)
        /\ \A a \in S, c \in Warm(v, p) \ S : Rank[a] < Rank[c]
  BY DEF Trying
<1> DEFINE rest == Warm(v, p) \ S
<1>2. /\ o.peers = MarkFailures(v, p, failed)
      /\ o.dial = IF pick \in refused THEN NoAddr ELSE pick
      /\ o.diverges = (pick \in refused)
  BY DEF DialUntilAccepted, Outcome
<1>3. SoundAddresses(known) /\ DOMAIN known \subseteq Addr /\ Rank \in [Addr -> Nat]
  BY EntrySound, ViewAssumption DEF SoundAddresses
<1>4. b = FirstRanked(IF rest = {} THEN DOMAIN known ELSE rest)
  BY <1>1, NextIs
<1>5. warm = Warm(v, p) /\ warm \subseteq Addr /\ S \subseteq warm /\ S \subseteq refused
  BY <1>1, <1>3 DEF Warm
<1> HIDE DEF b, o, warm
<1>6. ASSUME b \notin refused PROVE b = pick /\ S = failed
  <2>1. CASE rest # {}
    <3>1. b \in rest /\ \A c \in rest : Rank[b] <= Rank[c]
      BY <1>4, <1>5, <2>1, FirstRankedMeans
    <3>2. b \in good /\ good \subseteq rest
      BY <1>5, <1>6, <3>1
    <3>3. b = pick
      BY <1>5, <3>1, <3>2, FirstRankedMeans
    <3> HIDE DEF pick
    <3>4. \A a \in S : a \in failed
      BY <1>1, <1>5, <3>1, <3>3
    <3>5. \A a \in failed : a \in S
      BY <1>3, <1>5, <3>1, <3>2, <3>3
    <3> QED
      BY <3>3, <3>4, <3>5
  <2>2. CASE rest = {}
    BY <1>4, <1>5, <2>2
  <2> QED
    BY <2>1, <2>2
<1>7. ASSUME b \in refused, n = Cardinality(Addr), IsFiniteSet(Addr) PROVE pick \in refused
  <2>1. S = Addr
    BY <1>1, <1>5, <1>7, FS_Subset
  <2>2. rest = {} /\ good = {}
    BY <1>5, <2>1
  <2> QED
    BY <1>4, <1>7, <2>2
<1> HIDE DEF pick, failed
<1>8. b \notin refused => o.dial = b /\ o.peers = w /\ o.diverges = FALSE
  <2> SUFFICES ASSUME b \notin refused PROVE o.dial = b /\ o.peers = w /\ o.diverges = FALSE
    OBVIOUS
  <2>1. o.dial = b /\ o.peers = w
    BY <1>1, <1>2, <1>6
  <2>2. (pick \in refused) = FALSE
    BY <1>6
  <2> QED
    BY <1>2, <2>1, <2>2
<1>9. b \in refused /\ n = Cardinality(Addr) /\ IsFiniteSet(Addr) => o.diverges = TRUE
  BY <1>2, <1>7, Zenon
<1> QED
  BY <1>8, <1>9 DEF b, o

LEMMA ExhaustedDiverges ==
  ASSUME NEW v, NEW p, NEW refused, NEW w, Exhausted(w, v, p, refused)
  PROVE  DialUntilAccepted(v, p, refused).diverges = TRUE
<1> DEFINE known == AddressesOf(v, p)
           good == {a \in DOMAIN known : ~is_in_cooldown(known[a])} \ refused
           pick == FirstRanked(IF good = {} THEN DOMAIN known ELSE good)
<1>1. DialUntilAccepted(v, p, refused).diverges = (pick \in refused)
  BY DEF DialUntilAccepted, Outcome
<1>2. pick \in refused
  BY DEF Exhausted, Warm
<1> QED
  BY <1>1, <1>2, Zenon

\* The calls of the recursion are well defined: each marks what the one before
\* found to be best (mod.rs:370-379).
LEMMA RefusalsAre ==
  ASSUME IsFiniteSet(Addr), NEW v, NEW p
  PROVE  /\ DOMAIN AfterRefusals(v, p) = 0..Cardinality(Addr)
         /\ AfterRefusals(v, p)[0] = v
         /\ \A n \in 1..Cardinality(Addr) :
              AfterRefusals(v, p)[n]
                = MarkFailure(AfterRefusals(v, p)[n - 1], p, Best(AfterRefusals(v, p)[n - 1], p))
<1> DEFINE N == Cardinality(Addr)
           after == AfterRefusals(v, p)
           Run(f, k) == f = [n \in 0..k |->
                          IF n = 0 THEN v ELSE MarkFailure(f[n - 1], p, Best(f[n - 1], p))]
           Bad == {k \in Nat : ~\E f : Run(f, k)}
<1>1. N \in Nat
  BY FS_CardinalityType
<1>2. Bad = {}
  <2> SUFFICES ASSUME Bad # {} PROVE FALSE
    OBVIOUS
  <2>1. PICK k \in Bad : \A j \in Bad : k <= j
    BY NatMin
  <2>2. k # 0
    <3>1. Run([n \in 0..0 |-> v], 0)
      OBVIOUS
    <3> QED
      BY <2>1, <3>1
  <2>3. PICK f : Run(f, k - 1)
    <3>1. k \in Nat /\ k - 1 \in Nat
      BY <2>1, <2>2
    <3>2. k - 1 \notin Bad
      <4> HIDE DEF Bad
      <4> QED
        BY <2>1, <3>1
    <3> HIDE DEF Run
    <3> QED
      BY <3>1, <3>2
  <2> DEFINE g == [n \in 0..k |->
                     IF n < k THEN f[n] ELSE MarkFailure(f[k - 1], p, Best(f[k - 1], p))]
  <2>4. Run(g, k)
    <3>1. k \in Nat /\ k > 0
      BY <2>1, <2>2
    <3>2. \A n \in 0..k :
            g[n] = IF n = 0 THEN v ELSE MarkFailure(g[n - 1], p, Best(g[n - 1], p))
      BY <2>3, <3>1
    <3>3. g = [n \in 0..k |-> g[n]]
      OBVIOUS
    <3> HIDE DEF g
    <3> QED
      BY <3>2, <3>3
  <2> QED
    BY <2>1, <2>4
<1>3. PICK f : Run(f, N)
  BY <1>1, <1>2
<1>4. Run(after, N)
  BY <1>3 DEF AfterRefusals
<1> HIDE DEF after
<1>5. DOMAIN after = 0..N /\ after[0] = v
  BY <1>1, <1>4
<1>6. \A n \in 1..N : after[n] = MarkFailure(after[n - 1], p, Best(after[n - 1], p))
  BY <1>1, <1>4
<1> QED
  BY <1>5, <1>6 DEF after

\* The closed form of the recursion stops where the calls do, with the address
\* and the view they have reached, and says of no recursion that ends that it
\* does not (mod.rs:354-379).
LEMMA RecursionIs ==
  ASSUME IsFiniteSet(Addr), NEW v, SoundView(v), NEW p, DOMAIN AddressesOf(v, p) # {},
         Sorted(v, p), NEW refused
  PROVE  LET after == AfterRefusals(v, p)
             stops == {n \in DOMAIN after : Best(after[n], p) \notin refused}
             o     == DialUntilAccepted(v, p, refused)
             n     == CHOOSE k \in stops : \A m \in stops : k <= m
         IN  IF stops = {} THEN o.diverges
             ELSE /\ ~o.diverges
                  /\ o.dial = Best(after[n], p)
                  /\ o.peers = after[n]
<1> DEFINE N == Cardinality(Addr)
           after == AfterRefusals(v, p)
           stops == {k \in DOMAIN after : Best(after[k], p) \notin refused}
           o == DialUntilAccepted(v, p, refused)
           n == CHOOSE k \in stops : \A m \in stops : k <= m
           Reached(k) == Trying(after[k], k, v, p, refused) \/ Exhausted(after[k], v, p, refused)
           Wrong == {k \in 0..N : (\A m \in 0..(k - 1) : m \notin stops) /\ ~Reached(k)}
<1>1. /\ N \in Nat /\ DOMAIN after = 0..N /\ after[0] = v
      /\ \A k \in 1..N : after[k] = MarkFailure(after[k - 1], p, Best(after[k - 1], p))
  BY RefusalsAre, FS_CardinalityType
<1> HIDE DEF after
<1>2. Reached(0)
  <2>1. v = MarkFailures(v, p, {})
    BY DEF MarkFailures
  <2>2. IsFiniteSet({}) /\ Cardinality({}) = 0
    BY FS_EmptySet
  <2>3. Trying(v, 0, v, p, refused)
    BY <2>1, <2>2 DEF Trying
  <2> QED
    BY <1>1, <2>3
<1>3. ASSUME NEW k \in 1..N, Reached(k - 1), k - 1 \notin stops PROVE Reached(k)
  <2> DEFINE w == after[k - 1]
  <2>1. Best(w, p) \in refused
    BY <1>1, <1>3
  <2>2. after[k] = MarkFailure(w, p, Best(w, p)) /\ k - 1 \in Nat /\ (k - 1) + 1 = k
    BY <1>1
  <2> HIDE DEF w
  <2>3. CASE Trying(w, k - 1, v, p, refused)
    BY <2>1, <2>2, <2>3, TryingStep
  <2>4. CASE Exhausted(w, v, p, refused)
    BY <2>2, <2>4, ExhaustedStep
  <2> QED
    BY <1>3, <2>3, <2>4 DEF w
<1> HIDE DEF Reached
<1>4. Wrong = {}
  <2> SUFFICES ASSUME Wrong # {} PROVE FALSE
    OBVIOUS
  <2>1. PICK k \in Wrong : \A j \in Wrong : k <= j
    <3>1. Wrong \subseteq Nat
      BY <1>1
    <3> HIDE DEF Wrong
    <3> QED
      BY <3>1, NatMin
  <2>2. k \in 0..N /\ (\A m \in 0..(k - 1) : m \notin stops) /\ ~Reached(k)
    BY <2>1
  <2>3. k \in 1..N /\ k - 1 \notin stops
    BY <1>1, <1>2, <2>2
  <2>4. k - 1 \notin Wrong
    BY <1>1, <2>1, <2>3
  <2>5. Reached(k - 1)
    BY <1>1, <2>2, <2>3, <2>4
  <2> QED
    BY <1>3, <2>2, <2>3, <2>5
<1>5. CASE stops = {}
  <2>1. Reached(N) /\ Best(after[N], p) \in refused
    BY <1>1, <1>4, <1>5
  <2>2. o.diverges = TRUE
    <3>1. CASE Trying(after[N], N, v, p, refused)
      BY <2>1, <3>1, TryingStops
    <3>2. CASE Exhausted(after[N], v, p, refused)
      BY <3>2, ExhaustedDiverges
    <3> QED
      BY <2>1, <3>1, <3>2 DEF Reached
  <2> QED
    BY <1>5, <2>2 DEF after
<1>6. CASE stops # {}
  <2>1. n \in stops /\ \A m \in stops : n <= m
    <3>1. \E k \in stops : \A m \in stops : k <= m
      <4>1. stops \subseteq Nat
        BY <1>1
      <4> HIDE DEF stops
      <4> QED
        BY <1>6, <4>1, NatMin
    <3> QED
      BY <3>1
  <2> HIDE DEF n
  <2>2. n \in 0..N /\ Best(after[n], p) \notin refused
    BY <1>1, <2>1
  <2>3. Reached(n)
    BY <1>1, <1>4, <2>1, <2>2
  <2>4. ~Exhausted(after[n], v, p, refused)
    BY <2>2, ExhaustedStep
  <2>5. Trying(after[n], n, v, p, refused)
    BY <2>3, <2>4 DEF Reached
  <2>6. o.dial = Best(after[n], p) /\ o.peers = after[n] /\ o.diverges = FALSE
    BY <2>2, <2>5, TryingStops
  <2> HIDE DEF o
  <2>7. ~o.diverges
    BY <2>6
  <2> QED
    BY <1>6, <2>6, <2>7 DEF n, after, o
<1> QED
  BY <1>5, <1>6
===============================================================================
