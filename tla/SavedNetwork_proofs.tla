-------------------------- MODULE SavedNetwork_proofs --------------------------
(***************************************************************************)
(* For any number of peers, addresses and connections, and whatever the    *)
(* surroundings do: the node's view is sound, it has no phantom            *)
(* connections, what is connected is healthy, Kademlia's table stays       *)
(* within it, and the recursion ends but where nothing is left to dial.    *)
(* Where no address expires, the view knows every open connection, and a   *)
(* node whose targets are fixed is passive only while it is connected to   *)
(* all of them; where attempts succeed, no known peer is left alone.  Last *)
(* the relays: the bound on the reservations, and that no relay the view   *)
(* has a connection over is pruned.                                        *)
(***************************************************************************)
EXTENDS SavedNetworkChecks, NetworkViewLemmas, RelayManagerLemmas

----------------------------------------------------------------------------
(* The handlers *)

\* on_add_address, and what it leaves for Kademlia's table.
LEMMA AddedFine ==
  ASSUME NEW v, SoundView(v), NEW a \in Addr, NEW refused
  PROVE  /\ Fine(Added(v, a, refused), v)
         /\ a \notin Skipped => Has(Added(v, a, refused).peers, AddrPeer[a], a)
<1> DEFINE p == AddrPeer[a]
           w == AddAddress(v, p, a)
<1>1. p \in Peer
  BY NetworkAssumption
<1>2. SoundView(w) /\ Inherits(w, v) /\ Has(w, p, a) /\ \A q, b : Has(v, q, b) => Has(w, q, b)
  BY <1>1, AddAddressSound, AddAddressInherits
<1> HIDE DEF w, p
<1>3. ASSUME NEW o, Fine(o, w) PROVE Fine(o, v) /\ Has(o.peers, p, a)
  BY <1>2, <1>3, InheritsSteps DEF Fine
<1>4. Fine(Reconcile(w, p, refused), w) /\ Fine(Outcome(w), w) /\ Fine(Outcome(v), v)
  BY <1>2, ReconcileFine, OutcomeFine
<1> QED
  BY <1>3, <1>4 DEF Added, w, p

----------------------------------------------------------------------------
(* The node *)

\* Every address of Kademlia's table is in the view for somebody.
TableKnown(table, v) == \A a \in table : \E p : Has(v, p, a)

\* A connection of the view is a link of the swarm at that address.
Linked(v, l) == \A p, a, c : Holds(v, p, a, c) => l[c] = a /\ AddrPeer[a] = p

ViewInv ==
  /\ SoundView(peers) /\ UpIsWell(peers)
  /\ running \in BOOLEAN /\ (~running => Stuck(peers))
  /\ link \in [ConnId -> Addr \cup {NoAddr}] /\ Linked(peers, link)

KadInv ==
  /\ kad = [on |-> kad.on, table |-> kad.table, lookups |-> kad.lookups]
  /\ kad.table \subseteq Addr /\ TableKnown(kad.table, peers)

MdnsInv == mdns = [on |-> mdns.on, seen |-> mdns.seen] /\ mdns.seen \subseteq Addr

\* The view and the links agree, and Kademlia's table is within the view.
NodeInv == ViewInv /\ KadInv /\ MdnsInv

\* A handler that starts from a view which agrees with the links ends with one.
LEMMA DoFine ==
  ASSUME NEW v, SoundView(v), UpIsWell(v), Linked(v, link'),
         link' \in [ConnId -> Addr \cup {NoAddr}],
         NEW o, Fine(o, v), NEW attempts, Do(o, attempts)
  PROVE  ViewInv' /\ \A q, b : Has(v, q, b) => Has(peers', q, b)
<1>1. peers' = o.peers /\ running' = ~o.diverges
  BY DEF Do
<1>2. SoundView(peers') /\ UpIsWell(peers') /\ Linked(peers', link')
  BY <1>1 DEF Fine, Inherits, Linked
<1>3. running' \in BOOLEAN /\ (~running' => Stuck(peers'))
  BY <1>1 DEF Fine
<1> QED
  BY <1>1, <1>2, <1>3 DEF ViewInv, Fine

\* What is in the table stays known when no address goes.
LEMMA TableStays ==
  ASSUME KadInv, \A q, b : Has(peers, q, b) => Has(peers', q, b),
         NEW T, T \subseteq kad.table
  PROVE  T \subseteq Addr /\ TableKnown(T, peers')
  BY DEF KadInv, TableKnown

LEMMA AddStep ==
  ASSUME NodeInv, NEW a \in Addr, on_add_address(a) PROVE ViewInv' /\ KadInv'
<1>1. PICK refused \in Refusals : /\ Do(Added(peers, a, refused), dialing)
                                  /\ UNCHANGED link /\ kad' = [kad EXCEPT !.table = TableWith(a)]
  BY DEF on_add_address
<1> DEFINE o == Added(peers, a, refused)
<1>2. Fine(o, peers) /\ (a \notin Skipped => Has(o.peers, AddrPeer[a], a)) /\ peers' = o.peers
  BY <1>1, AddedFine DEF NodeInv, ViewInv, Do
<1> HIDE DEF o
<1>3. ViewInv' /\ \A q, b : Has(peers, q, b) => Has(peers', q, b)
  BY <1>1, <1>2, DoFine DEF NodeInv, ViewInv, o
<1>4. kad'.table = TableWith(a) /\ kad' = [on |-> kad'.on, table |-> kad'.table, lookups |-> kad'.lookups]
  BY <1>1 DEF NodeInv, KadInv
<1>5. TableWith(a) \subseteq Addr /\ TableKnown(TableWith(a), peers')
  BY <1>2, <1>3 DEF TableWith, NodeInv, KadInv, TableKnown
<1> QED
  BY <1>3, <1>4, <1>5 DEF KadInv

LEMMA ExpireStep == ASSUME NodeInv, MdnsExpired PROVE NodeInv'
<1>1. PICK a \in mdns.seen, refused \in Refusals :
        /\ Do(Reconcile(RemoveAddress(peers, AddrPeer[a], a), AddrPeer[a], refused), dialing)
        /\ UNCHANGED link /\ kad' = [kad EXCEPT !.table = TableWithout(a)]
        /\ mdns' = [mdns EXCEPT !.seen = @ \ {a}]
  BY DEF MdnsExpired
<1> DEFINE v == RemoveAddress(peers, AddrPeer[a], a)
<1>2. /\ SoundView(v) /\ Inherits(v, peers)
      /\ \A q, b : Has(peers, q, b) /\ b # a => Has(v, q, b)
  BY RemoveAddressSound, RemoveAddressInherits DEF NodeInv, ViewInv
<1> HIDE DEF v
<1>3. UpIsWell(v) /\ Linked(v, link') /\ link' \in [ConnId -> Addr \cup {NoAddr}]
  BY <1>1, <1>2 DEF Inherits, Linked, NodeInv, ViewInv
<1>4. Fine(Reconcile(v, AddrPeer[a], refused), v)
  BY <1>2, ReconcileFine
<1>5. ViewInv' /\ \A q, b : Has(v, q, b) => Has(peers', q, b)
  BY <1>1, <1>2, <1>3, <1>4, DoFine DEF v
<1>6. KadInv'
  BY <1>1, <1>2, <1>5 DEF NodeInv, KadInv, TableWithout, TableKnown
<1>7. MdnsInv'
  BY <1>1 DEF NodeInv, MdnsInv
<1> QED
  BY <1>5, <1>6, <1>7 DEF NodeInv

LEMMA IdentifyStep == ASSUME NodeInv, IdentifyReceived PROVE NodeInv'
<1>1. PICK c \in ConnId, a \in HeardAddrs \cup {NoAddr}, refused \in Refusals :
        /\ link[c] # NoAddr /\ UNCHANGED <<link, mdns>>
        /\ LET p == AddrPeer[link[c]]
               v == SetProtocols(peers, p, p \in HopPeers)
               o == IF a = NoAddr THEN Outcome(v) ELSE Added(v, a, refused)
           IN  Do(o, dialing)
        /\ kad' = IF a = NoAddr THEN kad ELSE [kad EXCEPT !.table = TableWith(a)]
  BY DEF IdentifyReceived
<1> DEFINE p == AddrPeer[link[c]]
           v == SetProtocols(peers, p, p \in HopPeers)
           o == IF a = NoAddr THEN Outcome(v) ELSE Added(v, a, refused)
<1>2. p \in Peer /\ (a # NoAddr => a \in Addr)
  BY <1>1, NetworkAssumption DEF NodeInv, ViewInv
<1>3. (p \in HopPeers) \in BOOLEAN
  OBVIOUS
<1> HIDE DEF p
<1>4. /\ SoundView(v) /\ Inherits(v, peers) /\ \A q, b : Has(peers, q, b) => Has(v, q, b)
  BY <1>2, <1>3, SetProtocolsSound, SetProtocolsInherits DEF NodeInv, ViewInv
<1> HIDE DEF v
<1>5. UpIsWell(v) /\ Linked(v, link') /\ link' \in [ConnId -> Addr \cup {NoAddr}]
  BY <1>1, <1>4 DEF Inherits, Linked, NodeInv, ViewInv
<1>6. Fine(o, v) /\ (a # NoAddr /\ a \notin Skipped => Has(o.peers, AddrPeer[a], a))
  BY <1>2, <1>4, AddedFine, OutcomeFine
<1>7. Do(o, dialing)
  BY <1>1 DEF v, p
<1> HIDE DEF o
<1>8. ViewInv' /\ peers' = o.peers /\ \A q, b : Has(v, q, b) => Has(peers', q, b)
  BY <1>4, <1>5, <1>6, <1>7, DoFine DEF Do
<1>9. KadInv'
  <2>1. CASE a = NoAddr
    BY <1>1, <1>4, <1>8, <2>1 DEF NodeInv, KadInv, TableKnown
  <2>2. CASE a # NoAddr
    <3>1. kad' = [on |-> kad'.on, table |-> TableWith(a), lookups |-> kad'.lookups]
      BY <1>1, <2>2 DEF NodeInv, KadInv
    <3>2. TableWith(a) \subseteq Addr /\ TableKnown(TableWith(a), peers')
      BY <1>2, <1>4, <1>6, <1>8, <2>2 DEF TableWith, NodeInv, KadInv, TableKnown
    <3> QED
      BY <3>1, <3>2 DEF KadInv
  <2> QED
    BY <2>1, <2>2
<1>10. MdnsInv'
  BY <1>1 DEF NodeInv, MdnsInv
<1> QED
  BY <1>8, <1>9, <1>10 DEF NodeInv

\* Switching the mode only ever empties the table.
LEMMA ModesStep ==
  ASSUME NodeInv, GoPassive \/ (\E ok \in BOOLEAN : GoActive(ok)) \/ UNCHANGED modes,
         \A q, b : Has(peers, q, b) => Has(peers', q, b)
  PROVE  KadInv' /\ MdnsInv'
<1>1. /\ kad' = [on |-> kad'.on, table |-> kad'.table, lookups |-> kad'.lookups]
      /\ kad'.table \subseteq kad.table
  BY DEF GoPassive, GoActive, modes, KadOn, KadOff, NodeInv, KadInv
<1>2. MdnsInv'
  BY DEF GoPassive, GoActive, modes, NodeInv, MdnsInv
<1> QED
  BY <1>1, <1>2 DEF NodeInv, KadInv, TableKnown

\* A connection event, whether its handler comes to the end or gives up.
LEMMA SettleStep ==
  ASSUME running, NEW v, SoundView(v), UpIsWell(v), Linked(v, link'),
         link' \in [ConnId -> Addr \cup {NoAddr}],
         NEW p, NEW refused, NEW attempts, NEW relay,
         Settle(v, p, refused, attempts, relay) \/ GiveUp(v, attempts)
  PROVE  ViewInv' /\ \A q, b : Has(v, q, b) => Has(peers', q, b)
<1>1. CASE Settle(v, p, refused, attempts, relay)
  BY <1>1, ReconcileFine, DoFine DEF Settle
<1>2. CASE GiveUp(v, attempts)
  BY <1>2 DEF GiveUp, ViewInv
<1> QED
  BY <1>1, <1>2

LEMMA OpenStep ==
  ASSUME NodeInv, running, NEW c \in ConnId, link[c] = NoAddr, NEW a \in Addr, NEW attempts,
         Opened(c, a, attempts)
  PROVE  NodeInv'
<1> DEFINE p == AddrPeer[a]
           v == AddConnection(peers, p, c, a)
           missing == p \in target_peers /\ ~AllTargetsConnected(v)
<1>1. PICK refused \in Refusals, ok \in MdnsStarts(missing) :
        /\ \/ p \notin target_peers /\ UNCHANGED modes
           \/ p \in target_peers /\ ~missing /\ GoPassive
           \/ missing /\ GoActive(ok)
        /\ IF ok THEN Settle(v, p, refused, attempts, RelayOf[a]) ELSE GiveUp(v, attempts)
  BY DEF Opened
<1>2. link' = [link EXCEPT ![c] = a]
  BY DEF Opened
<1>3. ok \in BOOLEAN
  BY <1>1 DEF MdnsStarts
<1>4. /\ SoundView(v)
      /\ \A q, b, d : Holds(v, q, b, d) => Holds(peers, q, b, d) \/ (q = p /\ b = a /\ d = c)
      /\ UpIsWell(v) /\ \A q, b : Has(peers, q, b) => Has(v, q, b)
  BY NetworkAssumption, AddConnectionSound, AddConnectionAdds DEF NodeInv, ViewInv
<1> HIDE DEF v, missing
<1>5. Linked(v, link') /\ link' \in [ConnId -> Addr \cup {NoAddr}]
  <2>1. \A q, b, d : Holds(peers, q, b, d) =>
          link[d] = b /\ AddrPeer[b] = q /\ b \in Addr /\ d \in ConnId
    BY HoldsTyped DEF NodeInv, ViewInv, Linked
  <2> QED
    BY <1>2, <1>4, <2>1, ViewAssumption DEF NodeInv, ViewInv, Linked
<1>6. ViewInv' /\ \A q, b : Has(v, q, b) => Has(peers', q, b)
  BY <1>1, <1>4, <1>5, SettleStep
<1>7. KadInv' /\ MdnsInv'
  BY <1>1, <1>3, <1>4, <1>6, ModesStep
<1> QED
  BY <1>6, <1>7 DEF NodeInv

LEMMA CloseStep ==
  ASSUME NodeInv, NEW c \in ConnId, ConnectionClosed(c) PROVE NodeInv'
<1> DEFINE p == AddrPeer[link[c]]
           v == RemoveConnection(peers, p, c)
           lost == p \in target_peers /\ ~IsConnected(v, p)
<1>1. PICK refused \in Refusals, ok \in MdnsStarts(lost) :
        /\ (~lost /\ UNCHANGED modes) \/ (lost /\ GoActive(ok))
        /\ IF ok THEN Settle(v, p, refused, dialing, NoPeer) ELSE GiveUp(v, dialing)
  BY DEF ConnectionClosed
<1>2. running /\ link' = [link EXCEPT ![c] = NoAddr]
  BY DEF ConnectionClosed
<1>3. ok \in BOOLEAN
  BY <1>1 DEF MdnsStarts
<1>4. /\ SoundView(v) /\ Inherits(v, peers) /\ \A a : ~Holds(v, p, a, c)
      /\ \A q, b : Has(peers, q, b) => Has(v, q, b)
  BY RemoveConnectionSound, RemoveConnectionRemoves DEF NodeInv, ViewInv
<1> HIDE DEF v, lost
<1>5. UpIsWell(v) /\ Linked(v, link') /\ link' \in [ConnId -> Addr \cup {NoAddr}]
  <2>1. \A q, b, d : Holds(v, q, b, d) =>
          link[d] = b /\ AddrPeer[b] = q /\ d \in ConnId /\ Holds(v, q, b, d)
    BY <1>4, HoldsTyped DEF NodeInv, ViewInv, Linked, Inherits
  <2>2. \A q, b, d : Holds(v, q, b, d) => d # c
    BY <1>4, <2>1
  <2> QED
    BY <1>2, <1>4, <2>1, <2>2 DEF NodeInv, ViewInv, Linked, Inherits
<1>6. ViewInv' /\ \A q, b : Has(v, q, b) => Has(peers', q, b)
  BY <1>1, <1>2, <1>4, <1>5, SettleStep
<1>7. KadInv' /\ MdnsInv'
  BY <1>1, <1>3, <1>4, <1>6, ModesStep
<1> QED
  BY <1>6, <1>7 DEF NodeInv

\* A step that leaves links alone and only adds to the view.
LEMMA QuietStep ==
  ASSUME NodeInv, UNCHANGED <<running, link, kad, mdns>>, running,
         SoundView(peers'), Inherits(peers', peers),
         \A q, b : Has(peers, q, b) => Has(peers', q, b)
  PROVE  NodeInv'
<1>1. ViewInv'
  BY DEF NodeInv, ViewInv, Linked, Inherits
<1>2. KadInv' /\ MdnsInv'
  BY DEF NodeInv, KadInv, MdnsInv, TableKnown
<1> QED
  BY <1>1, <1>2 DEF NodeInv

\* A step of the program's surroundings, or of an RPC, that the view does not see.
LEMMA AsideStep ==
  ASSUME NodeInv, UNCHANGED <<running, peers, link>>, KadInv', MdnsInv' PROVE NodeInv'
  BY DEF NodeInv, ViewInv

LEMMA RpcStep == ASSUME NodeInv, Rpc PROVE NodeInv'
<1>1. UNCHANGED <<running, peers, link>>
  BY DEF Rpc, set_mdns_enabled, set_kad_enabled, kad_find_peer, dial, add_target_peer,
         remove_target_peer, program
<1>2. /\ kad' = [on |-> kad'.on, table |-> kad'.table, lookups |-> kad'.lookups]
      /\ kad'.table \subseteq kad.table
  <2>1. CASE kad' = KadOff \/ kad' = KadOn
    BY <2>1 DEF KadOff, KadOn, NodeInv, KadInv
  <2>2. ASSUME NEW t, kad' = [kad EXCEPT !.lookups = @ \cup {t}]
        PROVE  /\ kad' = [on |-> kad'.on, table |-> kad'.table, lookups |-> kad'.lookups]
               /\ kad'.table \subseteq kad.table
    BY <2>2 DEF NodeInv, KadInv
  <2>3. CASE UNCHANGED kad
    BY <2>3 DEF NodeInv, KadInv
  <2> QED
    BY <2>1, <2>2, <2>3 DEF Rpc, set_mdns_enabled, set_kad_enabled, kad_find_peer, dial,
                            add_target_peer, remove_target_peer
<1>3. MdnsInv'
  <2>1. ASSUME NEW enabled \in BOOLEAN, set_mdns_enabled(enabled) PROVE MdnsInv'
    <3>1. CASE mdns' = [on |-> FALSE, seen |-> {}]
      BY <3>1 DEF MdnsInv
    <3>2. ASSUME NEW ok, mdns' = [mdns EXCEPT !.on = @ \/ ok] PROVE MdnsInv'
      BY <3>2 DEF NodeInv, MdnsInv
    <3> QED
      BY <2>1, <3>1, <3>2 DEF set_mdns_enabled
  <2>2. CASE UNCHANGED mdns
    BY <2>2 DEF NodeInv, MdnsInv
  <2> QED
    BY <2>1, <2>2 DEF Rpc, set_kad_enabled, kad_find_peer, dial, add_target_peer,
                      remove_target_peer
<1>4. KadInv'
  BY <1>1, <1>2 DEF NodeInv, KadInv, TableKnown
<1> QED
  BY <1>1, <1>3, <1>4, AsideStep

LEMMA NodeStep == NodeInv /\ [Next]_vars => NodeInv'
<1> SUFFICES ASSUME NodeInv, [Next]_vars PROVE NodeInv'
  OBVIOUS
<1>1. CASE MdnsDiscovered
  <2>1. PICK a \in MdnsAddrs : on_add_address(a) /\ mdns' = [mdns EXCEPT !.seen = @ \cup {a}]
    BY <1>1 DEF MdnsDiscovered
  <2>2. a \in Addr
    BY NetworkAssumption
  <2>3. MdnsInv'
    BY <2>1, <2>2 DEF NodeInv, MdnsInv
  <2> QED
    BY <2>1, <2>2, <2>3, AddStep DEF NodeInv
<1>2. CASE NewExternalAddrOfPeer \/ KadFoundPeer
  <2>1. PICK a \in HeardAddrs \cup KadAddrs : on_add_address(a)
    BY <1>2 DEF NewExternalAddrOfPeer, KadFoundPeer
  <2>2. a \in Addr
    BY NetworkAssumption
  <2>3. MdnsInv'
    BY <1>2 DEF NewExternalAddrOfPeer, KadFoundPeer, NodeInv, MdnsInv
  <2> QED
    BY <2>1, <2>2, <2>3, AddStep DEF NodeInv
<1>3. CASE KadLookupEnds
  <2>1. UNCHANGED <<running, peers, link, mdns>>
    BY <1>3 DEF KadLookupEnds, program
  <2>2. KadInv' /\ MdnsInv'
    BY <1>3, <2>1 DEF KadLookupEnds, NodeInv, KadInv, MdnsInv, TableKnown
  <2> QED
    BY <2>1, <2>2, AsideStep
<1>4. ASSUME NEW a \in Addr, DialSucceeds(a) PROVE NodeInv'
  <2>1. NextId \in ConnId /\ link[NextId] = NoAddr
    BY <1>4 DEF DialSucceeds, NextId, FreeIds
  <2> QED
    BY <1>4, <2>1, OpenStep DEF DialSucceeds
<1>5. CASE PeerConnects
  <2>1. PICK a \in InboundAddrs : Opened(NextId, a, dialing)
    BY <1>5 DEF PeerConnects
  <2>2. FreeIds # {}
    <3>1. Cardinality(FreeIds) > Spare /\ Spare \in Nat
      BY <1>5, NetworkAssumption DEF PeerConnects
    <3>2. Cardinality({}) = 0
      BY FS_EmptySet
    <3> QED
      BY <3>1, <3>2
  <2>3. NextId \in ConnId /\ link[NextId] = NoAddr /\ a \in Addr
    BY <2>2, NetworkAssumption DEF NextId, FreeIds
  <2> QED
    BY <1>5, <2>1, <2>3, OpenStep DEF PeerConnects
<1>6. CASE ReservationReqAccepted
  BY <1>6, QuietStep DEF ReservationReqAccepted, NodeInv, ViewInv, Inherits
<1>7. CASE Ping
  <2>1. PICK c \in ConnId, t \in Rtt : peers' = RecordRtt(peers, AddrPeer[link[c]], c, t)
    BY <1>7 DEF Ping
  <2>2. /\ SoundView(peers') /\ Inherits(peers', peers)
        /\ \A q, b : Has(peers, q, b) => Has(peers', q, b)
    BY <2>1, RecordRttSound, RecordRttInherits DEF NodeInv, ViewInv
  <2> QED
    BY <1>7, <2>2, QuietStep DEF Ping, swarm
<1>8. CASE Tick
  <2>1. /\ SoundView(peers') /\ Inherits(peers', peers)
        /\ \A q, b : Has(peers, q, b) => Has(peers', q, b)
    BY <1>8, ElapseSound, ElapseInherits DEF Tick, NodeInv, ViewInv
  <2> QED
    BY <1>8, <2>1, QuietStep DEF Tick, swarm
<1>9. CASE UNCHANGED vars \/ \E a \in Addr : OutgoingConnectionError(a)
  BY <1>9 DEF vars, program, swarm, OutgoingConnectionError, NodeInv, ViewInv, KadInv, MdnsInv
<1> QED
  BY <1>1, <1>2, <1>3, <1>4, <1>5, <1>6, <1>7, <1>8, <1>9, ExpireStep, IdentifyStep, CloseStep,
     RpcStep DEF Next, SwarmEvent

LEMMA NodeAtFirst == Init => NodeInv
  BY DEF Init, NodeInv, ViewInv, KadInv, MdnsInv, SoundView, IsView, UpIsWell, Linked, Holds,
         KadOff, TableKnown

LEMMA NodeInvariant == Spec => []NodeInv
  BY NodeAtFirst, NodeStep, PTL DEF Spec

\* The view is sound whatever the handlers do to it.
THEOREM ViewIsSound == Spec => []SoundView(peers)
<1>1. NodeInv => SoundView(peers)
  BY DEF NodeInv, ViewInv
<1> QED
  BY <1>1, NodeInvariant, PTL

\* The view counts only connections that the swarm has at that very address.
THEOREM NothingPhantom == Spec => []NoPhantom
<1>1. NodeInv => NoPhantom
  BY DEF NodeInv, ViewInv, Linked, Holds, NoPhantom, Known, AddressesOf, Entry
<1> QED
  BY <1>1, NodeInvariant, PTL

\* What is connected has no failure on record.
THEOREM WhatIsUpIsWell == Spec => []ConnectedIsHealthy
<1>1. NodeInv => ConnectedIsHealthy
  BY DEF NodeInv, ViewInv, UpIsWell, ConnectedIsHealthy, Known, AddressesOf, Entry
<1> QED
  BY <1>1, NodeInvariant, PTL

\* Kademlia is left with no address that the view has dropped.
THEOREM TableIsKnown == Spec => []TableWithinView
<1>1. NodeInv => TableWithinView
  BY DEF NodeInv, KadInv, TableKnown, Has, TableWithinView, Known, AddressesOf, Entry
<1> QED
  BY <1>1, NodeInvariant, PTL

\* The recursion overflows the stack only with nothing left to dial.
THEOREM OverflowsOnlyWhenStuck == Spec => []StopsOnlyWithNothingLeft
<1>1. NodeInv => StopsOnlyWithNothingLeft
  BY DEF NodeInv, ViewInv, Stuck, StopsOnlyWithNothingLeft, Known, AddressesOf, Entry
<1> QED
  BY <1>1, NodeInvariant, PTL

----------------------------------------------------------------------------
(* What the handlers do not lose *)

LEMMA AddedKeeps ==
  ASSUME NEW v, SoundView(v), NEW a \in Addr, NEW refused
  PROVE  Keeps(Added(v, a, refused).peers, v, {})
<1> DEFINE p == AddrPeer[a]
           w == AddAddress(v, p, a)
           o == Added(v, a, refused)
<1>1. SoundView(w) /\ Keeps(w, v, {})
  BY NetworkAssumption, AddAddressSound, AddAddressKeeps
<1>2. o.peers = v \/ o.peers = w \/ o.peers = Reconcile(w, p, refused).peers
  BY DEF Added, Outcome
<1> HIDE DEF w, p, o
<1>3. Keeps(v, v, {}) /\ Keeps(Reconcile(w, p, refused).peers, w, {})
  BY <1>1, ReconcileKeeps DEF Keeps
<1>4. Keeps(o.peers, v, {})
  BY <1>1, <1>2, <1>3, KeepsSteps
<1> QED
  BY <1>4 DEF o

----------------------------------------------------------------------------
(* The node without expiry *)

\* Every open connection is listed under its address, and mDNS has nothing to expire.
AllTracked ==
  /\ \A c \in ConnId : link[c] # NoAddr => Holds(peers, AddrPeer[link[c]], link[c], c)
  /\ mdns.seen = {}

\* The handler of a connection event keeps what it starts from.
LEMMA SettleKeeps ==
  ASSUME NEW v, SoundView(v), NEW p, NEW refused, NEW attempts, NEW relay,
         Settle(v, p, refused, attempts, relay) \/ GiveUp(v, attempts)
  PROVE  Keeps(peers', v, {})
<1>1. CASE Settle(v, p, refused, attempts, relay)
  BY <1>1, ReconcileKeeps DEF Settle, Do
<1>2. CASE GiveUp(v, attempts)
  BY <1>2 DEF GiveUp, Keeps
<1> QED
  BY <1>1, <1>2

\* Active mode is left with all targets connected, and a step that does not enter it
\* leaves those connected that are.
Attended ==
  \/ active_mode' = TRUE
  \/ /\ active_mode' = active_mode /\ target_peers' \subseteq target_peers
     /\ \A t \in target_peers' : IsConnected(peers, t) => IsConnected(peers', t)
  \/ \A t \in target_peers' : IsConnected(peers', t)

LEMMA Opening ==
  ASSUME NodeInv, NEW c \in ConnId, link[c] = NoAddr, NEW a \in Addr, NEW attempts,
         Opened(c, a, attempts)
  PROVE  /\ Keeps(peers', peers, {}) /\ Holds(peers', AddrPeer[a], a, c)
         /\ link' = [link EXCEPT ![c] = a] /\ mdns'.seen = mdns.seen
         /\ Attended
<1> DEFINE p == AddrPeer[a]
           v == AddConnection(peers, p, c, a)
           missing == p \in target_peers /\ ~AllTargetsConnected(v)
<1>1. PICK refused \in Refusals, ok \in MdnsStarts(missing) :
        /\ \/ p \notin target_peers /\ UNCHANGED modes
           \/ p \in target_peers /\ ~missing /\ GoPassive
           \/ missing /\ GoActive(ok)
        /\ Settle(v, p, refused, attempts, RelayOf[a]) \/ GiveUp(v, attempts)
  BY DEF Opened
<1>2. link' = [link EXCEPT ![c] = a] /\ target_peers' = target_peers
  BY DEF Opened
<1>3. \A q, b : ~Holds(peers, q, b, c)
  BY HoldsTyped, ViewAssumption DEF NodeInv, ViewInv, Linked
<1>4. SoundView(v) /\ Keeps(v, peers, {}) /\ Holds(v, p, a, c)
  BY <1>3, NetworkAssumption, AddConnectionSound, AddConnectionKeeps DEF NodeInv, ViewInv
<1>5. p \in target_peers /\ ~missing => \A t \in target_peers : IsConnected(v, t)
  BY DEF AllTargetsConnected
<1> HIDE DEF v, missing, p
<1>6. Keeps(peers', v, {})
  BY <1>1, <1>4, SettleKeeps
<1>7. Keeps(peers', peers, {}) /\ Holds(peers', p, a, c)
  BY <1>4, <1>6 DEF Keeps
<1>8. \A t : /\ IsConnected(v, t) => IsConnected(peers', t)
             /\ IsConnected(peers, t) => IsConnected(peers', t)
  BY <1>4, <1>6, <1>7, StaysConnected DEF NodeInv, ViewInv
<1>9. mdns'.seen = mdns.seen
  BY <1>1 DEF modes, GoPassive, GoActive, NodeInv, MdnsInv
<1>10. Attended
  <2>1. CASE UNCHANGED modes
    BY <1>2, <1>8, <2>1 DEF modes, Attended
  <2>2. CASE GoActive(ok)
    BY <2>2 DEF GoActive, Attended
  <2>3. CASE p \in target_peers /\ ~missing
    BY <1>2, <1>5, <1>8, <2>3 DEF Attended
  <2> QED
    BY <1>1, <2>1, <2>2, <2>3
<1> QED
  BY <1>2, <1>7, <1>9, <1>10 DEF p

LEMMA Closing ==
  ASSUME NodeInv, NEW c \in ConnId, ConnectionClosed(c)
  PROVE  /\ Keeps(peers', peers, {c})
         /\ link' = [link EXCEPT ![c] = NoAddr] /\ mdns'.seen = mdns.seen
         /\ Attended
<1> DEFINE p == AddrPeer[link[c]]
           v == RemoveConnection(peers, p, c)
           lost == p \in target_peers /\ ~IsConnected(v, p)
<1>1. PICK refused \in Refusals, ok \in MdnsStarts(lost) :
        /\ (~lost /\ UNCHANGED modes) \/ (lost /\ GoActive(ok))
        /\ Settle(v, p, refused, dialing, NoPeer) \/ GiveUp(v, dialing)
  BY DEF ConnectionClosed
<1>2. link' = [link EXCEPT ![c] = NoAddr] /\ target_peers' = target_peers
  BY DEF ConnectionClosed
<1>3. SoundView(v) /\ Keeps(v, peers, {c})
  BY RemoveConnectionSound, RemoveConnectionKeeps DEF NodeInv, ViewInv
<1>4. p \in target_peers /\ ~lost => IsConnected(v, p)
  OBVIOUS
<1>5. \A q, b : Holds(peers, q, b, c) => q = p
  BY DEF NodeInv, ViewInv, Linked
<1> HIDE DEF v, lost, p
<1>6. Keeps(peers', v, {}) /\ Keeps(peers', peers, {c})
  BY <1>1, <1>3, SettleKeeps, KeepsSteps
<1>7. mdns'.seen = mdns.seen
  BY <1>1 DEF modes, GoActive, NodeInv, MdnsInv
<1>8. ASSUME NEW t \in target_peers, ~lost, IsConnected(peers, t) PROVE IsConnected(peers', t)
  <2>1. CASE t = p
    BY <1>3, <1>4, <1>6, <1>8, <2>1, StaysConnected
  <2>2. CASE t # p
    <3>1. PICK b, d : Holds(peers, t, b, d)
      BY <1>8, KnownAreOwn DEF IsConnected, IsConnectedOver, IsUp
    <3>2. Holds(peers', t, b, d)
      BY <1>5, <1>6, <2>2, <3>1 DEF Keeps
    <3> QED
      BY <3>2, HeldAreKnown DEF IsConnected, IsConnectedOver, IsUp
  <2> QED
    BY <2>1, <2>2
<1>9. Attended
  <2>1. CASE ~lost /\ UNCHANGED modes
    BY <1>2, <1>8, <2>1 DEF modes, Attended
  <2>2. CASE GoActive(ok)
    BY <2>2 DEF GoActive, Attended
  <2> QED
    BY <1>1, <2>1, <2>2
<1> QED
  BY <1>2, <1>6, <1>7, <1>9

\* A step that no connection is opened or closed in.
Still ==
  /\ Keeps(peers', peers, {}) /\ link' = link /\ mdns'.seen = {}
  /\ active_mode' = active_mode
  /\ "add_target_peer" \notin Calls => target_peers' \subseteq target_peers

LEMMA AddIsStill ==
  ASSUME NodeInv, AllTracked, UNCHANGED mdns, NEW a \in Addr, on_add_address(a) PROVE Still
<1>1. PICK refused \in Refusals : peers' = Added(peers, a, refused).peers
  BY DEF on_add_address, Do
<1>2. Keeps(peers', peers, {})
  BY <1>1, AddedKeeps DEF NodeInv, ViewInv
<1> QED
  BY <1>2 DEF on_add_address, AllTracked, Still

LEMMA IdentifyIsStill == ASSUME NodeInv, AllTracked, IdentifyReceived PROVE Still
<1>1. PICK c \in ConnId, a \in HeardAddrs \cup {NoAddr}, refused \in Refusals :
        /\ link[c] # NoAddr /\ link' = link
        /\ LET p == AddrPeer[link[c]]
               v == SetProtocols(peers, p, p \in HopPeers)
               o == IF a = NoAddr THEN Outcome(v) ELSE Added(v, a, refused)
           IN  Do(o, dialing)
  BY DEF IdentifyReceived
<1> DEFINE p == AddrPeer[link[c]]
           v == SetProtocols(peers, p, p \in HopPeers)
<1>2. p \in Peer /\ (a # NoAddr => a \in Addr)
  BY <1>1, NetworkAssumption DEF NodeInv, ViewInv
<1>3. (p \in HopPeers) \in BOOLEAN
  OBVIOUS
<1>4. peers' = v \/ (a # NoAddr /\ peers' = Added(v, a, refused).peers)
  BY <1>1 DEF Do, Outcome
<1> HIDE DEF p
<1>5. SoundView(v) /\ Keeps(v, peers, {})
  BY <1>2, <1>3, SetProtocolsSound, SetProtocolsKeeps DEF NodeInv, ViewInv
<1> HIDE DEF v
<1>6. Keeps(peers', peers, {})
  BY <1>2, <1>4, <1>5, AddedKeeps, KeepsSteps
<1> QED
  BY <1>1, <1>6 DEF IdentifyReceived, AllTracked, Still

LEMMA RpcIsStill == ASSUME NodeInv, AllTracked, Rpc PROVE Still
<1>1. UNCHANGED <<peers, link, active_mode>>
  BY DEF Rpc, set_mdns_enabled, set_kad_enabled, kad_find_peer, dial, add_target_peer,
         remove_target_peer, program
<1>2. mdns'.seen = {}
  <2>1. ASSUME NEW enabled \in BOOLEAN, set_mdns_enabled(enabled) PROVE mdns'.seen = {}
    <3>1. mdns' = [on |-> FALSE, seen |-> {}] \/ \E ok : mdns' = [mdns EXCEPT !.on = @ \/ ok]
      BY <2>1 DEF set_mdns_enabled
    <3> QED
      BY <3>1 DEF NodeInv, MdnsInv, AllTracked
  <2>2. CASE UNCHANGED mdns
    BY <2>2 DEF AllTracked
  <2> QED
    BY <2>1, <2>2 DEF Rpc, set_kad_enabled, kad_find_peer, dial, add_target_peer,
                      remove_target_peer
<1>3. "add_target_peer" \notin Calls => target_peers' \subseteq target_peers
  BY DEF Rpc, set_mdns_enabled, set_kad_enabled, kad_find_peer, dial, add_target_peer,
         remove_target_peer, program
<1> QED
  BY <1>1, <1>2, <1>3 DEF Keeps, Still

\* Connection c is opened to a, or closed.
IsOpened(c, a) ==
  /\ Keeps(peers', peers, {}) /\ Holds(peers', AddrPeer[a], a, c)
  /\ link' = [link EXCEPT ![c] = a] /\ mdns'.seen = {} /\ Attended

IsClosed(c) ==
  /\ Keeps(peers', peers, {c})
  /\ link' = [link EXCEPT ![c] = NoAddr] /\ mdns'.seen = {} /\ Attended

LEMMA StepKinds ==
  ASSUME MdnsAddrs = {}, NodeInv, AllTracked, [Next]_vars
  PROVE  Still \/ \E c \in ConnId : IsClosed(c) \/ \E a \in Addr : IsOpened(c, a)
<1>1. CASE MdnsDiscovered \/ MdnsExpired
  BY <1>1 DEF MdnsDiscovered, MdnsExpired, AllTracked
<1>2. CASE NewExternalAddrOfPeer \/ KadFoundPeer
  <2>1. PICK a \in Addr : on_add_address(a) /\ UNCHANGED mdns
    BY <1>2, NetworkAssumption DEF NewExternalAddrOfPeer, KadFoundPeer
  <2> QED
    BY <2>1, AddIsStill
<1>3. CASE KadLookupEnds \/ ReservationReqAccepted \/ UNCHANGED vars
           \/ \E a \in Addr : OutgoingConnectionError(a)
  BY <1>3 DEF KadLookupEnds, ReservationReqAccepted, OutgoingConnectionError, vars, program, swarm,
              Keeps, AllTracked, Still
<1>4. ASSUME NEW a \in Addr, DialSucceeds(a) PROVE IsOpened(NextId, a) /\ NextId \in ConnId
  <2>1. NextId \in ConnId /\ link[NextId] = NoAddr
    BY <1>4 DEF DialSucceeds, NextId, FreeIds
  <2> QED
    BY <1>4, <2>1, Opening DEF DialSucceeds, IsOpened, AllTracked
<1>5. CASE PeerConnects
  <2>1. PICK a \in InboundAddrs : Opened(NextId, a, dialing)
    BY <1>5 DEF PeerConnects
  <2>2. FreeIds # {}
    <3>1. Cardinality(FreeIds) > Spare /\ Spare \in Nat
      BY <1>5, NetworkAssumption DEF PeerConnects
    <3> QED
      BY <3>1, FS_EmptySet
  <2>3. NextId \in ConnId /\ link[NextId] = NoAddr /\ a \in Addr
    BY <2>2, NetworkAssumption DEF NextId, FreeIds
  <2>4. IsOpened(NextId, a)
    BY <2>1, <2>3, Opening DEF IsOpened, AllTracked
  <2> QED
    BY <2>3, <2>4
<1>6. ASSUME NEW c \in ConnId, ConnectionClosed(c) PROVE IsClosed(c)
  BY <1>6, Closing DEF IsClosed, AllTracked
<1>7. CASE Ping
  <2>1. PICK c \in ConnId, t \in Rtt : peers' = RecordRtt(peers, AddrPeer[link[c]], c, t)
    BY <1>7 DEF Ping
  <2>2. Keeps(peers', peers, {})
    BY <2>1, RecordRttKeeps DEF NodeInv, ViewInv
  <2> QED
    BY <1>7, <2>2 DEF Ping, swarm, AllTracked, Still
<1>8. CASE Tick
  BY <1>8, ElapseKeeps DEF Tick, swarm, AllTracked, Still, NodeInv, ViewInv
<1> QED
  BY <1>1, <1>2, <1>3, <1>4, <1>5, <1>6, <1>7, <1>8, IdentifyIsStill, RpcIsStill DEF Next, SwarmEvent

LEMMA TrackedStep ==
  ASSUME MdnsAddrs = {}, NodeInv, AllTracked, [Next]_vars PROVE AllTracked'
<1>1. CASE Still
  BY <1>1 DEF Still, Keeps, AllTracked
<1>2. ASSUME NEW c \in ConnId, NEW a \in Addr, IsOpened(c, a) PROVE AllTracked'
  BY <1>2 DEF IsOpened, Keeps, AllTracked, NodeInv, ViewInv
<1>3. ASSUME NEW c \in ConnId, IsClosed(c) PROVE AllTracked'
  BY <1>3 DEF IsClosed, Keeps, AllTracked, NodeInv, ViewInv
<1> QED
  BY <1>1, <1>2, <1>3, StepKinds

LEMMA TrackedAtFirst == Init => AllTracked
  BY DEF Init, AllTracked

\* Where mDNS finds nothing, so that no address expires, every open connection is in
\* the view under its address (view.rs:73, 134; mod.rs:265-322).
THEOREM EveryLinkIsTracked == ASSUME MdnsAddrs = {} PROVE Spec => []TracksAll
<1>1. AllTracked => TracksAll
  <2> SUFFICES ASSUME AllTracked, NEW c \in ConnId, link[c] # NoAddr
               PROVE  /\ IsConnectedOver(peers, AddrPeer[link[c]], link[c])
                      /\ c \in ConnsOf(peers, AddrPeer[link[c]])
    BY DEF TracksAll
  <2>1. Holds(peers, AddrPeer[link[c]], link[c], c)
    BY DEF AllTracked
  <2> QED
    BY <2>1, HeldAreKnown DEF IsConnectedOver, IsUp, ConnsOf
<1>2. NodeInv /\ AllTracked /\ [Next]_vars => AllTracked'
  BY TrackedStep
<1> QED
  BY <1>1, <1>2, TrackedAtFirst, NodeInvariant, PTL DEF Spec

\* Where besides no target is added later, a node is passive only while it is
\* connected to every target, however many there are and whatever else it does
\* (README.md:11-13; mod.rs:276-316).
THEOREM PassiveOnlyWithAllTargets ==
  ASSUME MdnsAddrs = {}, "add_target_peer" \notin Calls PROVE Spec => []ActiveWhenTargetMissing
<1>1. Init => ActiveWhenTargetMissing
  BY DEF Init, ActiveWhenTargetMissing
<1>2. NodeInv /\ AllTracked /\ ActiveWhenTargetMissing /\ [Next]_vars => ActiveWhenTargetMissing'
  <2> SUFFICES ASSUME NodeInv, AllTracked, ActiveWhenTargetMissing, [Next]_vars
               PROVE  ActiveWhenTargetMissing'
    OBVIOUS
  <2>1. Attended
    <3>1. CASE Still
      <4>1. \A t : IsConnected(peers, t) => IsConnected(peers', t)
        BY <3>1, StaysConnected DEF Still, NodeInv, ViewInv
      <4> QED
        BY <3>1, <4>1 DEF Still, Attended
    <3> QED
      BY <3>1, StepKinds DEF IsOpened, IsClosed
  <2> QED
    BY <2>1 DEF Attended, ActiveWhenTargetMissing
<1>3. NodeInv /\ AllTracked /\ [Next]_vars => AllTracked'
  BY TrackedStep
<1> QED
  BY <1>1, <1>2, <1>3, TrackedAtFirst, NodeInvariant, PTL DEF Spec

----------------------------------------------------------------------------
(* Where every attempt succeeds: what a step is *)

\* An address is listed for the peer it belongs to.
Owned(v) == \A q, b : Has(v, q, b) => AddrPeer[b] = q

\* An attempt to reach q is under way.
Tried(q) == \E a \in Addr : AddrPeer[a] = q /\ dialing[a] > 0

\* Who is alone is being dialled.
AloneInv ==
  /\ Owned(peers) /\ dialing \in [Addr -> 0..MaxDials]
  /\ \A q : Alone(peers, q) => Tried(q)

\* Of the connections in S, those that are still there are closing.
Shut(S) == \A c \in S : link'[c] # NoAddr => c \in closing'

LEMMA CloseShuts ==
  ASSUME NEW S, NEW T, T \subseteq S, S \subseteq ConnId, closing \subseteq ConnId, Close(S)
  PROVE  Shut(closing \cup T)
  BY DEF Close, Shut

\* The view lists what it listed, and no attempt ends.
Uneventful ==
  /\ Alike(peers', peers) /\ Shut(closing)
  /\ dialing' \in [Addr -> 0..MaxDials] /\ \A a \in Addr : dialing[a] > 0 => dialing'[a] > 0

\* An event about p makes the view v, an attempt to reach p may have ended, and the
\* handler reconciles p.
Reconciled(p, v, attempts) ==
  /\ SoundView(v) /\ Owned(v) /\ OnlyAt(v, peers, p) /\ (Rested(peers) => Rested(v))
  /\ attempts \in [Addr -> 0..MaxDials]
  /\ \A a \in Addr : AddrPeer[a] # p => attempts[a] = dialing[a]
  /\ Do(Reconcile(v, p, {}), attempts)
  /\ Shut(closing \cup Reconcile(v, p, {}).close)

Handled == Uneventful \/ \E p, v, attempts : Reconciled(p, v, attempts)

\* on_add_address for a peer whose entry alone has been changed.
LEMMA AddedHandled ==
  ASSUME AloneInv, closing \subseteq ConnId, UNCHANGED link, NEW a \in Addr,
         NEW v, SoundView(v), Alike(v, peers), OnlyAt(v, peers, AddrPeer[a]),
         Do(Added(v, a, {}), dialing), Close(Added(v, a, {}).close)
  PROVE  Handled
<1> DEFINE p == AddrPeer[a]
           w == AddAddress(v, p, a)
           o == Reconcile(w, p, {})
<1>1. p \in Peer /\ AddrPeer[a] = p
  BY NetworkAssumption
<1>2. /\ SoundView(w) /\ OnlyAt(w, v, p) /\ (Rested(v) => Rested(w))
      /\ \A q, b : Has(w, q, b) => Has(v, q, b) \/ (q = p /\ b = a)
      /\ ~IsNewAddress(v, p, a) => Alike(w, v)
  BY <1>1, AddAddressSound, OperationsOnlyAt, AddAddressRested, AddAddressNew, AlikeAre
<1>3. \/ Added(v, a, {}) = Outcome(v)
      \/ ~IsNewAddress(v, p, a) /\ Added(v, a, {}) = Outcome(w)
      \/ Added(v, a, {}) = o
  BY DEF Added
<1>4. \A c \in o.close : c \in ConnId
  BY <1>2, ReconcilePrunes, HoldsTyped
<1> HIDE DEF p, w
<1>5. ASSUME NEW u, Alike(u, peers), Do(Outcome(u), dialing), Close(Outcome(u).close)
      PROVE  Uneventful
  BY <1>5 DEF Do, Outcome, Close, Shut, Uneventful, AloneInv
<1>6. CASE Added(v, a, {}) = o
  <2>1. Owned(w)
    BY <1>1, <1>2 DEF AloneInv, Owned, Alike
  <2>2. OnlyAt(w, peers, p)
    BY <1>2, OnlyAtSteps DEF p
  <2>3. Do(o, dialing) /\ Close(o.close)
    BY <1>6
  <2> HIDE DEF o
  <2>4. Shut(closing \cup o.close)
    BY <1>4, <2>3, CloseShuts
  <2>5. Reconciled(p, w, dialing)
    BY <1>2, <2>1, <2>2, <2>3, <2>4 DEF Reconciled, AloneInv, Alike, o
  <2> QED
    BY <2>5 DEF Handled
<1>7. ~IsNewAddress(v, p, a) => Alike(w, peers)
  BY <1>2 DEF Alike
<1> QED
  BY <1>3, <1>5, <1>6, <1>7 DEF Handled

\* A handler that ends in Settle, with a view that has been changed for p.
LEMMA SettledHandled ==
  ASSUME AloneInv, closing \subseteq ConnId, NEW p, NEW relay,
         NEW v, SoundView(v), Owned(v), OnlyAt(v, peers, p), Rested(peers) => Rested(v),
         NEW attempts \in [Addr -> 0..MaxDials],
         \A a \in Addr : AddrPeer[a] # p => attempts[a] = dialing[a],
         Settle(v, p, {}, attempts, relay)
  PROVE  Handled
<1> DEFINE o == Reconcile(v, p, {})
<1>1. PICK D : D \subseteq ConnId /\ Do(o, attempts) /\ Close(o.close \cup D)
  BY DEF Settle, Disconnected
<1>2. o.close \subseteq ConnId
  BY ReconcilePrunes, HoldsTyped
<1> HIDE DEF o
<1>3. Shut(closing \cup o.close)
  BY <1>1, <1>2, CloseShuts
<1> QED
  BY <1>1, <1>3 DEF Reconciled, Handled, o

LEMMA OpenedHandled ==
  ASSUME ~MdnsMayFail, Refusals \subseteq {{}}, NodeInv, AloneInv, closing \subseteq ConnId,
         NEW c \in ConnId, NEW a \in Addr,
         NEW attempts \in [Addr -> 0..MaxDials],
         \A b \in Addr : AddrPeer[b] # AddrPeer[a] => attempts[b] = dialing[b],
         Opened(c, a, attempts)
  PROVE  Handled
<1> DEFINE p == AddrPeer[a]
           v == AddConnection(peers, p, c, a)
<1>1. Settle(v, p, {}, attempts, RelayOf[a])
  <2>1. PICK refused \in Refusals, ok \in {TRUE} :
          IF ok THEN Settle(v, p, refused, attempts, RelayOf[a]) ELSE GiveUp(v, attempts)
    BY DEF Opened, MdnsStarts
  <2>2. refused = {}
    OBVIOUS
  <2> QED
    BY <2>1, <2>2
<1>2. /\ SoundView(v) /\ OnlyAt(v, peers, p) /\ (Rested(peers) => Rested(v))
      /\ \A q, b : Has(v, q, b) => Has(peers, q, b) \/ (q = p /\ b = a)
  BY NetworkAssumption, AddConnectionSound, OperationsOnlyAt, AddConnectionRested,
     AddConnectionNew DEF NodeInv, ViewInv
<1>3. AddrPeer[a] = p /\ \A b \in Addr : AddrPeer[b] # p => attempts[b] = dialing[b]
  OBVIOUS
<1> HIDE DEF v, p
<1>4. Owned(v)
  BY <1>2, <1>3 DEF AloneInv, Owned
<1> QED
  BY <1>1, <1>2, <1>3, <1>4, SettledHandled

LEMMA ClosedHandled ==
  ASSUME ~MdnsMayFail, Refusals \subseteq {{}}, NodeInv, AloneInv, closing \subseteq ConnId,
         NEW c \in ConnId, ConnectionClosed(c)
  PROVE  Handled
<1> DEFINE p == AddrPeer[link[c]]
           v == RemoveConnection(peers, p, c)
<1>1. Settle(v, p, {}, dialing, NoPeer)
  <2>1. PICK refused \in Refusals, ok \in {TRUE} :
          IF ok THEN Settle(v, p, refused, dialing, NoPeer) ELSE GiveUp(v, dialing)
    BY DEF ConnectionClosed, MdnsStarts
  <2>2. refused = {}
    OBVIOUS
  <2> QED
    BY <2>1, <2>2
<1>2. SoundView(v) /\ OnlyAt(v, peers, p) /\ (Rested(peers) => Rested(v)) /\ NoneNew(v, peers)
  BY RemoveConnectionSound, OperationsOnlyAt, RemoveConnectionRested, RemoveConnectionNew
  DEF NodeInv, ViewInv
<1> HIDE DEF v, p
<1>3. Owned(v)
  BY <1>2 DEF AloneInv, Owned, NoneNew
<1> QED
  BY <1>1, <1>2, <1>3, SettledHandled DEF AloneInv

\* An address expires with its connections, and its peer is reconciled.
LEMMA ExpiredHandled ==
  ASSUME Refusals \subseteq {{}}, NodeInv, AloneInv, closing \subseteq ConnId, MdnsExpired
  PROVE  Handled
<1>1. PICK a \in mdns.seen, refused \in Refusals :
        LET o == Reconcile(RemoveAddress(peers, AddrPeer[a], a), AddrPeer[a], refused)
        IN  Do(o, dialing) /\ Close(o.close)
  BY DEF MdnsExpired
<1> DEFINE p == AddrPeer[a]
           v == RemoveAddress(peers, p, a)
           o == Reconcile(v, p, {})
<1>2. Do(o, dialing) /\ Close(o.close)
  <2>1. refused = {}
    OBVIOUS
  <2> QED
    BY <1>1, <2>1
<1>3. SoundView(v) /\ OnlyAt(v, peers, p) /\ (Rested(peers) => Rested(v)) /\ NoneNew(v, peers)
  BY RemoveAddressSound, OperationsOnlyAt, RemoveAddressRested, RemoveAddressNew DEF NodeInv, ViewInv
<1> HIDE DEF v, p
<1>4. Owned(v)
  BY <1>3 DEF AloneInv, Owned, NoneNew
<1>5. o.close \subseteq ConnId
  BY <1>3, ReconcilePrunes, HoldsTyped
<1> HIDE DEF o
<1>6. Shut(closing \cup o.close)
  BY <1>2, <1>5, CloseShuts
<1> QED
  BY <1>2, <1>3, <1>4, <1>6 DEF Reconciled, Handled, AloneInv, o

LEMMA IdentifiedHandled ==
  ASSUME Refusals \subseteq {{}}, NodeInv, AloneInv, closing \subseteq ConnId, IdentifyReceived
  PROVE  Handled
<1>1. PICK c \in ConnId, a \in HeardAddrs \cup {NoAddr}, refused \in Refusals :
        /\ link[c] # NoAddr /\ (a # NoAddr => AddrPeer[a] = AddrPeer[link[c]])
        /\ LET p == AddrPeer[link[c]]
               v == SetProtocols(peers, p, p \in HopPeers)
               o == IF a = NoAddr THEN Outcome(v) ELSE Added(v, a, refused)
           IN  Do(o, dialing) /\ UNCHANGED link /\ Close(o.close)
  BY DEF IdentifyReceived
<1> DEFINE p == AddrPeer[link[c]]
           v == SetProtocols(peers, p, p \in HopPeers)
<1>2. p \in Peer /\ (a # NoAddr => a \in Addr /\ AddrPeer[a] = p)
  BY <1>1, NetworkAssumption DEF NodeInv, ViewInv
<1>3. (p \in HopPeers) \in BOOLEAN /\ refused = {}
  OBVIOUS
<1>4. \/ a = NoAddr /\ Do(Outcome(v), dialing) /\ Close(Outcome(v).close)
      \/ a # NoAddr /\ Do(Added(v, a, {}), dialing) /\ Close(Added(v, a, {}).close)
  BY <1>1, <1>3
<1>5. link' = link
  BY <1>1
<1> HIDE DEF p
<1>6. SoundView(v) /\ Alike(v, peers) /\ OnlyAt(v, peers, p)
  BY <1>2, <1>3, SetProtocolsSound, AlikeAre, OperationsOnlyAt DEF NodeInv, ViewInv
<1> HIDE DEF v
<1>7. CASE Do(Outcome(v), dialing) /\ Close(Outcome(v).close)
  BY <1>6, <1>7 DEF Do, Outcome, Close, Shut, AloneInv, Uneventful, Handled
<1> QED
  BY <1>2, <1>4, <1>5, <1>6, <1>7, AddedHandled

\* Every step is one of the two kinds.
LEMMA StepHandled ==
  ASSUME ~MdnsMayFail, ~DialsMayFail, Refusals \subseteq {{}}, NodeInv, AloneInv,
         closing \subseteq ConnId, [Next]_vars
  PROVE  Handled
<1>1. SoundView(peers) /\ Alike(peers, peers)
  BY AlikeAre DEF NodeInv, ViewInv
<1>2. CASE MdnsDiscovered \/ NewExternalAddrOfPeer \/ KadFoundPeer
  <2>1. PICK a \in Addr : on_add_address(a)
    BY <1>2, NetworkAssumption DEF MdnsDiscovered, NewExternalAddrOfPeer, KadFoundPeer
  <2>2. PICK refused \in Refusals : /\ Do(Added(peers, a, refused), dialing) /\ link' = link
                                    /\ Close(Added(peers, a, refused).close)
    BY <2>1 DEF on_add_address
  <2>3. refused = {} /\ OnlyAt(peers, peers, AddrPeer[a])
    BY DEF OnlyAt
  <2> QED
    BY <1>1, <2>2, <2>3, AddedHandled
<1>3. CASE UNCHANGED <<peers, dialing, closing>>
  BY <1>1, <1>3 DEF Uneventful, Handled, AloneInv, Shut
<1>4. CASE KadLookupEnds \/ UNCHANGED vars \/ \E a \in Addr : OutgoingConnectionError(a)
  BY <1>3, <1>4 DEF KadLookupEnds, OutgoingConnectionError, vars, program, swarm
<1>5. CASE ReservationReqAccepted
  <2>1. PICK D : closing' = (closing \cup D) \cap {c \in ConnId : link'[c] # NoAddr}
    BY <1>5 DEF ReservationReqAccepted, Close
  <2>2. Shut(closing)
    BY <2>1 DEF Shut
  <2> QED
    BY <1>1, <1>5, <2>2 DEF ReservationReqAccepted, Uneventful, Handled, AloneInv
<1>6. ASSUME NEW a \in Addr, DialSucceeds(a) PROVE Handled
  <2> DEFINE attempts == [dialing EXCEPT ![a] = @ - 1]
  <2>1. NextId \in ConnId
    BY <1>6 DEF DialSucceeds, NextId, FreeIds
  <2>2. dialing \in [Addr -> 0..MaxDials] /\ dialing[a] > 0 /\ MaxDials \in Nat
    BY <1>6, NetworkAssumption DEF DialSucceeds, AloneInv
  <2>3. dialing[a] - 1 \in 0..MaxDials
    BY <2>2
  <2>4. /\ attempts \in [Addr -> 0..MaxDials]
        /\ \A b \in Addr : AddrPeer[b] # AddrPeer[a] => attempts[b] = dialing[b]
    BY <2>2, <2>3
  <2>5. Opened(NextId, a, attempts)
    BY <1>6 DEF DialSucceeds
  <2> HIDE DEF attempts
  <2> QED
    BY <2>1, <2>4, <2>5, OpenedHandled
<1>7. CASE PeerConnects
  <2>1. PICK a \in InboundAddrs : Opened(NextId, a, dialing)
    BY <1>7 DEF PeerConnects
  <2>2. FreeIds # {}
    <3>1. Cardinality(FreeIds) > Spare /\ Spare \in Nat
      BY <1>7, NetworkAssumption DEF PeerConnects
    <3> QED
      BY <3>1, FS_EmptySet
  <2>3. NextId \in ConnId /\ a \in Addr
    BY <2>2, NetworkAssumption DEF NextId, FreeIds
  <2> QED
    BY <2>1, <2>3, OpenedHandled DEF AloneInv
<1>8. CASE Ping \/ Tick
  <2>1. \/ \E c \in ConnId, t \in Rtt : peers' = RecordRtt(peers, AddrPeer[link[c]], c, t)
        \/ peers' = Elapse(peers)
    BY <1>8 DEF Ping, Tick
  <2>2. Alike(peers', peers)
    BY <1>1, <2>1, AlikeAre
  <2>3. dialing' = dialing /\ closing' = closing
    BY <1>8 DEF Ping, Tick, swarm
  <2> QED
    BY <2>2, <2>3 DEF Uneventful, Handled, AloneInv, Shut
<1>9. CASE Rpc
  <2>1. ASSUME NEW a \in Addr, dial(a) PROVE Handled
    <3>1. /\ dialing' = [dialing EXCEPT ![a] = dialing[a] + 1] /\ dialing[a] < MaxDials
          /\ peers' = peers /\ closing' = closing
      BY <2>1 DEF dial, program
    <3>2. dialing \in [Addr -> 0..MaxDials] /\ dialing[a] + 1 \in 0..MaxDials
      BY <3>1, NetworkAssumption DEF AloneInv
    <3>3. /\ dialing' \in [Addr -> 0..MaxDials]
          /\ \A b \in Addr : dialing[b] > 0 => dialing'[b] > 0
      BY <3>1, <3>2
    <3> QED
      BY <1>1, <3>1, <3>3 DEF Uneventful, Handled, Shut
  <2> QED
    BY <1>3, <1>9, <2>1 DEF Rpc, set_mdns_enabled, set_kad_enabled, kad_find_peer, add_target_peer,
                            remove_target_peer, program
<1> QED
  BY <1>2, <1>4, <1>5, <1>6, <1>7, <1>8, <1>9, ClosedHandled, ExpiredHandled, IdentifiedHandled
  DEF Next, SwarmEvent

\* What is told to close is a connection.
LEMMA ClosingStep ==
  ASSUME closing \subseteq ConnId, [Next]_vars PROVE closing' \subseteq ConnId
<1>1. ASSUME NEW S, Close(S) PROVE closing' \subseteq ConnId
  BY <1>1 DEF Close
<1>2. ASSUME NEW a, NEW c, NEW attempts, Opened(c, a, attempts) PROVE closing' \subseteq ConnId
  BY <1>1, <1>2 DEF Opened, Settle, GiveUp
<1>3. ASSUME NEW c \in ConnId, ConnectionClosed(c) PROVE closing' \subseteq ConnId
  BY <1>1, <1>3 DEF ConnectionClosed, Settle, GiveUp
<1>4. CASE MdnsDiscovered \/ NewExternalAddrOfPeer \/ KadFoundPeer \/ MdnsExpired
           \/ IdentifyReceived \/ ReservationReqAccepted
  BY <1>1, <1>4 DEF MdnsDiscovered, NewExternalAddrOfPeer, KadFoundPeer, MdnsExpired,
                    IdentifyReceived, ReservationReqAccepted, on_add_address
<1>5. CASE PeerConnects \/ \E a \in Addr : DialSucceeds(a)
  BY <1>2, <1>5 DEF PeerConnects, DialSucceeds
<1>6. CASE UNCHANGED closing
  BY <1>6
<1> QED
  BY <1>3, <1>4, <1>5, <1>6 DEF Next, SwarmEvent, KadLookupEnds, OutgoingConnectionError, Ping,
     Tick, Rpc, set_mdns_enabled, set_kad_enabled, kad_find_peer, add_target_peer,
     remove_target_peer, dial, vars, swarm

----------------------------------------------------------------------------
(* Nobody is left alone *)

\* Attempts are only begun, and one for o.dial is then under way.
LEMMA DoTries ==
  ASSUME NEW o, NEW attempts \in [Addr -> 0..MaxDials], Do(o, attempts), o.dial \in Addr \cup {NoAddr}
  PROVE  /\ dialing' \in [Addr -> 0..MaxDials]
         /\ \A a \in Addr : attempts[a] > 0 => dialing'[a] > 0
         /\ o.dial \in Addr => dialing'[o.dial] > 0
<1>1. CASE o.dial # NoAddr /\ attempts[o.dial] < MaxDials
  <2>1. dialing' = [attempts EXCEPT ![o.dial] = attempts[o.dial] + 1]
    BY <1>1 DEF Do
  <2>2. o.dial \in Addr /\ attempts[o.dial] + 1 \in 0..MaxDials /\ attempts[o.dial] + 1 > 0
    BY <1>1, NetworkAssumption
  <2> QED
    BY <2>1, <2>2
<1>2. CASE ~(o.dial # NoAddr /\ attempts[o.dial] < MaxDials)
  <2>1. dialing' = attempts
    BY <1>2 DEF Do
  <2>2. o.dial \in Addr => attempts[o.dial] \in 0..MaxDials /\ ~(attempts[o.dial] < MaxDials)
    BY <1>2, ViewAssumption
  <2> QED
    BY <2>1, <2>2, NetworkAssumption
<1> QED
  BY <1>1, <1>2

LEMMA AloneStep ==
  ASSUME NodeInv, AloneInv, Handled PROVE AloneInv'
<1>1. CASE Uneventful
  <2>1. Owned(peers')
    BY <1>1 DEF AloneInv, Owned, Uneventful, Alike
  <2>2. \A q : Alone(peers', q) => Tried(q)'
    BY <1>1 DEF AloneInv, Uneventful, Alike, Alone, Tried
  <2> QED
    BY <1>1, <2>1, <2>2 DEF AloneInv, Uneventful
<1>2. ASSUME NEW p, NEW v, NEW attempts, Reconciled(p, v, attempts) PROVE AloneInv'
  <2> DEFINE o == Reconcile(v, p, {})
  <2>1. SoundView(v) /\ Owned(v) /\ OnlyAt(v, peers, p) /\ attempts \in [Addr -> 0..MaxDials]
        /\ \A a \in Addr : AddrPeer[a] # p => attempts[a] = dialing[a]
    BY <1>2 DEF Reconciled
  <2>2. /\ o.peers = v /\ o.dial \in Addr \cup {NoAddr}
        /\ Alone(v, p) => o.dial \in Addr /\ Has(v, p, o.dial)
    BY <2>1, ReconcileDials
  <2>3. Do(o, attempts) /\ peers' = o.peers
    BY <1>2 DEF Reconciled, Do
  <2> HIDE DEF o
  <2>4. /\ dialing' \in [Addr -> 0..MaxDials]
        /\ \A a \in Addr : attempts[a] > 0 => dialing'[a] > 0
        /\ o.dial \in Addr => dialing'[o.dial] > 0
    BY <2>1, <2>2, <2>3, DoTries
  <2>5. ASSUME NEW q, Alone(v, q) PROVE Tried(q)'
    <3>1. CASE q = p
      BY <2>1, <2>2, <2>4, <2>5, <3>1 DEF Owned, Tried
    <3>2. CASE q # p
      <4>1. Alone(peers, q)
        BY <2>1, <2>5, <3>2, EntryTells DEF OnlyAt, Alone
      <4> QED
        BY <2>1, <2>4, <3>2, <4>1 DEF AloneInv, Tried
    <3> QED
      BY <3>1, <3>2
  <2> QED
    BY <2>1, <2>2, <2>3, <2>4, <2>5 DEF AloneInv
<1> QED
  BY <1>1, <1>2 DEF Handled

ReachInv == NodeInv /\ AloneInv /\ closing \subseteq ConnId

LEMMA ReachInvariant ==
  ASSUME ~MdnsMayFail, ~DialsMayFail, Refusals \subseteq {{}} PROVE Spec => []ReachInv
<1>1. Init => ReachInv
  <2>1. Init => AloneInv /\ closing \subseteq ConnId
    BY NetworkAssumption DEF Init, AloneInv, Owned, Alone, Has
  <2> QED
    BY <2>1, NodeAtFirst DEF ReachInv
<1>2. ReachInv /\ [Next]_vars => ReachInv'
  BY NodeStep, StepHandled, AloneStep, ClosingStep DEF ReachInv
<1> QED
  BY <1>1, <1>2, PTL DEF Spec

\* If no dial is refused or fails and mDNS can be started, a peer with an address and no
\* connection is being dialled, through every interleaving of discovery, expiry, closes,
\* late successes and RPCs (mod.rs:340-379 and its callers).
THEOREM NobodyLeftAlone ==
  ASSUME ~MdnsMayFail, ~DialsMayFail, Refusals \subseteq {{}} PROVE Spec => []NeverIdle
<1>1. ReachInv => NeverIdle
  <2> SUFFICES ASSUME ReachInv, NEW p \in DOMAIN peers,
                      Known(p) # {}, ~IsConnected(peers, p)
               PROVE  Attempts(p) # {}
    BY DEF NeverIdle
  <2>1. Tried(p)
    BY AloneIs DEF ReachInv, NodeInv, ViewInv, AloneInv, Known
  <2> QED
    BY <2>1 DEF Tried, Attempts
<1> QED
  BY <1>1, ReachInvariant, PTL

----------------------------------------------------------------------------
(* What is connected settles on the best address *)

\* Of the connections to p, those that are not over the best address are closing, and
\* there is one that is; or an attempt to open one is under way.
Improves(p) ==
  LET best == Best(peers, p)
  IN  \/ \A a, c : ~Holds(peers, p, a, c)
      \/ /\ \E d : Holds(peers, p, best, d)
         /\ \A a, c : Holds(peers, p, a, c) /\ ~Holds(peers, p, best, c) => c \in closing
      \/ best \in Addr /\ dialing[best] > 0

BestInv == Rested(peers) /\ \A p \in Leads : Improves(p)

LEMMA UneventfulImproves ==
  ASSUME ReachInv, ReachInv', BestInv, Uneventful, NEW p \in Leads PROVE Improves(p)'
<1>1. Alike(peers', peers) /\ Rested(peers) /\ Rested(peers') /\ Improves(p)
  BY DEF Uneventful, BestInv, Alike
<1>2. SoundView(peers) /\ SoundView(peers')
  BY DEF ReachInv, NodeInv, ViewInv
<1>3. CASE \A a, c : ~Holds(peers, p, a, c)
  BY <1>1, <1>3 DEF Alike, Improves
<1>4. ASSUME NEW a, NEW c, Holds(peers, p, a, c) PROVE Improves(p)'
  <2>1. Best(peers', p) = Best(peers, p)
    <3>1. Has(peers', p, a)
      BY <1>1, <1>4 DEF Holds, Has, Alike
    <3>2. Has(peers', p, Best(peers', p))
      BY <1>1, <1>2, <3>1, BestRanksFirst
    <3> QED
      BY <1>1, <1>2, <3>2, BestStays DEF Alike
  <2>2. \A b, d : Holds(peers', p, b, d) => d \in ConnId /\ link'[d] # NoAddr
    <3>1. \A b, d : Holds(peers', p, b, d) => b \in Addr /\ d \in ConnId
      BY <1>2, HoldsTyped
    <3>2. \A b, d : Holds(peers', p, b, d) => link'[d] = b
      BY DEF ReachInv, NodeInv, ViewInv, Linked
    <3> QED
      BY <3>1, <3>2, ViewAssumption
  <2> QED
    BY <1>1, <1>4, <2>1, <2>2 DEF Alike, Improves, Uneventful, Shut
<1> QED
  BY <1>3, <1>4

LEMMA ReconciledImproves ==
  ASSUME ReachInv, ReachInv', BestInv, NEW p, NEW v, NEW attempts, Reconciled(p, v, attempts),
         NEW q \in Leads
  PROVE  Improves(q)'
<1> DEFINE o == Reconcile(v, p, {})
<1>1. /\ SoundView(v) /\ Owned(v) /\ OnlyAt(v, peers, p) /\ Rested(v)
      /\ attempts \in [Addr -> 0..MaxDials]
      /\ \A a \in Addr : AddrPeer[a] # p => attempts[a] = dialing[a]
      /\ Do(o, attempts) /\ Shut(closing \cup o.close)
  BY DEF Reconciled, BestInv
<1>2. o.peers = v /\ o.dial \in Addr \cup {NoAddr} /\ peers' = o.peers
  BY <1>1, ReconcileDials DEF Do
<1>3. /\ \A c : c \in o.close <=> /\ p \in Leads /\ \E d : Holds(v, p, Best(v, p), d)
                                  /\ ~Holds(v, p, Best(v, p), c) /\ \E a : Holds(v, p, a, c)
      /\ p \in Leads /\ (\A d : ~Holds(v, p, Best(v, p), d)) /\ (\E a, c : Holds(v, p, a, c))
           => o.dial = Best(v, p)
  BY <1>1, ReconcilePrunes
<1> HIDE DEF o
<1>4. /\ \A a \in Addr : attempts[a] > 0 => dialing'[a] > 0
      /\ o.dial \in Addr => dialing'[o.dial] > 0
  BY <1>1, <1>2, DoTries
<1>5. \A a, c : Holds(v, q, a, c) =>
        /\ link'[c] # NoAddr /\ c \in ConnId /\ Best(v, q) \in Addr
        /\ Has(v, q, Best(v, q))
  <2> SUFFICES ASSUME NEW a, NEW c, Holds(v, q, a, c)
               PROVE  /\ link'[c] # NoAddr /\ c \in ConnId /\ Best(v, q) \in Addr
                      /\ Has(v, q, Best(v, q))
    OBVIOUS
  <2>1. a \in Addr /\ c \in ConnId /\ link'[c] = a
    BY <1>1, <1>2, HoldsTyped DEF ReachInv, NodeInv, ViewInv, Linked
  <2>2. Has(v, q, a)
    BY DEF Holds, Has
  <2> QED
    BY <1>1, <2>1, <2>2, BestRanksFirst, ViewAssumption
<1>6. CASE q = p
  BY <1>1, <1>2, <1>3, <1>4, <1>5, <1>6 DEF Improves, Shut
<1>7. CASE q # p
  <2>1. /\ \A a, c : Holds(v, q, a, c) <=> Holds(peers, q, a, c)
        /\ Best(v, q) = Best(peers, q)
    BY <1>1, <1>7, EntryTells DEF OnlyAt
  <2>2. Improves(q)
    BY DEF BestInv
  <2>3. \A a, c : Holds(v, q, a, c) => AddrPeer[Best(v, q)] = q
    BY <1>1, <1>5 DEF Owned
  <2> QED
    BY <1>1, <1>2, <1>4, <1>5, <1>7, <2>1, <2>2, <2>3 DEF Improves, Shut
<1> QED
  BY <1>6, <1>7

LEMMA BestStep == ASSUME ReachInv, ReachInv', BestInv, Handled PROVE BestInv'
<1>1. CASE Uneventful
  BY <1>1, UneventfulImproves DEF BestInv, Uneventful, Alike
<1>2. ASSUME NEW p, NEW v, NEW attempts, Reconciled(p, v, attempts) PROVE BestInv'
  <2>1. peers' = v
    BY <1>2, ReconcileDials DEF Reconciled, Do
  <2> QED
    BY <1>2, <2>1, ReconciledImproves DEF BestInv, Reconciled
<1> QED
  BY <1>1, <1>2 DEF Handled

\* If no dial is refused or fails and mDNS can be started, then once nothing is under way
\* for a peer that we lead, all the connections the view has for it run over its best
\* address, whatever was found, expired, opened and closed in between (mod.rs:329).
THEOREM SettlesOnBest ==
  ASSUME ~MdnsMayFail, ~DialsMayFail, Refusals \subseteq {{}} PROVE Spec => []SettledOnBest
<1>1. Init => BestInv
  BY DEF Init, BestInv, Rested, Has, Improves, Holds
<1>2. ReachInv /\ ReachInv' /\ BestInv /\ [Next]_vars => BestInv'
  BY StepHandled, BestStep DEF ReachInv
<1>3. ReachInv /\ BestInv => SettledOnBest
  <2> SUFFICES ASSUME ReachInv, BestInv, NEW p \in DOMAIN peers \cap Leads,
                      Quiet(p), IsConnected(peers, p)
               PROVE  ConnsOf(peers, p) = peers[p].addresses[Best(peers, p)].active_connections
    BY DEF SettledOnBest
  <2> DEFINE best == Best(peers, p)
             known == AddressesOf(peers, p)
  <2>1. SoundView(peers) /\ Rested(peers) /\ known = peers[p].addresses /\ Improves(p)
    BY DEF ReachInv, NodeInv, ViewInv, BestInv, AddressesOf, Entry
  <2>2. \A a, c : Holds(peers, p, a, c) <=> a \in DOMAIN known /\ c \in known[a].active_connections
    BY KnownAreOwn, HeldAreKnown
  <2>3. PICK a, c : Holds(peers, p, a, c)
    BY <2>2 DEF IsConnected, IsConnectedOver, IsUp
  <2>4. Has(peers, p, best) /\ best \in Addr /\ AddrPeer[best] = p
    <3>1. Has(peers, p, a)
      BY <2>3 DEF Holds, Has
    <3> QED
      BY <2>1, <3>1, BestRanksFirst DEF ReachInv, AloneInv, Owned
  <2>5. ~(dialing[best] > 0)
    BY <2>4 DEF Quiet, Attempts
  <2>6. \A b, d : Holds(peers, p, b, d) => d \notin closing
    <3> SUFFICES ASSUME NEW b, NEW d, Holds(peers, p, b, d) PROVE d \notin closing
      OBVIOUS
    <3>1. d \in ConnId /\ b \in Addr /\ link[d] = b /\ AddrPeer[b] = p
      BY <2>1, HoldsTyped DEF ReachInv, NodeInv, ViewInv, Linked
    <3>2. d \in LinksOf(p)
      BY <3>1, ViewAssumption DEF LinksOf
    <3> QED
      BY <3>2 DEF Quiet
  <2>7. \A b, d : Holds(peers, p, b, d) => Holds(peers, p, best, d)
    BY <2>1, <2>3, <2>5, <2>6 DEF Improves
  <2>8. best \in DOMAIN known
    BY <2>1, <2>4 DEF Has
  <2>9. \A d : d \in ConnsOf(peers, p) <=> \E b : Holds(peers, p, b, d)
    BY <2>2 DEF ConnsOf
  <2>10. \A d : d \in known[best].active_connections <=> Holds(peers, p, best, d)
    BY <2>2, <2>8
  <2> HIDE DEF best, known
  <2>11. ConnsOf(peers, p) = known[best].active_connections
    BY <2>7, <2>9, <2>10
  <2> QED
    BY <2>1, <2>11 DEF best
<1> QED
  BY <1>1, <1>2, <1>3, ReachInvariant, PTL DEF Spec

----------------------------------------------------------------------------
(* What the relay manager reads from a view *)

\* The relays in use are those some listed connection goes through.
LEMMA InUse ==
  ASSUME NEW v, SoundView(v)
  PROVE  /\ recompute_in_use(v) \subseteq Peer /\ IsFiniteSet(recompute_in_use(v))
         /\ \A r : r \in recompute_in_use(v) =>
              \E p, a, c : Holds(v, p, a, c) /\ RelayOf[a] = r /\ r # NoPeer
         /\ \A p, a, c : Holds(v, p, a, c) /\ RelayOf[a] # NoPeer =>
              RelayOf[a] \in recompute_in_use(v)
<1>1. recompute_in_use(v) \subseteq Peer
  BY NetworkAssumption DEF recompute_in_use
<1>2. IsFiniteSet(recompute_in_use(v))
  BY <1>1, NetworkAssumption, FS_Subset
<1>3. ASSUME NEW r \in recompute_in_use(v)
      PROVE  \E p, a, c : Holds(v, p, a, c) /\ RelayOf[a] = r /\ r # NoPeer
  <2>1. PICK a \in Addr, p \in DOMAIN v : IsConnectedOver(v, p, a) /\ RelayOf[a] = r /\ r # NoPeer
    BY <1>3 DEF recompute_in_use
  <2> QED
    BY <2>1 DEF IsConnectedOver, IsUp, AddressesOf, Entry, Holds
<1>4. ASSUME NEW p, NEW a, NEW c, Holds(v, p, a, c), RelayOf[a] # NoPeer
      PROVE  RelayOf[a] \in recompute_in_use(v)
  <2>1. a \in Addr /\ p \in DOMAIN v /\ IsConnectedOver(v, p, a)
    BY <1>4, HoldsTyped DEF Holds, IsConnectedOver, IsUp, AddressesOf, Entry
  <2> QED
    BY <1>4, <2>1 DEF recompute_in_use
<1> QED
  BY <1>1, <1>2, <1>3, <1>4

LEMMA RttsAreNumbers ==
  ASSUME NEW v, SoundView(v) PROVE \A r \in Peer : RelayRtts(v)[r] \in Int
<1>1. \A r \in DOMAIN v : v[r].rtt \in Rtt
  BY DEF SoundView, IsView, IsPeerInfoExt
<1>2. Rtt \subseteq Int /\ MaxRtt \in Int
  BY ViewAssumption, NetworkAssumption
<1> QED
  BY <1>1, <1>2 DEF RelayRtts

\* One call of update_relay_state.
LEMMA UpdatedFits ==
  ASSUME NEW v, SoundView(v), NEW q \in Seq(Peer), IsInjective(q)
  PROVE  LET new  == Updated(q, v)
             used == recompute_in_use(v)
         IN  /\ new \in Seq(Peer) /\ IsInjective(new) /\ Len(new) <= Capacity(used)
             /\ Range(new) \subseteq Range(q) /\ Range(q) \cap used \subseteq Range(new)
  BY InUse, RttsAreNumbers, PruneFits DEF Updated

----------------------------------------------------------------------------
(* The queue of relays *)

QueueInv ==
  /\ reserved \in Seq(Peer) /\ IsInjective(reserved)
  /\ in_use \subseteq Peer /\ Len(reserved) <= Capacity(in_use)

\* The queue is made to fit what the view shows now, with "more" registered.
BroughtUpToDate(more) ==
  /\ QueueInv' /\ in_use' = recompute_in_use(peers')
  /\ Range(reserved') \subseteq Range(reserved) \cup more
  /\ (Range(reserved) \cup more) \cap in_use' \subseteq Range(reserved')

LEMMA SettleQueue ==
  ASSUME QueueInv, NEW v, SoundView(v), NEW p, NEW refused, NEW attempts,
         NEW relay \in Peer \cup {NoPeer}, Settle(v, p, refused, attempts, relay)
  PROVE  BroughtUpToDate({relay} \ {NoPeer})
<1> DEFINE o == Reconcile(v, p, refused)
           once == Updated(reserved, o.peers)
           used == recompute_in_use(o.peers)
<1>1. SoundView(o.peers) /\ peers' = o.peers /\ in_use' = used
  BY ReconcileFine DEF Fine, Settle, Do
<1>2. reserved' = IF relay = NoPeer THEN once ELSE Updated(register(once, relay), o.peers)
  BY DEF Settle
<1> HIDE DEF o
<1>3. /\ once \in Seq(Peer) /\ IsInjective(once) /\ Len(once) <= Capacity(used)
      /\ Range(once) \subseteq Range(reserved) /\ Range(reserved) \cap used \subseteq Range(once)
  BY <1>1, UpdatedFits DEF QueueInv
<1>4. used \subseteq Peer
  BY <1>1, InUse
<1> HIDE DEF once
<1>5. CASE relay = NoPeer
  BY <1>1, <1>2, <1>3, <1>4, <1>5 DEF BroughtUpToDate, QueueInv
<1>6. CASE relay # NoPeer
  <2> DEFINE more == register(once, relay)
             new == Updated(more, o.peers)
  <2>1. more \in Seq(Peer) /\ IsInjective(more) /\ Range(more) = Range(once) \cup {relay}
    BY <1>3, <1>6, RegisterKeepsOrder
  <2> HIDE DEF more
  <2>2. /\ new \in Seq(Peer) /\ IsInjective(new) /\ Len(new) <= Capacity(used)
        /\ Range(new) \subseteq Range(more) /\ Range(more) \cap used \subseteq Range(new)
    BY <1>1, <2>1, UpdatedFits
  <2>3. reserved' = new
    BY <1>2, <1>6 DEF more
  <2> HIDE DEF new
  <2>4. Range(new) \subseteq Range(reserved) \cup {relay}
    BY <1>3, <2>1, <2>2
  <2>5. (Range(reserved) \cup {relay}) \cap used \subseteq Range(new)
    BY <1>3, <2>1, <2>2
  <2>6. {relay} \ {NoPeer} = {relay}
    BY <1>6
  <2>7. QueueInv'
    BY <1>1, <1>4, <2>2, <2>3 DEF QueueInv
  <2> HIDE DEF used
  <2> QED
    BY <1>1, <2>3, <2>4, <2>5, <2>6, <2>7 DEF BroughtUpToDate, used
<1> QED
  BY <1>5, <1>6

\* The connections the view lists after a step: those it had, and new ones at
\* the addresses in A.
Gains(A) == \A p, a, c : Holds(peers', p, a, c) => Holds(peers, p, a, c) \/ a \in A

LEMMA InUseGains ==
  ASSUME NodeInv, NodeInv', NEW A, Gains(A)
  PROVE  recompute_in_use(peers') \subseteq
           recompute_in_use(peers) \cup ({RelayOf[a] : a \in A} \ {NoPeer})
<1>1. SoundView(peers) /\ SoundView(peers')
  BY DEF NodeInv, ViewInv
<1> SUFFICES ASSUME NEW r \in recompute_in_use(peers')
             PROVE  r \in recompute_in_use(peers) \cup ({RelayOf[a] : a \in A} \ {NoPeer})
  OBVIOUS
<1>2. PICK p, a, c : Holds(peers', p, a, c) /\ RelayOf[a] = r /\ r # NoPeer
  BY <1>1, InUse
<1> QED
  BY <1>1, <1>2, InUse DEF Gains

\* A handler that gives up changes the view and leaves the relays.
LEMMA SettleGains ==
  ASSUME NEW v, SoundView(v), NEW A,
         \A p, a, c : Holds(v, p, a, c) => Holds(peers, p, a, c) \/ a \in A,
         NEW q, NEW refused, NEW attempts, NEW relay,
         Settle(v, q, refused, attempts, relay) \/ GiveUp(v, attempts)
  PROVE  Gains(A)
<1>1. CASE Settle(v, q, refused, attempts, relay)
  BY <1>1, ReconcileFine DEF Settle, Do, Fine, Inherits, Gains
<1>2. CASE GiveUp(v, attempts)
  BY <1>2 DEF GiveUp, Gains
<1> QED
  BY <1>1, <1>2

\* Opening a connection over a relay.
LEMMA OpenQueue ==
  ASSUME NodeInv, QueueInv, NEW c \in ConnId, NEW a \in Addr, NEW attempts,
         Opened(c, a, attempts)
  PROVE  /\ Gains({a})
         /\ \/ BroughtUpToDate({RelayOf[a]} \ {NoPeer})
            \/ MdnsMayFail /\ UNCHANGED <<reserved, in_use>>
<1> DEFINE p == AddrPeer[a]
           v == AddConnection(peers, p, c, a)
           missing == p \in target_peers /\ ~AllTargetsConnected(v)
<1>1. PICK refused \in Refusals, ok \in MdnsStarts(missing) :
        IF ok THEN Settle(v, p, refused, attempts, RelayOf[a]) ELSE GiveUp(v, attempts)
  BY DEF Opened
<1>2. /\ SoundView(v)
      /\ \A q, b, d : Holds(v, q, b, d) => Holds(peers, q, b, d) \/ (q = p /\ b = a /\ d = c)
  BY NetworkAssumption, AddConnectionSound, AddConnectionAdds DEF NodeInv, ViewInv
<1>3. RelayOf[a] \in Peer \cup {NoPeer}
  BY NetworkAssumption
<1>4. ~ok => MdnsMayFail
  BY <1>1 DEF MdnsStarts
<1> HIDE DEF v, missing, p
<1>5. Gains({a})
  BY <1>1, <1>2, SettleGains
<1> QED
  BY <1>1, <1>2, <1>3, <1>4, <1>5, SettleQueue DEF GiveUp

LEMMA CloseQueue ==
  ASSUME NodeInv, QueueInv, NEW c \in ConnId, ConnectionClosed(c)
  PROVE  Gains({}) /\ (BroughtUpToDate({}) \/ UNCHANGED <<reserved, in_use>>)
<1> DEFINE p == AddrPeer[link[c]]
           v == RemoveConnection(peers, p, c)
           lost == p \in target_peers /\ ~IsConnected(v, p)
<1>1. PICK refused \in Refusals, ok \in MdnsStarts(lost) :
        IF ok THEN Settle(v, p, refused, dialing, NoPeer) ELSE GiveUp(v, dialing)
  BY DEF ConnectionClosed
<1>2. SoundView(v) /\ \A q, b, d : Holds(v, q, b, d) => Holds(peers, q, b, d) \/ b \in {}
  BY RemoveConnectionSound, RemoveConnectionRemoves DEF NodeInv, ViewInv, Inherits
<1> HIDE DEF v, lost, p
<1>3. Gains({})
  BY <1>1, <1>2, SettleGains
<1>4. BroughtUpToDate({NoPeer} \ {NoPeer}) \/ UNCHANGED <<reserved, in_use>>
  BY <1>1, <1>2, SettleQueue DEF GiveUp
<1>5. {NoPeer} \ {NoPeer} = {}
  OBVIOUS
<1> QED
  BY <1>3, <1>4, <1>5

LEMMA AcceptedQueue ==
  ASSUME NodeInv, QueueInv, ReservationReqAccepted
  PROVE  Gains({}) /\ \E relay \in Peer : BroughtUpToDate({relay})
<1>1. PICK c \in ConnId :
        /\ link[c] # NoAddr /\ in_use' = recompute_in_use(peers)
        /\ reserved' = Updated(register(reserved, AddrPeer[link[c]]), peers)
  BY DEF ReservationReqAccepted
<1> DEFINE relay == AddrPeer[link[c]]
           q == register(reserved, relay)
<1>2. relay \in Peer /\ SoundView(peers) /\ peers' = peers
  BY <1>1, NetworkAssumption DEF NodeInv, ViewInv, ReservationReqAccepted
<1> HIDE DEF relay
<1>3. q \in Seq(Peer) /\ IsInjective(q) /\ Range(q) = Range(reserved) \cup {relay}
  BY <1>2, RegisterKeepsOrder DEF QueueInv
<1> HIDE DEF q
<1>4. /\ Updated(q, peers) \in Seq(Peer) /\ IsInjective(Updated(q, peers))
      /\ Len(Updated(q, peers)) <= Capacity(recompute_in_use(peers))
      /\ Range(Updated(q, peers)) \subseteq Range(q)
      /\ Range(q) \cap recompute_in_use(peers) \subseteq Range(Updated(q, peers))
  BY <1>2, <1>3, UpdatedFits
<1>5. reserved' = Updated(q, peers)
  BY <1>1 DEF q, relay
<1>6. recompute_in_use(peers) \subseteq Peer
  BY <1>2, InUse
<1>7. BroughtUpToDate({relay})
  BY <1>1, <1>2, <1>3, <1>4, <1>5, <1>6 DEF BroughtUpToDate, QueueInv
<1>8. Gains({})
  BY <1>2 DEF Gains
<1> QED
  BY <1>2, <1>7, <1>8

\* The other handlers leave the relays alone and list no connection.
LEMMA AddQuiet ==
  ASSUME NodeInv, NEW a \in Addr, on_add_address(a)
  PROVE  Gains({}) /\ UNCHANGED <<reserved, in_use>>
<1>1. PICK refused \in Refusals : peers' = Added(peers, a, refused).peers
  BY DEF on_add_address, Do
<1> QED
  BY <1>1, AddedFine DEF NodeInv, ViewInv, Fine, Inherits, Gains, on_add_address, relays

LEMMA OthersQuiet ==
  ASSUME NodeInv, MdnsExpired \/ IdentifyReceived \/ Ping \/ Tick
  PROVE  Gains({}) /\ UNCHANGED <<reserved, in_use>>
<1>1. CASE MdnsExpired
  <2>1. PICK a \in mdns.seen, refused \in Refusals :
          peers' = Reconcile(RemoveAddress(peers, AddrPeer[a], a), AddrPeer[a], refused).peers
    BY <1>1 DEF MdnsExpired, Do
  <2> DEFINE v == RemoveAddress(peers, AddrPeer[a], a)
  <2>2. SoundView(v) /\ Inherits(v, peers)
    BY RemoveAddressSound, RemoveAddressInherits DEF NodeInv, ViewInv
  <2> HIDE DEF v
  <2>3. Inherits(Reconcile(v, AddrPeer[a], refused).peers, v)
    BY <2>2, ReconcileFine DEF Fine
  <2> QED
    BY <1>1, <2>1, <2>2, <2>3 DEF v, Inherits, Gains, MdnsExpired, relays
<1>2. CASE IdentifyReceived
  <2>1. PICK c \in ConnId, a \in HeardAddrs \cup {NoAddr}, refused \in Refusals :
          /\ link[c] # NoAddr
          /\ LET p == AddrPeer[link[c]]
                 v == SetProtocols(peers, p, p \in HopPeers)
                 o == IF a = NoAddr THEN Outcome(v) ELSE Added(v, a, refused)
             IN  Do(o, dialing)
    BY <1>2 DEF IdentifyReceived
  <2> DEFINE p == AddrPeer[link[c]]
             v == SetProtocols(peers, p, p \in HopPeers)
  <2>2. p \in Peer /\ (a # NoAddr => a \in Addr)
    BY <2>1, NetworkAssumption DEF NodeInv, ViewInv
  <2>3. (p \in HopPeers) \in BOOLEAN
    OBVIOUS
  <2> HIDE DEF p
  <2>4. SoundView(v) /\ Inherits(v, peers)
    BY <2>2, <2>3, SetProtocolsSound, SetProtocolsInherits DEF NodeInv, ViewInv
  <2>5. peers' = (IF a = NoAddr THEN Outcome(v) ELSE Added(v, a, refused)).peers
    BY <2>1 DEF Do, p
  <2> HIDE DEF v
  <2>6. Inherits(peers', v)
    BY <2>2, <2>4, <2>5, AddedFine, OutcomeFine DEF Fine
  <2> QED
    BY <1>2, <2>4, <2>6 DEF Inherits, Gains, IdentifyReceived
<1>3. CASE Ping
  BY <1>3, RecordRttInherits DEF Ping, NodeInv, ViewInv, Inherits, Gains
<1>4. CASE Tick
  BY <1>4, ElapseInherits DEF Tick, NodeInv, ViewInv, Inherits, Gains
<1> QED
  BY <1>1, <1>2, <1>3, <1>4

Untouched == UNCHANGED <<reserved, in_use>>

\* A step lists no connection, or one at address a; and it leaves the relays or
\* brings them up to date, except that a failing mDNS may keep it from that.
LEMMA QueueCases ==
  ASSUME NodeInv, QueueInv, [Next]_vars
  PROVE  \/ Gains({}) /\ (Untouched \/ \E more \in SUBSET Peer : BroughtUpToDate(more))
         \/ \E a \in Addr : /\ Gains({a})
                            /\ \/ BroughtUpToDate({RelayOf[a]} \ {NoPeer})
                               \/ MdnsMayFail /\ Untouched
<1>1. CASE MdnsDiscovered \/ NewExternalAddrOfPeer \/ KadFoundPeer
  <2>1. PICK a \in Addr : on_add_address(a)
    BY <1>1, NetworkAssumption DEF MdnsDiscovered, NewExternalAddrOfPeer, KadFoundPeer
  <2> QED
    BY <2>1, AddQuiet DEF Untouched
<1>2. CASE MdnsExpired \/ IdentifyReceived \/ Ping \/ Tick
  BY <1>2, OthersQuiet DEF Untouched
<1>3. CASE KadLookupEnds \/ (\E a \in Addr : OutgoingConnectionError(a)) \/ Rpc \/ UNCHANGED vars
  BY <1>3 DEF KadLookupEnds, OutgoingConnectionError, Rpc, set_mdns_enabled, set_kad_enabled,
              kad_find_peer, dial, add_target_peer, remove_target_peer, program, relays, vars,
              Gains, Untouched
<1>4. ASSUME NEW a \in Addr, DialSucceeds(a)
      PROVE  /\ Gains({a})
             /\ BroughtUpToDate({RelayOf[a]} \ {NoPeer}) \/ (MdnsMayFail /\ Untouched)
  <2>1. NextId \in ConnId
    BY <1>4 DEF DialSucceeds, NextId, FreeIds
  <2> QED
    BY <1>4, <2>1, OpenQueue DEF DialSucceeds, Untouched
<1>5. CASE PeerConnects
  <2>1. PICK a \in InboundAddrs : Opened(NextId, a, dialing)
    BY <1>5 DEF PeerConnects
  <2>2. FreeIds # {}
    <3>1. Cardinality(FreeIds) > Spare /\ Spare \in Nat
      BY <1>5, NetworkAssumption DEF PeerConnects
    <3> QED
      BY <3>1, FS_EmptySet
  <2>3. NextId \in ConnId /\ a \in Addr
    BY <2>2, NetworkAssumption DEF NextId, FreeIds
  <2> QED
    BY <2>1, <2>3, OpenQueue DEF Untouched
<1>6. ASSUME NEW c \in ConnId, ConnectionClosed(c)
      PROVE  Gains({}) /\ (Untouched \/ \E more \in SUBSET Peer : BroughtUpToDate(more))
  BY <1>6, CloseQueue DEF Untouched
<1>7. CASE ReservationReqAccepted
  BY <1>7, AcceptedQueue
<1> QED
  BY <1>1, <1>2, <1>3, <1>4, <1>5, <1>6, <1>7 DEF Next, SwarmEvent

LEMMA QueueStep == ASSUME NodeInv, QueueInv, [Next]_vars PROVE QueueInv'
<1>1. \A more : BroughtUpToDate(more) => QueueInv'
  BY DEF BroughtUpToDate
<1>2. Untouched => QueueInv'
  BY DEF Untouched, QueueInv
<1> QED
  BY <1>1, <1>2, QueueCases

LEMMA QueueInvariant == Spec => []QueueInv
<1>1. Init => QueueInv
  <2>1. Cardinality({}) = 0
    BY FS_EmptySet
  <2> QED
    BY <2>1, RelayAssumption DEF Init, QueueInv, IsInjective, Capacity
<1> QED
  BY <1>1, QueueStep, NodeInvariant, PTL DEF Spec

\* No relay is pruned that the view has a connection over, whatever else is out of
\* date (mod.rs:453-474, relay_manager.rs:68).
THEOREM CarriersSpared == Spec => PruneSparesCarriers
<1> DEFINE Spared ==
      \A r \in Range(reserved) \ Range(reserved') :
        \A c \in ConnId : link'[c] # NoAddr /\ RelayOf[link'[c]] = r =>
          c \notin ConnsOf(peers', AddrPeer[link'[c]])
<1>1. NodeInv /\ QueueInv /\ [Next]_vars => [Spared]_vars
  <2> SUFFICES ASSUME NodeInv, QueueInv, [Next]_vars,
                      NEW r \in Range(reserved) \ Range(reserved'),
                      NEW c \in ConnId, NEW p, c \in ConnsOf(peers', p), RelayOf[link'[c]] = r
               PROVE  FALSE
    OBVIOUS
  <2>1. NodeInv' /\ SoundView(peers') /\ Linked(peers', link')
    BY NodeStep DEF NodeInv, ViewInv
  <2>2. ~Untouched
    BY DEF Untouched
  <2>3. PICK more : BroughtUpToDate(more)
    BY <2>2, QueueCases
  <2>4. PICK a : Holds(peers', p, a, c)
    BY DEF ConnsOf, AddressesOf, Entry, NewPeer, Holds
  <2>5. link'[c] = a
    BY <2>1, <2>4 DEF Linked
  <2>6. r # NoPeer
    <3>1. Range(reserved) \subseteq Peer
      BY QueueSize DEF QueueInv
    <3> QED
      BY <3>1, NetworkAssumption
  <2>7. r \in recompute_in_use(peers')
    BY <2>1, <2>4, <2>5, <2>6, InUse
  <2> QED
    BY <2>3, <2>7 DEF BroughtUpToDate
<1> HIDE DEF Spared
<1>2. Spec => [][Spared]_vars
  BY <1>1, QueueInvariant, NodeInvariant, PTL DEF Spec
<1> QED
  BY <1>2 DEF Spared, PruneSparesCarriers


----------------------------------------------------------------------------
(* The spare allowance *)

\* What carries a connection, and what did at the last update, is in the queue.
CarriersQueued ==
  recompute_in_use(peers) \subseteq Range(reserved) /\ in_use \subseteq Range(reserved)

LEMMA CarriersStep ==
  ASSUME ~MdnsMayFail, NodeInv, QueueInv, CarriersQueued, [Next]_vars PROVE CarriersQueued'
<1>1. NodeInv'
  BY NodeStep
<1>2. ASSUME Untouched, Gains({}) PROVE CarriersQueued'
  BY <1>1, <1>2, InUseGains DEF CarriersQueued, Untouched
<1>3. ASSUME NEW more, BroughtUpToDate(more),
             recompute_in_use(peers') \subseteq recompute_in_use(peers) \cup more
      PROVE  CarriersQueued'
  BY <1>3 DEF CarriersQueued, BroughtUpToDate
<1>4. ASSUME Gains({}) PROVE recompute_in_use(peers') \subseteq recompute_in_use(peers)
  BY <1>1, <1>4, InUseGains
<1>5. ASSUME NEW a, Gains({a})
      PROVE  recompute_in_use(peers') \subseteq recompute_in_use(peers) \cup ({RelayOf[a]} \ {NoPeer})
  BY <1>1, <1>5, InUseGains
<1> QED
  BY <1>2, <1>3, <1>4, <1>5, QueueCases

\* If mDNS can be started, no more than MaxRelays reservations are spare after any
\* handler, and no more are held than relays in use and that allowance: a handler
\* that mDNS cuts short would leave a relay in use out of the queue
\* (relay_manager.rs:9, 67-71; mod.rs:276-322).
THEOREM SparesStayBounded == ASSUME ~MdnsMayFail PROVE Spec => []SparesBounded
<1>1. Init => CarriersQueued
  <2> SUFFICES ASSUME Init PROVE CarriersQueued
    OBVIOUS
  <2>1. SoundView(peers) /\ \A p, a, c : ~Holds(peers, p, a, c)
    BY DEF Init, SoundView, IsView, Holds
  <2>2. recompute_in_use(peers) = {}
    BY <2>1, InUse
  <2> QED
    BY <2>2 DEF Init, CarriersQueued
<1>2. NodeInv /\ QueueInv /\ CarriersQueued /\ [Next]_vars => CarriersQueued'
  BY CarriersStep
<1>3. QueueInv /\ CarriersQueued => SparesBounded
  <2> SUFFICES ASSUME QueueInv, CarriersQueued PROVE SparesBounded
    OBVIOUS
  <2> DEFINE queued == Range(reserved)
  <2>1. IsFiniteSet(queued) /\ Cardinality(queued) = Len(reserved) /\ Len(reserved) \in Nat
    BY QueueSize DEF QueueInv
  <2>2. in_use \subseteq queued
    BY DEF CarriersQueued
  <2> HIDE DEF queued
  <2>3. Cardinality(queued \ in_use) = Cardinality(queued) - Cardinality(in_use)
    <3>1. queued \cap in_use = in_use
      BY <2>2
    <3>2. Cardinality(queued \ in_use) = Cardinality(queued) - Cardinality(queued \cap in_use)
      BY <2>1, FS_Difference
    <3> QED
      BY <3>1, <3>2
  <2>4. Cardinality(in_use) \in Nat
    BY <2>1, <2>2, FS_Subset, FS_CardinalityType
  <2>5. Len(reserved) <= Cardinality(in_use) + MaxRelays
    BY DEF QueueInv, Capacity
  <2>6. Cardinality(queued \ in_use) <= MaxRelays
    BY <2>1, <2>3, <2>4, <2>5, RelayAssumption
  <2> QED
    BY <2>6 DEF SparesBounded, QueueInv, queued
<1> QED
  BY <1>1, <1>2, <1>3, NodeInvariant, QueueInvariant, PTL DEF Spec

----------------------------------------------------------------------------
(* Types *)

\* What NodeInv and QueueInv leave open.
RestInv ==
  /\ target_peers \subseteq Peer /\ active_mode \in BOOLEAN
  /\ kad.on \in BOOLEAN /\ kad.lookups \subseteq Peer /\ mdns.on \in BOOLEAN
  /\ dialing \in [Addr -> 0..MaxDials] /\ closing \subseteq ConnId
  /\ relay_client \in [asked : SUBSET Peer, held : SUBSET Peer]

\* Attempts are only begun below the bound.
LEMMA DoDials ==
  ASSUME NEW o, NEW attempts \in [Addr -> 0..MaxDials], Do(o, attempts)
  PROVE  dialing' \in [Addr -> 0..MaxDials]
<1>1. CASE o.dial \in Addr
  BY <1>1, NetworkAssumption DEF Do
<1>2. CASE o.dial \notin Addr
  <2>1. [attempts EXCEPT ![o.dial] = @ + 1] = attempts
    BY <1>2
  <2> QED
    BY <2>1 DEF Do
<1> QED
  BY <1>1, <1>2

LEMMA ClosingTyped == ASSUME NEW S, Close(S) PROVE closing' \subseteq ConnId
  BY DEF Close

\* A connection handler, to the end or not.
LEMMA SettleTyped ==
  ASSUME NEW v, NEW p, NEW refused, NEW attempts \in [Addr -> 0..MaxDials], NEW relay,
         Settle(v, p, refused, attempts, relay) \/ GiveUp(v, attempts)
  PROVE  dialing' \in [Addr -> 0..MaxDials] /\ closing' \subseteq ConnId
  BY DoDials, ClosingTyped DEF Settle, GiveUp

ModesTyped ==
  active_mode \in BOOLEAN /\ kad.on \in BOOLEAN /\ kad.lookups \subseteq Peer /\ mdns.on \in BOOLEAN

LEMMA ModesKeepType ==
  ASSUME NodeInv, RestInv, GoPassive \/ (\E ok \in BOOLEAN : GoActive(ok)) \/ UNCHANGED modes
  PROVE  ModesTyped'
<1>1. CASE GoPassive
  BY <1>1 DEF GoPassive, KadOff, ModesTyped, RestInv
<1>2. ASSUME NEW ok \in BOOLEAN, GoActive(ok) PROVE ModesTyped'
  <2>1. KadOn.on = TRUE /\ KadOn.lookups \subseteq Peer /\ KadOn = [on |-> TRUE, table |-> KadOn.table, lookups |-> KadOn.lookups]
    BY DEF KadOn, KadOff, RestInv, NodeInv, KadInv
  <2>2. kad'.on = TRUE /\ kad'.lookups \subseteq Peer
    BY <1>2, <2>1 DEF GoActive, RestInv
  <2>3. mdns'.on = (mdns.on \/ ok)
    BY <1>2 DEF GoActive, NodeInv, MdnsInv
  <2>4. (mdns.on \/ ok) \in BOOLEAN
    OBVIOUS
  <2> QED
    BY <1>2, <2>2, <2>3, <2>4 DEF GoActive, ModesTyped
<1>3. CASE UNCHANGED modes
  BY <1>3 DEF modes, ModesTyped, RestInv
<1> QED
  BY <1>1, <1>2, <1>3


LEMMA OpenTyped ==
  ASSUME NodeInv, RestInv, NEW c \in ConnId, NEW a \in Addr,
         NEW attempts \in [Addr -> 0..MaxDials], Opened(c, a, attempts)
  PROVE  RestInv'
<1> DEFINE p == AddrPeer[a]
           v == AddConnection(peers, p, c, a)
           missing == p \in target_peers /\ ~AllTargetsConnected(v)
<1>1. PICK refused \in Refusals, ok \in MdnsStarts(missing) :
        /\ \/ p \notin target_peers /\ UNCHANGED modes
           \/ p \in target_peers /\ ~missing /\ GoPassive
           \/ missing /\ GoActive(ok)
        /\ IF ok THEN Settle(v, p, refused, attempts, RelayOf[a]) ELSE GiveUp(v, attempts)
  BY DEF Opened
<1>2. UNCHANGED <<target_peers, relay_client>>
  BY DEF Opened
<1>3. ok \in BOOLEAN
  BY <1>1 DEF MdnsStarts
<1> HIDE DEF p, v, missing
<1>4. dialing' \in [Addr -> 0..MaxDials] /\ closing' \subseteq ConnId
  BY <1>1, SettleTyped
<1>5. ModesTyped'
  BY <1>1, <1>3, ModesKeepType
<1> QED
  BY <1>2, <1>4, <1>5 DEF ModesTyped, RestInv

LEMMA CloseTyped ==
  ASSUME NodeInv, RestInv, NEW c \in ConnId, ConnectionClosed(c) PROVE RestInv'
<1> DEFINE p == AddrPeer[link[c]]
           v == RemoveConnection(peers, p, c)
           lost == p \in target_peers /\ ~IsConnected(v, p)
<1>1. PICK refused \in Refusals, ok \in MdnsStarts(lost) :
        /\ (~lost /\ UNCHANGED modes) \/ (lost /\ GoActive(ok))
        /\ IF ok THEN Settle(v, p, refused, dialing, NoPeer) ELSE GiveUp(v, dialing)
  BY DEF ConnectionClosed
<1>2. /\ UNCHANGED target_peers
      /\ relay_client' = relay_client \/
         relay_client' = [asked |-> relay_client.asked \ {p}, held |-> relay_client.held \ {p}]
  BY DEF ConnectionClosed
<1>3. ok \in BOOLEAN
  BY <1>1 DEF MdnsStarts
<1> HIDE DEF p, v, lost
<1>4. dialing' \in [Addr -> 0..MaxDials] /\ closing' \subseteq ConnId
  BY <1>1, SettleTyped DEF RestInv
<1>5. ModesTyped'
  BY <1>1, <1>3, ModesKeepType
<1>6. relay_client' \in [asked : SUBSET Peer, held : SUBSET Peer]
  BY <1>2 DEF RestInv
<1> QED
  BY <1>2, <1>4, <1>5, <1>6 DEF ModesTyped, RestInv

LEMMA AddTyped ==
  ASSUME NodeInv, RestInv, NEW a \in Addr, on_add_address(a)
  PROVE  /\ dialing' \in [Addr -> 0..MaxDials] /\ closing' \subseteq ConnId
         /\ kad'.on = kad.on /\ kad'.lookups = kad.lookups
         /\ UNCHANGED <<relay_client, target_peers, active_mode>>
<1>1. PICK refused \in Refusals :
        /\ Do(Added(peers, a, refused), dialing) /\ Close(Added(peers, a, refused).close)
        /\ kad' = [kad EXCEPT !.table = TableWith(a)]
  BY DEF on_add_address
<1>2. kad'.on = kad.on /\ kad'.lookups = kad.lookups
  BY <1>1 DEF NodeInv, KadInv
<1>3. UNCHANGED <<relay_client, target_peers, active_mode>>
  BY DEF on_add_address, relays
<1> QED
  BY <1>1, <1>2, <1>3, DoDials, ClosingTyped DEF RestInv

LEMMA IdentifyTyped == ASSUME NodeInv, RestInv, IdentifyReceived PROVE RestInv'
<1>1. PICK c \in ConnId, a \in HeardAddrs \cup {NoAddr}, refused \in Refusals :
        /\ link[c] # NoAddr
        /\ LET p == AddrPeer[link[c]]
               v == SetProtocols(peers, p, p \in HopPeers)
               o == IF a = NoAddr THEN Outcome(v) ELSE Added(v, a, refused)
           IN  Do(o, dialing) /\ Close(o.close)
        /\ kad' = IF a = NoAddr THEN kad ELSE [kad EXCEPT !.table = TableWith(a)]
  BY DEF IdentifyReceived
<1>2. UNCHANGED <<target_peers, active_mode, mdns>>
  BY DEF IdentifyReceived
<1>3. dialing' \in [Addr -> 0..MaxDials] /\ closing' \subseteq ConnId
  BY <1>1, DoDials, ClosingTyped DEF RestInv
<1>4. kad'.on = kad.on /\ kad'.lookups = kad.lookups
  BY <1>1 DEF NodeInv, KadInv
<1>5. \E p \in Peer, asks \in BOOLEAN :
        relay_client' = [relay_client EXCEPT !.asked = IF asks THEN @ \cup {p} ELSE @]
  <2>1. \E i \in ConnId : link[i] # NoAddr /\ \E asks \in BOOLEAN :
          relay_client' = [relay_client EXCEPT !.asked = IF asks THEN @ \cup {AddrPeer[link[i]]} ELSE @]
    BY DEF IdentifyReceived
  <2> QED
    BY <2>1, NetworkAssumption DEF NodeInv, ViewInv
<1>6. relay_client' \in [asked : SUBSET Peer, held : SUBSET Peer]
  BY <1>5 DEF RestInv
<1> QED
  BY <1>2, <1>3, <1>4, <1>6 DEF RestInv

\* The RPCs.
LEMMA RpcTyped == ASSUME NodeInv, RestInv, Rpc PROVE RestInv'
<1>1. ASSUME NEW enabled \in BOOLEAN, set_mdns_enabled(enabled) PROVE RestInv'
  <2>1. mdns'.on \in BOOLEAN
    <3>1. CASE mdns' = [on |-> FALSE, seen |-> {}]
      BY <3>1
    <3>2. ASSUME NEW ok, mdns' = [mdns EXCEPT !.on = @ \/ ok] PROVE mdns'.on \in BOOLEAN
      <4>1. mdns'.on = (mdns.on \/ ok)
        BY <3>2 DEF NodeInv, MdnsInv
      <4>2. (mdns.on \/ ok) \in BOOLEAN
        OBVIOUS
      <4> QED
        BY <4>1, <4>2
    <3> QED
      BY <1>1, <3>1, <3>2 DEF set_mdns_enabled
  <2> QED
    BY <1>1, <2>1 DEF set_mdns_enabled, program, RestInv
<1>2. ASSUME NEW enabled \in BOOLEAN, set_kad_enabled(enabled) PROVE RestInv'
  BY <1>2 DEF set_kad_enabled, KadOn, KadOff, program, RestInv, NodeInv, KadInv
<1>3. ASSUME NEW t \in Peer, kad_find_peer(t) PROVE RestInv'
  BY <1>3 DEF kad_find_peer, program, RestInv, NodeInv, KadInv
<1>4. ASSUME NEW t \in Peer, add_target_peer(t) \/ remove_target_peer(t) PROVE RestInv'
  BY <1>4 DEF add_target_peer, remove_target_peer, relays, RestInv
<1>5. ASSUME NEW a \in Addr, dial(a) PROVE RestInv'
  <2>1. dialing' \in [Addr -> 0..MaxDials]
    BY <1>5, NetworkAssumption DEF dial, RestInv
  <2> QED
    BY <1>5, <2>1 DEF dial, program, RestInv
<1> QED
  BY <1>1, <1>2, <1>3, <1>4, <1>5 DEF Rpc

LEMMA RestStep == ASSUME NodeInv, RestInv, [Next]_vars PROVE RestInv'
<1>1. CASE MdnsDiscovered
  <2>1. PICK a \in Addr : on_add_address(a) /\ mdns' = [mdns EXCEPT !.seen = @ \cup {a}]
    BY <1>1, NetworkAssumption DEF MdnsDiscovered
  <2>2. mdns'.on = mdns.on
    BY <2>1 DEF NodeInv, MdnsInv
  <2> QED
    BY <2>1, <2>2, AddTyped DEF RestInv
<1>2. CASE NewExternalAddrOfPeer \/ KadFoundPeer
  <2>1. PICK a \in Addr : on_add_address(a) /\ UNCHANGED mdns
    BY <1>2, NetworkAssumption DEF NewExternalAddrOfPeer, KadFoundPeer
  <2> QED
    BY <2>1, AddTyped DEF RestInv
<1>3. CASE MdnsExpired
  <2>1. PICK a \in mdns.seen, refused \in Refusals :
          LET o == Reconcile(RemoveAddress(peers, AddrPeer[a], a), AddrPeer[a], refused)
          IN  /\ Do(o, dialing) /\ Close(o.close)
              /\ kad' = [kad EXCEPT !.table = TableWithout(a)]
              /\ mdns' = [mdns EXCEPT !.seen = @ \ {a}]
    BY <1>3 DEF MdnsExpired
  <2>2. dialing' \in [Addr -> 0..MaxDials] /\ closing' \subseteq ConnId
    BY <2>1, DoDials, ClosingTyped DEF RestInv
  <2>3. kad'.on = kad.on /\ kad'.lookups = kad.lookups /\ mdns'.on = mdns.on
    BY <2>1 DEF NodeInv, KadInv, MdnsInv
  <2> QED
    BY <1>3, <2>2, <2>3 DEF MdnsExpired, relays, RestInv
<1>4. CASE KadLookupEnds
  BY <1>4 DEF KadLookupEnds, program, RestInv, NodeInv, KadInv
<1>5. ASSUME NEW a \in Addr, DialSucceeds(a) PROVE RestInv'
  <2>1. NextId \in ConnId
    BY <1>5 DEF DialSucceeds, NextId, FreeIds
  <2>2. [dialing EXCEPT ![a] = @ - 1] \in [Addr -> 0..MaxDials]
    BY <1>5, NetworkAssumption DEF DialSucceeds, RestInv
  <2> QED
    BY <1>5, <2>1, <2>2, OpenTyped DEF DialSucceeds
<1>6. CASE PeerConnects
  <2>1. PICK a \in InboundAddrs : Opened(NextId, a, dialing)
    BY <1>6 DEF PeerConnects
  <2>2. FreeIds # {}
    <3>1. Cardinality(FreeIds) > Spare /\ Spare \in Nat
      BY <1>6, NetworkAssumption DEF PeerConnects
    <3> QED
      BY <3>1, FS_EmptySet
  <2>3. NextId \in ConnId /\ a \in Addr
    BY <2>2, NetworkAssumption DEF NextId, FreeIds
  <2> QED
    BY <2>1, <2>3, OpenTyped DEF RestInv
<1>7. ASSUME NEW a \in Addr, OutgoingConnectionError(a) PROVE RestInv'
  <2>1. dialing' \in [Addr -> 0..MaxDials]
    BY <1>7, NetworkAssumption DEF OutgoingConnectionError, RestInv
  <2> QED
    BY <1>7, <2>1 DEF OutgoingConnectionError, program, RestInv
<1>8. CASE ReservationReqAccepted
  <2>1. PICK c \in ConnId :
          /\ link[c] # NoAddr
          /\ relay_client' = [relay_client EXCEPT !.held = @ \cup {AddrPeer[link[c]]}]
    BY <1>8 DEF ReservationReqAccepted
  <2>2. AddrPeer[link[c]] \in Peer
    BY <2>1, NetworkAssumption DEF NodeInv, ViewInv
  <2>3. relay_client' \in [asked : SUBSET Peer, held : SUBSET Peer]
    BY <2>1, <2>2 DEF RestInv
  <2>4. closing' \subseteq ConnId
    BY <1>8, ClosingTyped DEF ReservationReqAccepted
  <2> QED
    BY <1>8, <2>3, <2>4 DEF ReservationReqAccepted, RestInv
<1>9. CASE Ping \/ Tick \/ UNCHANGED vars
  BY <1>9 DEF Ping, Tick, vars, program, swarm, RestInv
<1> QED
  BY <1>1, <1>2, <1>3, <1>4, <1>5, <1>6, <1>7, <1>8, <1>9, IdentifyTyped, CloseTyped, RpcTyped
     DEF Next, SwarmEvent

\* The types of the node's variables, the soundness of its view, and a queue of
\* relays without repetition.
THEOREM TypeCorrect == Spec => []TypeOK
<1>1. Init => RestInv
  BY NetworkAssumption DEF Init, RestInv, KadOff
<1>2. NodeInv /\ RestInv /\ [Next]_vars => RestInv'
  BY RestStep
<1>3. NodeInv /\ QueueInv /\ RestInv => TypeOK
  BY DEF NodeInv, ViewInv, KadInv, MdnsInv, QueueInv, RestInv, TypeOK
<1> QED
  BY <1>1, <1>2, <1>3, NodeInvariant, QueueInvariant, PTL DEF Spec

===============================================================================
