----------------------- MODULE NetworkViewMachine_proofs -----------------------
(***************************************************************************)
(* The view on its own is sound in every reachable state, for any set of   *)
(* peers, addresses and connections.                                       *)
(***************************************************************************)
EXTENDS NetworkViewMachine, NetworkViewLemmas

Sound == SoundView(peers)

\* The inductive invariant: the type of the view together with the four facts
\* about each record.  HeadSound needs OnlyFailedCool (an address that is added
\* has not failed and so sorts by rank) and the first-of-list fact needs the
\* type; HeldOnce is what makes taking a connection off one address enough.
LEMMA SoundInvariant == Spec => []Sound
<1>1. Init => Sound
  BY DEF Init, Sound, SoundView, IsView
<1>2. Sound /\ [Next]_peers => Sound'
  <2> SUFFICES ASSUME SoundView(peers), [Next]_peers PROVE SoundView(peers')
    BY DEF Sound
  <2>1. CASE add_address
    BY <2>1, AddAddressSound DEF add_address
  <2>2. CASE remove_address
    BY <2>2, RemoveAddressSound DEF remove_address
  <2>3. CASE add_connection
    BY <2>3, AddConnectionSound, ConnPeerAssumption DEF add_connection
  <2>4. CASE remove_connection
    BY <2>4, RemoveConnectionSound DEF remove_connection
  <2>5. CASE mark_failure
    BY <2>5, MarkFailuresSound DEF mark_failure, MarkFailure
  <2>6. CASE set_protocols
    BY <2>6, SetProtocolsSound DEF set_protocols
  <2>7. CASE ping
    BY <2>7, RecordRttSound DEF ping
  <2>8. CASE elapse
    BY <2>8, ElapseSound DEF elapse
  <2>9. CASE UNCHANGED peers
    BY <2>9
  <2> QED
    BY <2>1, <2>2, <2>3, <2>4, <2>5, <2>6, <2>7, <2>8, <2>9 DEF Next
<1> QED
  BY <1>1, <1>2, PTL DEF Spec

\* The types, a head for every list, and cooldowns only after failures.
THEOREM TypeCorrect == Spec => []TypeOK
<1>1. Sound => TypeOK
  BY DEF Sound, SoundView, SoundPeer, TypeOK
<1> QED
  BY <1>1, SoundInvariant, PTL

\* No healthy address ever waits behind one that cools down or ranks lower.
THEOREM Healthy == Spec => []HealthyNeverBehind
<1>1. Sound => HealthyNeverBehind
  BY DEF Sound, SoundView, SoundPeer, HealthyNeverBehind
<1> QED
  BY <1>1, SoundInvariant, PTL

\* A connection counts for at most one address.
THEOREM HeldByOne == Spec => []OneAddressPerConnection
<1>1. Sound => OneAddressPerConnection
  BY DEF Sound, SoundView, SoundPeer, OneAddressPerConnection
<1> QED
  BY <1>1, SoundInvariant, PTL

\* A peer that loses its last address is forgotten, with its relay flag and its
\* round-trip time: only remove_address takes the last one, and it prunes
\* (view.rs:131-140, 237-250).
THEOREM PastIsForgotten == Spec => ForgetsThePast
<1>1. ASSUME SoundView(peers), [Next]_peers, NEW p \in Peer,
             p \in DOMAIN peers, DOMAIN peers[p].addresses # {}, DOMAIN AddressesOf(peers', p) = {}
      PROVE  Entry(peers', p) = NewPeer
  <2>1. PICK b : Has(peers, p, b)
    BY <1>1 DEF Has
  <2>2. ~Has(peers', p, b)
    BY <1>1 DEF Has, AddressesOf, Entry
  <2>3. PICK q \in Peer, a \in Addr : peers' = RemoveAddress(peers, q, a)
    <3>1. CASE add_address
      BY <2>1, <2>2, <3>1, AddAddressInherits DEF add_address
    <3>2. CASE add_connection
      BY <1>1, <2>1, <2>2, <3>2, AddConnectionAdds DEF add_connection
    <3>3. CASE remove_connection
      BY <1>1, <2>1, <2>2, <3>3, RemoveConnectionRemoves DEF remove_connection
    <3>4. CASE mark_failure
      BY <1>1, <2>1, <2>2, <3>4, MarkFailuresHas DEF mark_failure, MarkFailure
    <3>5. CASE set_protocols
      BY <1>1, <2>1, <2>2, <3>5, SetProtocolsInherits DEF set_protocols
    <3>6. CASE ping
      BY <1>1, <2>1, <2>2, <3>6, RecordRttInherits DEF ping
    <3>7. CASE elapse
      BY <1>1, <2>1, <2>2, <3>7, ElapseInherits DEF elapse
    <3> QED
      BY <1>1, <2>1, <2>2, <3>1, <3>2, <3>3, <3>4, <3>5, <3>6, <3>7 DEF Next, remove_address
  <2>4. CASE q # p
    BY <2>1, <2>2, <2>3, <2>4, OperationsOnlyAt, EntryTells DEF OnlyAt
  <2>5. CASE q = p
    <3> DEFINE w == Put(peers, p, Resort(peers[p], Drop(peers[p].addresses, a)))
    <3>1. peers' = PruneEmpty(w, p) /\ p \in DOMAIN w
      BY <1>1, <2>3, <2>5 DEF RemoveAddress, Put
    <3> HIDE DEF w
    <3>2. peers' = Drop(w, p)
      BY <1>1, <3>1 DEF PruneEmpty, AddressesOf, Entry
    <3> QED
      BY <3>2 DEF Drop, Entry
  <2> QED
    BY <2>4, <2>5
<1>2. Sound /\ [Next]_peers =>
        [\A p \in Peer :
           /\ p \in DOMAIN peers /\ DOMAIN peers[p].addresses # {}
           /\ DOMAIN AddressesOf(peers', p) = {}
           => Entry(peers', p) = NewPeer]_peers
  BY <1>1 DEF Sound
<1> QED
  BY <1>2, SoundInvariant, PTL DEF Spec, ForgetsThePast

\* However many addresses a peer has and whichever of them the swarm refuses,
\* reconcile's recursion ends exactly when the closed form says so, after marking
\* exactly the addresses it says, and dials the one it says (mod.rs:354-379).
\* The property counts calls up to the number of all addresses, which has to be
\* finite.
THEOREM RecursionIsClosed ==
  ASSUME IsFiniteSet(Addr) PROVE Spec => []ReconcileIsTheRecursion
<1>1. Sound => ReconcileIsTheRecursion
  <2> SUFFICES ASSUME Sound, NEW p \in DOMAIN peers, DOMAIN peers[p].addresses # {},
                      NEW refused \in SUBSET DOMAIN peers[p].addresses
               PROVE  LET sorted == AddAddress(peers, p, Best(peers, p))
                          after == AfterRefusals(sorted, p)
                          stops == {n \in DOMAIN after : Best(after[n], p) \notin refused}
                          o     == DialUntilAccepted(sorted, p, refused)
                          n     == CHOOSE k \in stops : \A m \in stops : k <= m
                      IN  IF stops = {} THEN o.diverges
                          ELSE /\ ~o.diverges
                               /\ o.dial = Best(after[n], p)
                               /\ o.peers = after[n]
    BY DEF ReconcileIsTheRecursion
  <2> DEFINE best == Best(peers, p)
             sorted == AddAddress(peers, p, best)
  <2>1. /\ p \in Peer /\ best \in DOMAIN peers[p].addresses /\ best \in Addr
        /\ AddressesOf(peers, p) = peers[p].addresses
    BY DEF Sound, SoundView, IsView, SoundPeer, HeadListed, IsPeerInfoExt, Best, AddressesOf,
           Entry
  <2>2. SoundView(sorted)
    BY <2>1, AddAddressSound DEF Sound
  <2>3. sorted = Put(peers, p, Resort(Entry(peers, p), peers[p].addresses))
    BY <2>1 DEF AddAddress
  <2>4. DOMAIN AddressesOf(sorted, p) # {} /\ Sorted(sorted, p)
    BY <2>3 DEF Put, Resort, AddressesOf, Best, Entry, Sorted
  <2> HIDE DEF sorted
  <2> QED
    BY <2>2, <2>4, RecursionIs DEF sorted
<1> QED
  BY <1>1, SoundInvariant, PTL
===============================================================================
