--------------------------- MODULE SavedNetworkChecks ---------------------------
(***************************************************************************)
(* What the node is meant to do, and the fairness under which it does it.  *)
(***************************************************************************)
EXTENDS SavedNetwork

\* The event loop polls the swarm again and again, and the swarm brings every
\* attempt to an end, closes what it was told to close and ends every lookup.
\* Nothing is assumed about the other peers, about RPCs or about addresses.
\* For attempts and closes the enabling condition is written out: it is what
\* WF_vars says, but TLC is slow to find out whether such large steps are enabled.
MayEnd(a) == running /\ dialing[a] > 0 /\ Reachable(a) /\ FreeIds # {}

Fairness ==
  /\ \A a \in Addr :
       \/ []<>~MayEnd(a)
       \/ []<><<DialSucceeds(a) \/ OutgoingConnectionError(a)>>_vars
  /\ \A c \in ConnId :
       \/ []<>~(running /\ link[c] # NoAddr /\ c \in closing)
       \/ []<><<ConnectionClosed(c)>>_vars
  /\ WF_vars(KadLookupEnds)
  /\ WF_vars(Tick)

FairSpec == Spec /\ Fairness

Known(p) == DOMAIN AddressesOf(peers, p)

LinksOf(p) == {c \in ConnId : link[c] # NoAddr /\ AddrPeer[link[c]] = p}

Attempts(p) == {a \in Addr : AddrPeer[a] = p /\ dialing[a] > 0}

\* No attempt is under way for p and none of its connections is closing.
Quiet(p) == Attempts(p) = {} /\ LinksOf(p) \cap closing = {}

----------------------------------------------------------------------------
(* Safety *)

\* The view is sound (NetworkView) whatever the handlers do to it, the queue of
\* relays has no repetition, and the rest has its type.
TypeOK ==
  /\ SoundView(peers)
  /\ reserved \in Seq(Peer) /\ IsInjective(reserved)
  /\ in_use \subseteq Peer /\ target_peers \subseteq Peer
  /\ running \in BOOLEAN /\ active_mode \in BOOLEAN
  /\ kad \in [on : BOOLEAN, table : SUBSET Addr, lookups : SUBSET Peer]
  /\ mdns \in [on : BOOLEAN, seen : SUBSET Addr]
  /\ dialing \in [Addr -> 0..MaxDials]
  /\ link \in [ConnId -> Addr \cup {NoAddr}] /\ closing \subseteq ConnId
  /\ relay_client \in [asked : SUBSET Peer, held : SUBSET Peer]

\* The view never counts a connection that the swarm does not have at that very
\* address, so "connected" is never an illusion left over from a handler that
\* gave up early or from an address that came back (mod.rs:265-322).
NoPhantom ==
  \A p \in DOMAIN peers : \A a \in Known(p) :
    \A c \in peers[p].addresses[a].active_connections : link[c] = a /\ AddrPeer[a] = p

\* "All active connections currently using this remote addr" (view.rs:73): every
\* open connection is listed under its address.
TracksAll ==
  \A c \in ConnId : link[c] # NoAddr => IsConnectedOver(peers, AddrPeer[link[c]], link[c])
                                        /\ c \in ConnsOf(peers, AddrPeer[link[c]])

\* An address with a connection has no failure on record: only addresses that
\* are down are ever dialled and marked, and a success clears the mark. So a
\* connected address can only lose first place to one that ranks better
\* (view.rs:197, 300-305; mod.rs:373-378, 410-416).
ConnectedIsHealthy ==
  \A p \in DOMAIN peers : \A a \in Known(p) :
    IsUp(peers[p].addresses[a]) => peers[p].addresses[a].err_count = 0

\* Of the addresses that the program gave to Kademlia none is left there when the
\* view has dropped it, across switching it off and on (mod.rs:248-263).  What
\* libp2p puts into its table by itself is not the program's and not in kad.table.
TableWithinView == kad.table \subseteq UNION {Known(p) : p \in DOMAIN peers}

\* The recursion of reconcile overflows the stack only when a peer without a
\* connection has nothing but addresses that cool down (mod.rs:370-379).
StopsOnlyWithNothingLeft ==
  ~running => \E p \in DOMAIN peers :
    /\ Known(p) # {} /\ ~IsConnected(peers, p)
    /\ \A a \in Known(p) : is_in_cooldown(peers[p].addresses[a])

\* In passive mode every target is connected (README.md:11-13; mod.rs:276-316).
ActiveWhenTargetMissing ==
  ~active_mode => \A t \in target_peers : IsConnected(peers, t)

\* As long as a peer has an address and no connection, an attempt to reach it is
\* under way: no interleaving of closes, expiries and late successes leaves a
\* known peer alone (mod.rs:340-379 and its callers).
NeverIdle ==
  \A p \in DOMAIN peers :
    Known(p) # {} /\ ~IsConnected(peers, p) => Attempts(p) # {}

\* When nothing is under way between us and a peer that we lead, whatever
\* connections the view has for it run over the best address (mod.rs:329).
SettledOnBest ==
  \A p \in DOMAIN peers \cap Leads :
    Quiet(p) /\ IsConnected(peers, p) =>
      ConnsOf(peers, p) = peers[p].addresses[Best(peers, p)].active_connections

\* "Keep all in-use relays + max_relays spare capacity" (relay_manager.rs:67): after
\* any handler there are no more reservations than that, and no more than max_relays
\* of the reserved relays are spare, however requests and grants are interleaved,
\* as long as mDNS starts (RelayMachine!SpareBound says what holds if it does not).
SparesBounded ==
  /\ Len(reserved) <= Capacity(in_use)
  /\ Cardinality(Range(reserved) \ in_use) <= MaxRelays

\* "Never prune a relay that's actively carrying traffic" (relay_manager.rs:68): what
\* prune_relays disconnects carries none of the connections the view has.  This is
\* about circuits whose address names the relay; of an inbound one the node does
\* not learn which relay carries it (mod.rs:543).
PruneSparesCarriers ==
  [][\A r \in Range(reserved) \ Range(reserved') :
       \A c \in ConnId : link'[c] # NoAddr /\ RelayOf[link'[c]] = r =>
         c \notin ConnsOf(peers', AddrPeer[link'[c]])]_vars

----------------------------------------------------------------------------
(* Liveness *)

\* A peer with an address does not stay without a connection for ever
\* (mod.rs:370-379).
Reconnects ==
  \A p \in Peer : []<>(Known(p) = {} \/ IsConnected(peers, p))

\* With a peer that we lead we end up, again and again, on the best address we
\* know of (mod.rs:252-253, 380-428).
Migrates ==
  \A p \in Leads : []<>(Known(p) = {} \/ IsConnectedOver(peers, p, Best(peers, p)))

----------------------------------------------------------------------------
(* What the documentation and the comments say, where the code does otherwise *)

\* "Ensure we keep at most one connection per peer, on the currently-best
\* address." (mod.rs:329)
AtMostOnePerPeer ==
  \A p \in Leads : Quiet(p) => Cardinality(LinksOf(p)) <= 1

\* "Active mode must be used when a node from target nodes is not connected to us,
\* in this mode, actively look on the DHT" (README.md:11-12): a target that is not
\* connected is looked for, again and again.
LooksForTargets ==
  \A p \in Peer :
    []<>(p \notin target_peers \/ IsConnected(peers, p) \/ p \in kad.lookups)
===============================================================================
