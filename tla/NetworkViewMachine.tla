--------------------------- MODULE NetworkViewMachine ---------------------------
(***************************************************************************)
(* The view of src/view.rs on its own: its public methods called in any    *)
(* order, with time going by in between.  Nothing is assumed about the     *)
(* caller except what libp2p's swarm guarantees: a connection belongs to   *)
(* one peer, which is part of its id here.                                 *)
(***************************************************************************)
EXTENDS Reconcile

CONSTANT
  ConnPeer     \* ConnId -> the peer at the other end

ASSUME ConnPeerAssumption == ConnPeer \in [ConnId -> Peer]

VARIABLE peers  \* NetworkView::peers

Init == peers = [p \in {} |-> NewPeer]

add_address == \E p \in Peer, a \in Addr : peers' = AddAddress(peers, p, a)

remove_address == \E p \in Peer, a \in Addr : peers' = RemoveAddress(peers, p, a)

\* The id may be known already, at this address or at another one.
add_connection ==
  \E c \in ConnId, a \in Addr : peers' = AddConnection(peers, ConnPeer[c], c, a)

remove_connection ==
  \E c \in ConnId : peers' = RemoveConnection(peers, ConnPeer[c], c)

mark_failure == \E p \in Peer, a \in Addr : peers' = MarkFailure(peers, p, a)

set_protocols == \E p \in Peer, hop \in BOOLEAN : peers' = SetProtocols(peers, p, hop)

ping == \E c \in ConnId, rtt \in Rtt : peers' = RecordRtt(peers, ConnPeer[c], c, rtt)

elapse == peers' = Elapse(peers)

Next ==
  \/ add_address
  \/ remove_address
  \/ add_connection
  \/ remove_connection
  \/ mark_failure
  \/ set_protocols
  \/ ping
  \/ elapse

Spec == Init /\ [][Next]_peers

----------------------------------------------------------------------------
(* Properties *)

\* Every field of the view keeps its type; index 0 of a peer's list is an address
\* of that list, which reconcile and the Identify handler rely on (mod.rs:336-341,
\* 626-630); and only an address that has failed since it last worked cools down
\* (view.rs:197, 291-304).
TypeOK ==
  /\ IsView(peers)
  /\ \A p \in DOMAIN peers : HeadListed(peers[p]) /\ OnlyFailedCool(peers[p])

\* Although nothing is sorted when a cooldown ends, an address that has not
\* failed since it last worked never waits behind one that cools down or that
\* ranks lower (view.rs:316-326 and every caller of it).
HealthyNeverBehind == \A p \in DOMAIN peers : HeadSound(peers[p])

\* Adding a connection again under another address moves it: at any time a
\* connection counts for one address only, so that closing it once takes it
\* out (view.rs:156-178, 206-211).
OneAddressPerConnection == \A p \in DOMAIN peers : HeldOnce(peers[p])

\* Losing its last address forgets the peer, so that the relay flag and the
\* round-trip time of an earlier life never come back with a new address: a
\* peer that reappears starts from the defaults (view.rs:237-250).
ForgetsThePast ==
  [][\A p \in Peer :
       /\ p \in DOMAIN peers /\ DOMAIN peers[p].addresses # {}
       /\ DOMAIN AddressesOf(peers', p) = {}
       => Entry(peers', p) = NewPeer]_peers

\* DialUntilAccepted says of every view that any calls can lead to what the
\* recursion does: it stops at the first view whose best address is not refused,
\* and has not stopped after as many calls as there are addresses when it never
\* will.  Every caller of reconcile has sorted the list before (mod.rs:370-379).
ReconcileIsTheRecursion ==
  \A p \in {q \in DOMAIN peers : DOMAIN peers[q].addresses # {} /\ ~IsConnected(peers, q)} :
    LET sorted == AddAddress(peers, p, Best(peers, p))
        after  == AfterRefusals(sorted, p)
    IN  \A refused \in SUBSET DOMAIN peers[p].addresses :
          LET stops == {n \in DOMAIN after : Best(after[n], p) \notin refused}
              o     == DialUntilAccepted(sorted, p, refused)
              n     == CHOOSE k \in stops : \A m \in stops : k <= m
          IN  IF stops = {} THEN o.diverges
              ELSE /\ ~o.diverges
                   /\ o.dial = Best(after[n], p)
                   /\ o.peers = after[n]
===============================================================================
