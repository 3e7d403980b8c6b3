----------------------------- MODULE SavedNetwork -----------------------------
(***************************************************************************)
(* One node: the event loop of src/network/mod.rs over the view            *)
(* (NetworkView, Reconcile) and the relay manager (RelayManager), with the *)
(* part of libp2p's swarm it drives.                                       *)
(*                                                                         *)
(* The loop takes one swarm event or one RPC at a time and runs its        *)
(* handler to the end, so every handler is one action here.  An event that *)
(* brings a list of addresses is taken as one event per address: the code  *)
(* calls on_add_address or on_remove_address for each in turn.             *)
(*                                                                         *)
(* What the swarm refuses to dial at once is not known to the program: it  *)
(* is one of Refusals in each handler.                                     *)
(***************************************************************************)
EXTENDS Reconcile, RelayManager

CONSTANTS
  NoPeer,         \* extract_relay_peer's None
  AddrPeer,       \* Addr -> the peer the address is reported for
  RelayOf,        \* Addr -> the relay its circuit goes through, or NoPeer
  Skipped,        \* the addresses should_skip_for_dial is true of
  MaxRtt,         \* Duration::MAX
  \* what happens around the node
  MdnsAddrs, HeardAddrs, KadAddrs, InboundAddrs, \* addresses by source
  HopPeers,       \* peers that announce the relay protocol
  DialsMayFail,   \* attempts to connect may fail
  LinksBreak,     \* connections may close without being told to
  Refusals,       \* sets of addresses the swarm may refuse to dial at once
  MdnsMayFail,    \* mdns::tokio::Behaviour::new may return an error
  Calls,          \* the RPCs in use, by name
  StartTargets,   \* peers added as targets before anything else
  MaxDials,       \* bound on the attempts under way for one address
  Spare           \* places for connections that only our attempts may take, so
                  \* that ConnId being finite does not keep them from succeeding

ASSUME NetworkAssumption ==
  /\ NoPeer \notin Peer
  /\ AddrPeer \in [Addr -> Peer] /\ RelayOf \in [Addr -> Peer \cup {NoPeer}]
  /\ IsFiniteSet(Peer)
  /\ HopPeers \subseteq Peer /\ StartTargets \subseteq Peer
  /\ MaxRtt \in Nat /\ \A t \in Rtt : t < MaxRtt
  /\ MaxDials \in Nat \ {0} /\ Spare \in Nat
  /\ Refusals \subseteq SUBSET Addr
  /\ MdnsAddrs \cup HeardAddrs \cup KadAddrs \cup InboundAddrs \subseteq Addr

VARIABLES
  (* the program *)
  running,       \* FALSE after a stack overflow
  peers,         \* view.peers
  reserved,      \* relay_manager.reserved
  in_use,        \* relay_manager.in_use
  target_peers,
  active_mode,
  (* behaviours and the swarm *)
  kad,           \* [on, table: addresses given to it, lookups: peers searched for]
  mdns,          \* [on, seen: addresses it has reported]
  dialing,       \* Addr -> attempts under way
  link,          \* ConnId -> remote address of the open connection, or NoAddr
  closing,       \* connections that were told to close
  relay_client   \* [asked, held: relays]

program == <<running, peers, reserved, in_use, target_peers, active_mode>>
swarm == <<kad, mdns, dialing, link, closing, relay_client>>
vars == <<program, swarm>>
modes == <<active_mode, kad, mdns>>
relays == <<reserved, in_use, relay_client>>

KadOff == [on |-> FALSE, table |-> {}, lookups |-> {}]

Init ==
  /\ running = TRUE
  /\ peers = [p \in {} |-> NewPeer]
  /\ reserved = <<>> /\ in_use = {}
  /\ target_peers = StartTargets
  /\ active_mode = TRUE
  /\ kad = KadOff
  /\ mdns = [on |-> TRUE, seen |-> {}]
  /\ dialing = [a \in Addr |-> 0]
  /\ link = [c \in ConnId |-> NoAddr]
  /\ closing = {}
  /\ relay_client = [asked |-> {}, held |-> {}]

\* The outcome takes effect, with the attempts under way as given.
Do(o, attempts) ==
  /\ running' = ~o.diverges
  /\ peers' = o.peers
  /\ dialing' = IF o.dial # NoAddr /\ attempts[o.dial] < MaxDials
                THEN [attempts EXCEPT ![o.dial] = @ + 1] ELSE attempts

\* Mutant of Close: connections stay.
CloseNone(S) == closing' = closing \cap {c \in ConnId : link'[c] # NoAddr}

\* close_connection: of those in S, the connections that are still there.
Close(S) == closing' = (closing \cup S) \cap {c \in ConnId : link'[c] # NoAddr}

----------------------------------------------------------------------------
(* update_relay_state and the two steps around it *)

RelayRtts(v) == [r \in Peer |-> IF r \in DOMAIN v THEN v[r].rtt ELSE MaxRtt]

recompute_in_use(v) ==
  {RelayOf[a] : a \in {b \in Addr : \E p \in DOMAIN v : IsConnectedOver(v, p, b)}} \ {NoPeer}

\* Mutant of Updated: prunes before in_use is computed anew.
UpdatedStale(queue, v) == prune_relays(queue, in_use, RelayRtts(v))

\* The queue after update_relay_state.
Updated(queue, v) == prune_relays(queue, recompute_in_use(v), RelayRtts(v))

\* The connections of the relays that are in queue and no longer in new.
Disconnected(queue, new) ==
  {c \in ConnId : link'[c] # NoAddr
                  /\ AddrPeer[link'[c]] \in Range(queue) \ Range(new)}

----------------------------------------------------------------------------
(* set_active_mode *)

KadOn == IF kad.on THEN kad ELSE [KadOff EXCEPT !.on = TRUE]

\* Whether enabling mDNS succeeds, if it is enabled at all.
MdnsStarts(enabled) == IF enabled /\ MdnsMayFail /\ ~mdns.on THEN BOOLEAN ELSE {TRUE}

\* active_mode and Kademlia are set before mDNS can fail; the lookups come after.
GoActive(ok) ==
  /\ active_mode' = TRUE
  /\ kad' = [KadOn EXCEPT !.lookups = IF ok THEN @ \cup target_peers ELSE @]
  /\ mdns' = [mdns EXCEPT !.on = @ \/ ok]

GoPassive == active_mode' = FALSE /\ kad' = KadOff /\ UNCHANGED mdns

----------------------------------------------------------------------------
(* Addresses that come and go *)

\* Mutant of Added: reconcile is not called.
AddedOnly(v, a, refused) ==
  IF a \in Skipped THEN Outcome(v) ELSE Outcome(AddAddress(v, AddrPeer[a], a))

\* on_add_address, as what it does to the view and asks of the swarm.
Added(v, a, refused) ==
  LET p == AddrPeer[a]
  IN  IF a \in Skipped THEN Outcome(v)
      ELSE IF IsNewAddress(v, p, a) THEN Reconcile(AddAddress(v, p, a), p, refused)
      ELSE Outcome(AddAddress(v, p, a))

\* A new address goes into Kademlia's table if there is one.
TableWith(a) ==
  IF kad.on /\ a \notin Skipped /\ IsNewAddress(peers, AddrPeer[a], a)
  THEN kad.table \cup {a} ELSE kad.table

\* Mutant of TableWithout: Kademlia is not told.
TableKept(a) == kad.table

\* A removed address goes out of the table.
TableWithout(a) == kad.table \ {a}

on_add_address(a) ==
  \E refused \in Refusals :
    LET o == Added(peers, a, refused)
    IN  /\ Do(o, dialing)
        /\ UNCHANGED link /\ Close(o.close)
        /\ kad' = [kad EXCEPT !.table = TableWith(a)]
        /\ UNCHANGED <<relays, target_peers, active_mode>>

MdnsDiscovered ==
  /\ running /\ mdns.on
  /\ \E a \in MdnsAddrs :
       /\ on_add_address(a)
       /\ mdns' = [mdns EXCEPT !.seen = @ \cup {a}]

\* on_remove_address: the relay state is not brought up to date.
MdnsExpired ==
  /\ running /\ mdns.on
  /\ \E a \in mdns.seen, refused \in Refusals :
       LET o == Reconcile(RemoveAddress(peers, AddrPeer[a], a), AddrPeer[a], refused)
       IN  /\ Do(o, dialing)
           /\ UNCHANGED link /\ Close(o.close)
           /\ kad' = [kad EXCEPT !.table = TableWithout(a)]
           /\ mdns' = [mdns EXCEPT !.seen = @ \ {a}]
  /\ UNCHANGED <<relays, target_peers, active_mode>>

\* An address the swarm learned through another behaviour.
NewExternalAddrOfPeer ==
  /\ running
  /\ \E a \in HeardAddrs : on_add_address(a)
  /\ UNCHANGED mdns

\* GetClosestPeers brings a peer with an address, and ends.
KadFoundPeer ==
  /\ running /\ kad.lookups # {}
  /\ \E a \in KadAddrs : on_add_address(a)
  /\ UNCHANGED mdns

KadLookupEnds ==
  /\ running
  /\ \E t \in kad.lookups : kad' = [kad EXCEPT !.lookups = @ \ {t}]
  /\ UNCHANGED <<program, mdns, dialing, link, closing, relay_client>>

(***************************************************************************)
(* Identify: the peer's protocols, one of its listen addresses or none,    *)
(* and for a relay with room the request for a reservation, through its    *)
(* best address unless that is itself a circuit.                           *)
(***************************************************************************)
IdentifyReceived ==
  /\ running
  /\ \E c \in ConnId, a \in HeardAddrs \cup {NoAddr}, refused \in Refusals :
       /\ link[c] # NoAddr
       /\ a # NoAddr => AddrPeer[a] = AddrPeer[link[c]]
       /\ LET p    == AddrPeer[link[c]]
              hop  == p \in HopPeers
              v    == SetProtocols(peers, p, hop)
              o    == IF a = NoAddr THEN Outcome(v) ELSE Added(v, a, refused)
              best == Best(o.peers, p)
              asks == /\ hop /\ can_reserve(reserved, in_use, p)
                      /\ best # NoAddr /\ RelayOf[best] = NoPeer
          IN  /\ Do(o, dialing)
              /\ UNCHANGED link /\ Close(o.close)
              /\ kad' = IF a = NoAddr THEN kad ELSE [kad EXCEPT !.table = TableWith(a)]
              /\ relay_client' = [relay_client EXCEPT !.asked = IF asks THEN @ \cup {p} ELSE @]
  /\ UNCHANGED <<reserved, in_use, target_peers, active_mode, mdns>>

----------------------------------------------------------------------------
(* Connections *)

\* reconcile, update_relay_state and, for a connection over a relay, register
\* and update_relay_state again.
Settle(v, p, refused, attempts, relay) ==
  LET o    == Reconcile(v, p, refused)
      once == Updated(reserved, o.peers)
      new  == IF relay = NoPeer THEN once ELSE Updated(register(once, relay), o.peers)
  IN  /\ Do(o, attempts)
      /\ reserved' = new
      /\ in_use' = recompute_in_use(o.peers)
      /\ Close(o.close \cup Disconnected(reserved, new))

\* Mutant of GiveUp: the error comes before the view is updated.
GiveUpEarly(v, attempts) ==
  /\ dialing' = attempts
  /\ Close({})
  /\ UNCHANGED <<running, peers, reserved, in_use>>

\* An error ends the handler before that.
GiveUp(v, attempts) ==
  /\ peers' = v /\ dialing' = attempts
  /\ Close({})
  /\ UNCHANGED <<running, reserved, in_use>>

\* Mutant of AllTargetsConnected: any will do.
AnyTargetConnected(v) == \E t \in target_peers : IsConnected(v, t)

AllTargetsConnected(v) == \A t \in target_peers : IsConnected(v, t)

\* ConnectionEstablished: connection c to address a.
Opened(c, a, attempts) ==
  LET p       == AddrPeer[a]
      v       == AddConnection(peers, p, c, a)
      missing == p \in target_peers /\ ~AllTargetsConnected(v)
  IN  /\ link' = [link EXCEPT ![c] = a]
      /\ \E refused \in Refusals, ok \in MdnsStarts(missing) :
           /\ \/ p \notin target_peers /\ UNCHANGED modes
              \/ p \in target_peers /\ ~missing /\ GoPassive
              \/ missing /\ GoActive(ok)
           /\ IF ok THEN Settle(v, p, refused, attempts, RelayOf[a]) ELSE GiveUp(v, attempts)
      /\ UNCHANGED <<target_peers, relay_client>>

\* A circuit is opened over a connection to its relay.
Reachable(a) ==
  RelayOf[a] # NoPeer => \E c \in ConnId : link[c] # NoAddr /\ AddrPeer[link[c]] = RelayOf[a]

\* The places in the table of connections are handed out in a fixed order.
FreeIds == {c \in ConnId : link[c] = NoAddr}
NextId == CHOOSE c \in FreeIds : TRUE

DialSucceeds(a) ==
  /\ running
  /\ dialing[a] > 0 /\ Reachable(a)
  /\ FreeIds # {}
  /\ Opened(NextId, a, [dialing EXCEPT ![a] = @ - 1])

PeerConnects ==
  /\ running
  /\ Cardinality(FreeIds) > Spare
  /\ \E a \in InboundAddrs : Opened(NextId, a, dialing)

\* Only printed: the view does not hear of it.
OutgoingConnectionError(a) ==
  /\ running
  /\ DialsMayFail /\ dialing[a] > 0
  /\ dialing' = [dialing EXCEPT ![a] = @ - 1]
  /\ UNCHANGED <<program, kad, mdns, link, closing, relay_client>>

ConnectionClosed(c) ==
  /\ running
  /\ link[c] # NoAddr /\ (LinksBreak \/ c \in closing)
  /\ link' = [link EXCEPT ![c] = NoAddr]
  /\ LET p    == AddrPeer[link[c]]
         v    == RemoveConnection(peers, p, c)
         lost == p \in target_peers /\ ~IsConnected(v, p)
     IN  /\ \E refused \in Refusals, ok \in MdnsStarts(lost) :
              /\ \/ ~lost /\ UNCHANGED modes
                 \/ lost /\ GoActive(ok)
              /\ IF ok THEN Settle(v, p, refused, dialing, NoPeer) ELSE GiveUp(v, dialing)
         /\ relay_client' =
              IF \E d \in ConnId : link'[d] # NoAddr /\ AddrPeer[link'[d]] = p
              THEN relay_client
              ELSE [asked |-> relay_client.asked \ {p}, held |-> relay_client.held \ {p}]
  /\ UNCHANGED target_peers

\* A reservation is granted or renewed over a connection to the relay.
ReservationReqAccepted ==
  /\ running
  /\ \E c \in ConnId :
       /\ link[c] # NoAddr
       /\ LET relay == AddrPeer[link[c]]
              new   == Updated(register(reserved, relay), peers)
          IN  /\ relay \in relay_client.asked \cup relay_client.held
              /\ relay_client' = [relay_client EXCEPT !.held = @ \cup {relay}]
              /\ reserved' = new
              /\ in_use' = recompute_in_use(peers)
              /\ UNCHANGED link
              /\ Close(Disconnected(Append(reserved, relay), new))
  /\ UNCHANGED <<running, peers, target_peers, active_mode, kad, mdns, dialing>>

Ping ==
  /\ running
  /\ \E c \in ConnId, t \in Rtt :
       link[c] # NoAddr /\ peers' = RecordRtt(peers, AddrPeer[link[c]], c, t)
  /\ UNCHANGED <<running, reserved, in_use, target_peers, active_mode, swarm>>

----------------------------------------------------------------------------
(* RPCs *)

set_mdns_enabled(enabled) ==
  /\ running /\ "set_mdns_enabled" \in Calls
  /\ IF enabled THEN \E ok \in MdnsStarts(TRUE) : mdns' = [mdns EXCEPT !.on = @ \/ ok]
                ELSE mdns' = [on |-> FALSE, seen |-> {}]
  /\ UNCHANGED <<program, kad, dialing, link, closing, relay_client>>

set_kad_enabled(enabled) ==
  /\ running /\ "set_kad_enabled" \in Calls
  /\ kad' = IF enabled THEN KadOn ELSE KadOff
  /\ UNCHANGED <<program, mdns, dialing, link, closing, relay_client>>

kad_find_peer(t) ==
  /\ running /\ "kad_find_peer" \in Calls
  /\ kad.on
  /\ kad' = [kad EXCEPT !.lookups = @ \cup {t}]
  /\ UNCHANGED <<program, mdns, dialing, link, closing, relay_client>>

dial(a) ==
  /\ running /\ "dial" \in Calls
  /\ dialing[a] < MaxDials
  /\ dialing' = [dialing EXCEPT ![a] = @ + 1]
  /\ UNCHANGED <<program, kad, mdns, link, closing, relay_client>>

add_target_peer(t) ==
  /\ running /\ "add_target_peer" \in Calls
  /\ target_peers' = target_peers \cup {t}
  /\ UNCHANGED <<running, peers, relays, active_mode, kad, mdns, dialing, link, closing>>

remove_target_peer(t) ==
  /\ running /\ "remove_target_peer" \in Calls
  /\ target_peers' = target_peers \ {t}
  /\ UNCHANGED <<running, peers, relays, active_mode, kad, mdns, dialing, link, closing>>

----------------------------------------------------------------------------
\* A second goes by.
Tick ==
  /\ running
  /\ peers' = Elapse(peers)
  /\ UNCHANGED <<running, reserved, in_use, target_peers, active_mode, swarm>>

SwarmEvent ==
  \/ MdnsDiscovered
  \/ MdnsExpired
  \/ NewExternalAddrOfPeer
  \/ KadFoundPeer
  \/ KadLookupEnds
  \/ IdentifyReceived
  \/ \E a \in Addr : DialSucceeds(a) \/ OutgoingConnectionError(a)
  \/ PeerConnects
  \/ \E c \in ConnId : ConnectionClosed(c)
  \/ ReservationReqAccepted
  \/ Ping

Rpc ==
  \/ \E enabled \in BOOLEAN : set_mdns_enabled(enabled) \/ set_kad_enabled(enabled)
  \/ \E t \in Peer : kad_find_peer(t) \/ add_target_peer(t) \/ remove_target_peer(t)
  \/ \E a \in Addr : dial(a)

Next == SwarmEvent \/ Rpc \/ Tick

Spec == Init /\ [][Next]_vars
===============================================================================
