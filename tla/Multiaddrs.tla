------------------------------ MODULE Multiaddrs ------------------------------
(***************************************************************************)
(* Two addresses grown one component at a time (Multiaddr::push): every    *)
(* pair of addresses within the bounds is a reachable state, so that an    *)
(* invariant of this specification is a fact about the operators of        *)
(* Multiaddr.                                                              *)
(***************************************************************************)
EXTENDS Multiaddr

CONSTANTS
  Component,   \* the components the first address may be built from
  Kind,        \* the components the second address may be built from
  MaxLen,      \* bound on the length of the first address examined
  MaxOther     \* bound on the length of the second address examined

ASSUME ComponentAssumption == Component \subseteq Protocol /\ Kind \subseteq Protocol

VARIABLES addr, other

vars == <<addr, other>>

Init == addr = <<>> /\ other = <<>>

Push ==
  \/ /\ Len(addr) < MaxLen
     /\ \E c \in Component : addr' = Append(addr, c)
     /\ UNCHANGED other
  \/ /\ Len(other) < MaxOther
     /\ \E c \in Kind : other' = Append(other, c)
     /\ UNCHANGED addr

Spec == Init /\ [][Push]_vars

----------------------------------------------------------------------------
(* Reference definitions and properties *)

LastOf(S) == CHOOSE i \in S : \A j \in S : j <= i
Places(a, protos) == {i \in DOMAIN a : a[i].proto \in protos}

InRange(x, lo, hi) == lo <= x /\ x <= hi

\* Address blocks as ranges of the first 16 bits.
PrivateBlock(c) ==
  IF c.proto = "ip4"
  THEN \/ InRange(c.arg, 2560, 2815)      \* 10.0 - 10.255
       \/ InRange(c.arg, 44048, 44063)    \* 172.16 - 172.31
       \/ c.arg = 49320                   \* 192.168
  ELSE InRange(c.arg, 64512, 65023)       \* fc00 - fdff
LinkLocalBlock(c) ==
  IF c.proto = "ip4" THEN c.arg = 43518   \* 169.254
  ELSE InRange(c.arg, 65152, 65215)       \* fe80 - febf

\* classify_addr: the scope is that of the last IP component, whatever stands
\* between; an address without one (DNS) counts as public.
ScopeIsLastIp ==
  LET ips == Places(addr, {"ip4", "ip6"})
      c   == addr[LastOf(ips)]
  IN  classify_addr(addr).scope =
        IF ips = {} THEN "Public"
        ELSE IF PrivateBlock(c) THEN "PrivateLan"
        ELSE IF LinkLocalBlock(c) THEN "LinkLocal" ELSE "Public"

\* QUIC and the circuit override what stands before them and TCP only overrides a
\* worse class, so the last QUIC or circuit decides, up to a TCP after it.
TransportIsLastDecider ==
  LET deciders == Places(addr, {"quic", "quic-v1", "p2p-circuit"})
      d        == IF deciders = {} THEN 0 ELSE LastOf(deciders)
      tcpAfter == \E i \in Places(addr, {"tcp"}) : i > d
  IN  classify_addr(addr).transport =
        CASE d # 0 /\ addr[d].proto # "p2p-circuit" -> "Quic"
          [] tcpAfter /\ (d = 0 \/ addr[d].proto = "p2p-circuit") -> "Tcp"
          [] ~tcpAfter /\ d = 0 -> "Other"
          [] OTHER -> "Relay"

\* Two readings of "link-local" written apart in view.rs and mod.rs agree: an
\* address the dial filter rejects is, when it has a single IP component,
\* one that the ranking calls link-local.
SkippedIsLinkLocal ==
  /\ should_skip_for_dial(addr)
  /\ Cardinality(Places(addr, {"ip4", "ip6"})) = 1
  => classify_addr(addr).scope = "LinkLocal"

\* An address of any composition has the scope of its last IP component and the
\* transport of its last deciding one, at both ends of every block of addresses,
\* and the dial filter agrees with it (view.rs:329-369, mod.rs:86-98).
ClassifiesByTheLast == ScopeIsLastIp /\ TransportIsLastDecider /\ SkippedIsLinkLocal

\* The relay a circuit names is the nearest p2p component before the first
\* circuit; whenever one is found addr_is_relay agrees, which is what lets
\* recompute_in_use and the ConnectionEstablished handler, which test the two
\* in different ways, count the same relays (relay_manager.rs:49-62, mod.rs:538).
\* Listening through a relay at a direct address of it, with or without a /p2p
\* suffix already, produces an address that names that relay, so the connections
\* that come in over it are charged to the one that was asked (mod.rs:632-636).
CircuitsNameTheirRelay ==
  LET circuits == Places(addr, {"p2p-circuit"})
      first    == CHOOSE i \in circuits : \A j \in circuits : i <= j
      hops     == {i \in Places(addr, {"p2p"}) : i < first}
  IN  /\ extract_relay_peer(addr) =
           IF circuits = {} \/ hops = {} THEN NoRelay ELSE addr[LastOf(hops)].arg
      /\ extract_relay_peer(addr) # NoRelay => addr_is_relay(addr)
      /\ \A peer \in {c.arg : c \in {d \in Component : d.proto = "p2p"}} :
           ~addr_is_relay(addr) => extract_relay_peer(RelayListenAddr(addr, peer)) = peer

\* The sort key separates any two different addresses, in one direction only: the
\* order of addresses of one class never depends on which came first.  "Resolution
\* (IP over DNS)" (view.rs:312) is not a part of the key, and yet follows from the
\* byte order of the protocol codes.
KeySeparates ==
  /\ addr # other => (SortsBefore(addr, other) <=> ~SortsBefore(other, addr))
  /\ /\ addr # <<>> /\ other # <<>>
     /\ classify_addr(addr) = classify_addr(other)
     /\ Head(addr).proto \in {"ip4", "ip6"} /\ Head(other).proto = "dns"
     => SortsBefore(addr, other)
===============================================================================
