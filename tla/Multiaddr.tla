------------------------------- MODULE Multiaddr -------------------------------
(***************************************************************************)
(* The pure functions of src/view.rs, src/network/mod.rs and               *)
(* src/network/relay_manager.rs on multiaddresses: classification for the  *)
(* preference order, the dial filter, and the recognition of relayed       *)
(* addresses.                                                              *)
(*                                                                         *)
(* A multiaddress is a sequence of components [proto, arg].  The argument  *)
(* keeps only what the code looks at: for "ip4" and "ip6" the first 16     *)
(* bits of the IP address (two octets, or the first segment), for "p2p" a  *)
(* number that stands for the peer, and 0 for all others (ports, names and *)
(* zones are opaque to this code).                                         *)
(***************************************************************************)
EXTENDS Naturals, Sequences, SequencesExt

NoRelay == 0   \* extract_relay_peer's None; peers are numbered from 1

Protocols ==
  {"ip4", "ip6", "ip6zone", "dns", "tcp", "udp", "quic", "quic-v1", "p2p", "p2p-circuit"}

Protocol == [proto : Protocols, arg : Nat]

(***************************************************************************)
(* for p in addr.iter(): what the variables of a loop hold at the end.  A  *)
(* body maps each component to the function from what they hold before it  *)
(* to what they hold after it.                                             *)
(***************************************************************************)
Loop(body, start, addr) ==
  LET after[i \in 0..Len(addr)] == IF i = 0 THEN start ELSE body[addr[i]][after[i - 1]]
  IN  after[Len(addr)]

----------------------------------------------------------------------------
(* Ranking (view.rs) *)

TransportRank == [Quic |-> 0, Tcp |-> 1, Other |-> 2, Relay |-> 3]

ScopeRank == [PrivateLan |-> 0, LinkLocal |-> 1, Public |-> 2]

\* RFC1918 and 169.254/16, from the first two octets.
Ip4Scope(arg) ==
  LET o1 == arg \div 256
      o2 == arg % 256
  IN  IF \/ o1 = 10
         \/ o1 = 172 /\ o2 \in 16..31
         \/ o1 = 192 /\ o2 = 168
      THEN "PrivateLan"
      ELSE IF o1 = 169 /\ o2 = 254 THEN "LinkLocal" ELSE "Public"

\* Mutant of Ip6Scope: one bit too many in the link-local mask.
Ip6ScopeNarrow(seg0) ==
  IF seg0 \div 512 = 64512 \div 512 THEN "PrivateLan"
  ELSE IF seg0 \div 32 = 65152 \div 32 THEN "LinkLocal" ELSE "Public"

\* The masks 0xfe00 and 0xffc0 drop the low 9 and the low 6 bits.
Ip6Scope(seg0) ==
  IF seg0 \div 512 = 64512 \div 512 THEN "PrivateLan"        \* fc00::/7
  ELSE IF seg0 \div 64 = 65152 \div 64 THEN "LinkLocal"      \* fe80::/10
  ELSE "Public"

AddrClass == [scope : DOMAIN ScopeRank, transport : DOMAIN TransportRank]

\* The body of the loop of classify_addr.
ClassifyStep == [c \in Protocol |-> [acc \in AddrClass |->
  CASE c.proto = "ip4" -> [acc EXCEPT !.scope = Ip4Scope(c.arg)]
    [] c.proto = "ip6" -> [acc EXCEPT !.scope = Ip6Scope(c.arg)]
    [] c.proto \in {"quic", "quic-v1"} -> [acc EXCEPT !.transport = "Quic"]
    [] c.proto = "tcp" ->
         IF TransportRank[acc.transport] > TransportRank["Tcp"]
         THEN [acc EXCEPT !.transport = "Tcp"] ELSE acc
    [] c.proto = "p2p-circuit" -> [acc EXCEPT !.transport = "Relay"]
    [] OTHER -> acc]]

classify_addr(addr) == Loop(ClassifyStep, [scope |-> "Public", transport |-> "Other"], addr)

(***************************************************************************)
(* The sort key's third part is the address itself, compared as bytes: the *)
(* first byte of each component's protocol code decides between components *)
(* of different protocols (multiaddr crate).                               *)
(***************************************************************************)
CodeByte(proto) ==
  CASE proto = "ip4" -> 4      [] proto = "tcp" -> 6
    [] proto = "ip6" -> 41     [] proto = "ip6zone" -> 42
    [] proto = "dns" -> 53     [] proto = "udp" -> 145
    [] proto = "p2p-circuit" -> 162 [] proto = "p2p" -> 165
    [] proto = "quic" -> 204   [] proto = "quic-v1" -> 205

ComponentBefore(c, d) ==
  \/ CodeByte(c.proto) < CodeByte(d.proto)
  \/ c.proto = d.proto /\ c.arg < d.arg

\* Lexicographic order of two different addresses.
BytesBefore(a, b) ==
  \/ IsStrictPrefix(a, b)
  \/ \E i \in 1..(IF Len(a) < Len(b) THEN Len(a) ELSE Len(b)) :
       /\ ComponentBefore(a[i], b[i])
       /\ \A j \in 1..(i - 1) : a[j] = b[j]

\* Mutant of SortsBefore: a key without the address.
SortsByClass(a, b) ==
  LET ka == classify_addr(a)
      kb == classify_addr(b)
  IN  \/ ScopeRank[ka.scope] < ScopeRank[kb.scope]
      \/ /\ ka.scope = kb.scope
         /\ TransportRank[ka.transport] < TransportRank[kb.transport]

\* resort()'s key for two addresses that are both cooling down or both not.
SortsBefore(a, b) ==
  LET ka == classify_addr(a)
      kb == classify_addr(b)
  IN  \/ ScopeRank[ka.scope] < ScopeRank[kb.scope]
      \/ /\ ka.scope = kb.scope
         /\ TransportRank[ka.transport] < TransportRank[kb.transport]
      \/ ka = kb /\ BytesBefore(a, b)

----------------------------------------------------------------------------
(* Dial filter (mod.rs) *)

\* The body of the loop of should_skip_for_dial.
SkipStep == [c \in Protocol |-> [flags \in [ll : BOOLEAN, zone : BOOLEAN] |->
  CASE c.proto = "ip6" /\ c.arg \div 64 = 65152 \div 64 -> [flags EXCEPT !.ll = TRUE]
    [] c.proto = "ip6zone" -> [flags EXCEPT !.zone = TRUE]
    [] OTHER -> flags]]

\* IPv6 link-local without a zone cannot be dialled.
should_skip_for_dial(addr) ==
  LET flags == Loop(SkipStep, [ll |-> FALSE, zone |-> FALSE], addr)
  IN  flags.ll /\ ~flags.zone

----------------------------------------------------------------------------
(* Relayed addresses (relay_manager.rs) *)

addr_is_relay(addr) == \E i \in DOMAIN addr : addr[i].proto = "p2p-circuit"

\* Mutant of extract_relay_peer: the loop does not stop at the circuit.
last_peer(addr) ==
  LET hops == SelectSeq(addr, LAMBDA c : c.proto = "p2p")
  IN  IF addr_is_relay(addr) /\ hops # <<>> THEN Last(hops).arg ELSE NoRelay

\* The body of the loop of extract_relay_peer; done is its return.
RelayStep == [c \in Protocol |-> [s \in [last : Nat, done : BOOLEAN] |->
  CASE s.done -> s
    [] ~s.done /\ c.proto = "p2p" -> [s EXCEPT !.last = c.arg]
    [] ~s.done /\ c.proto = "p2p-circuit" -> [s EXCEPT !.done = TRUE]
    [] OTHER -> s]]

\* The loop returns at the first circuit with the last p2p seen before it, and
\* falls through to None when there is no circuit.
extract_relay_peer(addr) ==
  LET end == Loop(RelayStep, [last |-> NoRelay, done |-> FALSE], addr)
  IN  IF end.done THEN end.last ELSE NoRelay

\* The address the Identify handler listens on to reserve a slot at a relay.
RelayListenAddr(addr, peer) ==
  addr \o <<[proto |-> "p2p", arg |-> peer], [proto |-> "p2p-circuit", arg |-> 0]>>
===============================================================================
