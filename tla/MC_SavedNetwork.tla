---------------------------- MODULE MC_SavedNetwork ----------------------------
(***************************************************************************)
(* Small nodes for TLC.  The addresses stand for multiaddresses of the     *)
(* kinds that meet in practice; their order, relay and dial filter are     *)
(* compared with what the operators of Multiaddr say of those.             *)
(***************************************************************************)
EXTENDS SavedNetworkChecks

CONSTANTS
  t, u, r, s,            \* two targets and two relays
  lan, wan, ll, via,     \* of t: private QUIC, public TCP, zoneless link-local,
                         \* and a circuit through r
  uwan,                  \* of u: public TCP
  rwan, swan             \* of the relays: public TCP

M == INSTANCE Multiaddr

C(proto, arg) == [proto |-> proto, arg |-> arg]
Number == [p \in {t, u, r, s} |-> CASE p = r -> 1 [] p = s -> 2 [] p = t -> 3 [] p = u -> 4]
Tcp(ip, p) == <<C("ip4", ip), C("tcp", 0), C("p2p", Number[p])>>
Circuit(ip, p) == Tcp(ip, p) \o <<C("p2p-circuit", 0), C("p2p", Number[t])>>

Wire == [a \in Addr |->
  CASE a = lan -> <<C("ip4", 49320), C("udp", 0), C("quic-v1", 0), C("p2p", 3)>>
    [] a = wan -> Tcp(2048, t)
    [] a = ll -> <<C("ip6", 65152), C("tcp", 0), C("p2p", 3)>>
    [] a = uwan -> Tcp(2049, u)
    [] a = rwan -> Tcp(2050, r)
    [] a = swan -> Tcp(2051, s)
    [] a = via -> Circuit(2050, r)]

\* The constants of the node for these addresses, as tables.
RankOf == [a \in Addr |->
  CASE a = lan -> 1 [] a = ll -> 2 [] a = wan -> 3 [] a = uwan -> 4
    [] a = rwan -> 5 [] a = swan -> 6 [] a = via -> 7]
RelayFor == [a \in Addr |-> IF a = via THEN r ELSE NoPeer]
SkippedAddrs == Addr \cap {ll}
PeerAt == [a \in Addr |->
  CASE a = uwan -> u [] a = rwan -> r [] a = swan -> s [] OTHER -> t]

\* The tables say of the addresses what the code's functions do.
ASSUME TablesAreTheCodes ==
  \A a \in Addr :
    /\ \A b \in Addr : RankOf[a] < RankOf[b] <=> M!SortsBefore(Wire[a], Wire[b])
    /\ a \in SkippedAddrs <=> M!should_skip_for_dial(Wire[a])
    /\ M!extract_relay_peer(Wire[a]) =
         IF RelayFor[a] = NoPeer THEN M!NoRelay ELSE Number[RelayFor[a]]
===============================================================================
