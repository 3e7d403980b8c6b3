---------------------------- MODULE MC_Multiaddrs ----------------------------
(* Component alphabets for TLC: block boundaries on one side, one component of
   every kind on the other. *)
EXTENDS Multiaddrs

Of(proto, args) == {[proto |-> proto, arg |-> a] : a \in args}

Plain == UNION {Of(p, {0}) :
  p \in {"ip6zone", "tcp", "udp", "quic", "quic-v1", "p2p-circuit", "dns"}}

\* 10.0, 9.255, 172.15, 172.16, 172.31, 172.32, 192.167, 192.168, 169.254
BoundaryIp4 == Of("ip4", {2560, 2559, 44047, 44048, 44063, 44064, 49319, 49320, 43518})
\* fbff, fc00, fdff, fe00, fe7f, fe80, febf, fec0
BoundaryIp6 == Of("ip6", {64511, 64512, 65023, 65024, 65151, 65152, 65215, 65216})

Boundaries == BoundaryIp4 \cup BoundaryIp6 \cup Plain \cup Of("p2p", {1, 2})

\* What the second address is compared by: an IP address of each kind of scope
\* that the first one has, a name, and a transport.
Kinds == Of("ip4", {2560}) \cup Of("ip6", {8193}) \cup Of("dns", {0}) \cup Of("tcp", {0})
===============================================================================
