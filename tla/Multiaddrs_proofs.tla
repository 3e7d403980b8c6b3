--------------------------- MODULE Multiaddrs_proofs ---------------------------
(***************************************************************************)
(* What the loops over an address compute and how the sort key orders      *)
(* addresses, for addresses of any length.                                 *)
(***************************************************************************)
EXTENDS Multiaddrs, SequenceTheorems, FiniteSetTheorems, WellFoundedInduction, NaturalsInduction, TLAPS

----------------------------------------------------------------------------
(* Loops *)

\* Every non-empty set of naturals has a least element.
LEMMA LeastNat ==
  ASSUME NEW S, S \subseteq Nat, S # {}
  PROVE  \E m \in S : \A n \in S : m <= n
<1> DEFINE R == OpToRel(<, Nat)
<1>1. IsWellFoundedOn(R, Nat)
  BY NatLessThanWellFounded, Zenon
<1> HIDE DEF R
<1>2. PICK m \in S : \A n \in S : ~(<<n, m>> \in R)
  BY <1>1, WFMin, Zenon
<1>3. \A n \in S : ~(n < m)
  BY <1>2, Zenon DEF R, OpToRel
<1> QED
  BY <1>3

\* A set of positions up to n has a last one.
LEMMA LastNat ==
  ASSUME NEW n \in Nat, NEW S, S \subseteq 1..n, S # {}
  PROVE  LastOf(S) \in S /\ \A j \in S : j <= LastOf(S)
<1> DEFINE Above == {m \in Nat : \A j \in S : j <= m}
<1>1. Above \subseteq Nat /\ n \in Above
  OBVIOUS
<1>2. PICK m \in Above : \A k \in Above : m <= k
  BY <1>1, LeastNat
<1>3. m \in S
  <2> SUFFICES ASSUME m \notin S PROVE FALSE
    OBVIOUS
  <2>1. m \in Nat /\ \A j \in S : j <= m /\ j # m /\ j \in Nat /\ j >= 1
    BY <1>2
  <2>2. m >= 1 /\ m - 1 \in Nat
    <3>1. PICK j : j \in S
      OBVIOUS
    <3> QED
      BY <2>1, <3>1
  <2>3. ASSUME NEW j \in S PROVE j <= m - 1
    BY <2>1, <2>2
  <2>4. m - 1 \in Above /\ ~(m <= m - 1)
    BY <2>2, <2>3
  <2> HIDE DEF Above
  <2> QED
    BY <1>2, <2>4
<1>4. \E i \in S : \A j \in S : j <= i
  BY <1>2, <1>3
<1> QED
  BY <1>4 DEF LastOf

\* A loop runs its body once for every component.
LEMMA LoopRuns ==
  ASSUME NEW body, NEW start, NEW a, Len(a) \in Nat
  PROVE  \E after :
           /\ after[0] = start
           /\ \A i \in 1..Len(a) : after[i] = body[a[i]][after[i - 1]]
           /\ Loop(body, start, a) = after[Len(a)]
<1> DEFINE N == Len(a)
           Run(f, k) == f = [i \in 0..k |-> IF i = 0 THEN start ELSE body[a[i]][f[i - 1]]]
           Bad == {k \in Nat : ~\E f : Run(f, k)}
           after == CHOOSE f : Run(f, N)
<1>1. Bad = {}
  <2> SUFFICES ASSUME Bad # {} PROVE FALSE
    OBVIOUS
  <2>1. PICK k \in Bad : \A j \in Bad : k <= j
    <3>1. Bad \subseteq Nat
      OBVIOUS
    <3> HIDE DEF Bad
    <3> QED
      BY <3>1, LeastNat
  <2>2. k # 0
    <3>1. Run([i \in 0..0 |-> start], 0)
      OBVIOUS
    <3> QED
      BY <2>1, <3>1
  <2>3. PICK f : Run(f, k - 1)
    <3>1. k \in Nat /\ k - 1 \in Nat
      BY <2>1, <2>2
    <3>2. k - 1 \notin Bad
      <4> HIDE DEF Bad
      <4> QED
        BY <2>1, <3>1
    <3> HIDE DEF Run
    <3> QED
      BY <3>1, <3>2
  <2> DEFINE g == [i \in 0..k |-> IF i < k THEN f[i] ELSE body[a[k]][f[k - 1]]]
  <2>4. Run(g, k)
    <3>1. k \in Nat /\ k > 0
      BY <2>1, <2>2
    <3>2. \A i \in 0..k : g[i] = IF i = 0 THEN start ELSE body[a[i]][g[i - 1]]
      <4> SUFFICES ASSUME NEW i \in 0..k
                   PROVE  g[i] = IF i = 0 THEN start ELSE body[a[i]][g[i - 1]]
        OBVIOUS
      <4>1. g[i] = IF i < k THEN f[i] ELSE body[a[k]][f[k - 1]]
        OBVIOUS
      <4>2. i # 0 => i - 1 \in 0..k /\ i - 1 < k /\ g[i - 1] = f[i - 1]
        BY <3>1
      <4>3. i < k => f[i] = IF i = 0 THEN start ELSE body[a[i]][f[i - 1]]
        BY <2>3, <3>1
      <4>4. ~(i < k) => i = k /\ i # 0
        BY <3>1
      <4> HIDE DEF g
      <4> QED
        BY <4>1, <4>2, <4>3, <4>4
    <3>3. g = [i \in 0..k |-> g[i]]
      OBVIOUS
    <3> HIDE DEF g
    <3> QED
      BY <3>2, <3>3
  <2> QED
    BY <2>1, <2>4
<1>2. \E f : Run(f, N)
  BY <1>1
<1>3. Run(after, N)
  BY <1>2
<1>4. Loop(body, start, a) = after[N]
  BY DEF Loop
<1> HIDE DEF after
<1>5. after[0] = start /\ \A i \in 1..N : after[i] = body[a[i]][after[i - 1]]
  <2>1. N \in Nat
    OBVIOUS
  <2> HIDE DEF N
  <2>2. \A i \in 0..N : after[i] = IF i = 0 THEN start ELSE body[a[i]][after[i - 1]]
    BY <1>3
  <2> QED
    BY <2>1, <2>2
<1> QED
  BY <1>4, <1>5

\* An invariant of a loop, as the set of the positions with what the variables
\* may hold after that many components.
LEMMA LoopInvariant ==
  ASSUME NEW body, NEW start, NEW a, Len(a) \in Nat, NEW Inv,
         <<0, start>> \in Inv,
         \A i \in 1..Len(a) : \A x : <<i - 1, x>> \in Inv => <<i, body[a[i]][x]>> \in Inv
  PROVE  <<Len(a), Loop(body, start, a)>> \in Inv
<1>1. PICK after : /\ after[0] = start
                   /\ \A i \in 1..Len(a) : after[i] = body[a[i]][after[i - 1]]
                   /\ Loop(body, start, a) = after[Len(a)]
  BY LoopRuns
<1> DEFINE Bad == {i \in 0..Len(a) : <<i, after[i]>> \notin Inv}
<1>2. Bad = {}
  <2> SUFFICES ASSUME Bad # {} PROVE FALSE
    OBVIOUS
  <2>1. PICK k \in Bad : \A j \in Bad : k <= j
    <3>1. Bad \subseteq Nat
      OBVIOUS
    <3> HIDE DEF Bad
    <3> QED
      BY <3>1, LeastNat
  <2>2. k \in 1..Len(a)
    BY <1>1, <2>1
  <2>3. k - 1 \notin Bad
    <3>1. k - 1 < k
      BY <2>2
    <3> HIDE DEF Bad
    <3> QED
      BY <2>1, <2>2, <3>1
  <2>4. <<k - 1, after[k - 1]>> \in Inv
    BY <2>2, <2>3
  <2> QED
    BY <1>1, <2>1, <2>2, <2>4
<1> QED
  BY <1>1, <1>2

----------------------------------------------------------------------------
(* What a component stands for *)

IsIp(c) == c.proto \in {"ip4", "ip6"}

ScopeOf(c) ==
  IF PrivateBlock(c) THEN "PrivateLan" ELSE IF LinkLocalBlock(c) THEN "LinkLocal" ELSE "Public"

\* The patterns on the octets and the masks on the segment are blocks of addresses
\* (view.rs:336-354).
LEMMA ScopesAreBlocks ==
  ASSUME NEW c \in Protocol
  PROVE  /\ c.proto = "ip4" => Ip4Scope(c.arg) = ScopeOf(c)
         /\ c.proto = "ip6" => Ip6Scope(c.arg) = ScopeOf(c)
         /\ ScopeOf(c) \in DOMAIN ScopeRank
         /\ c.proto = "ip6" /\ c.arg \div 64 = 65152 \div 64 => ScopeOf(c) = "LinkLocal"
<1>1. c.arg \in Nat
  BY DEF Protocol
<1>2. c.proto = "ip4" => Ip4Scope(c.arg) = ScopeOf(c)
  <2> DEFINE n == c.arg
             o1 == n \div 256
             o2 == n % 256
  <2>1. o1 \in Nat /\ o2 \in 0..255 /\ n = 256 * o1 + o2
    BY <1>1
  <2> HIDE DEF n, o1, o2
  <2>2. /\ o1 = 10 <=> InRange(n, 2560, 2815)
        /\ o1 = 172 /\ o2 \in 16..31 <=> InRange(n, 44048, 44063)
        /\ o1 = 192 /\ o2 = 168 <=> n = 49320
        /\ o1 = 169 /\ o2 = 254 <=> n = 43518
    BY <2>1 DEF InRange
  <2> QED
    BY <2>2 DEF Ip4Scope, ScopeOf, PrivateBlock, LinkLocalBlock, n, o1, o2
<1>3. /\ c.arg \div 512 = 64512 \div 512 <=> InRange(c.arg, 64512, 65023)
      /\ c.arg \div 64 = 65152 \div 64 <=> InRange(c.arg, 65152, 65215)
  BY <1>1 DEF InRange
<1>4. c.proto = "ip6" => Ip6Scope(c.arg) = ScopeOf(c)
  BY <1>3 DEF Ip6Scope, ScopeOf, PrivateBlock, LinkLocalBlock
<1>5. c.proto = "ip6" /\ c.arg \div 64 = 65152 \div 64 => ScopeOf(c) = "LinkLocal"
  BY <1>1, <1>3 DEF ScopeOf, PrivateBlock, LinkLocalBlock, InRange
<1>6. ScopeOf(c) \in DOMAIN ScopeRank
  BY DEF ScopeOf, ScopeRank
<1> QED
  BY <1>2, <1>4, <1>5, <1>6

\* The transport after component c, where it was t before.
TransportAfter(c, t) ==
  IF c.proto \in {"quic", "quic-v1"} THEN "Quic"
  ELSE IF c.proto = "p2p-circuit" THEN "Relay"
  ELSE IF c.proto = "tcp" /\ t # "Quic" THEN "Tcp" ELSE t

\* What one turn of classify_addr's loop does (view.rs:333-367).
LEMMA ClassifyStepIs ==
  ASSUME NEW c \in Protocol, NEW acc \in AddrClass
  PROVE  LET new == ClassifyStep[c][acc]
         IN  /\ new \in AddrClass
             /\ new.scope = IF IsIp(c) THEN ScopeOf(c) ELSE acc.scope
             /\ new.transport = TransportAfter(c, acc.transport)
<1> DEFINE new == ClassifyStep[c][acc]
<1>1. new =
       CASE c.proto = "ip4" -> [acc EXCEPT !.scope = Ip4Scope(c.arg)]
         [] c.proto = "ip6" -> [acc EXCEPT !.scope = Ip6Scope(c.arg)]
         [] c.proto \in {"quic", "quic-v1"} -> [acc EXCEPT !.transport = "Quic"]
         [] c.proto = "tcp" ->
              IF TransportRank[acc.transport] > TransportRank["Tcp"]
              THEN [acc EXCEPT !.transport = "Tcp"] ELSE acc
         [] c.proto = "p2p-circuit" -> [acc EXCEPT !.transport = "Relay"]
         [] OTHER -> acc
  BY DEF ClassifyStep
<1> HIDE DEF new
<1>2. /\ acc = [scope |-> acc.scope, transport |-> acc.transport]
      /\ acc.scope \in {"PrivateLan", "LinkLocal", "Public"}
      /\ acc.transport \in {"Quic", "Tcp", "Other", "Relay"}
  BY DEF AddrClass, ScopeRank, TransportRank
<1>3. \A s \in {"PrivateLan", "LinkLocal", "Public"}, t \in {"Quic", "Tcp", "Other", "Relay"} :
        [scope |-> s, transport |-> t] \in AddrClass
  BY DEF AddrClass, ScopeRank, TransportRank
<1>4. ScopeOf(c) \in {"PrivateLan", "LinkLocal", "Public"}
  BY DEF ScopeOf
<1> DEFINE scope == IF IsIp(c) THEN ScopeOf(c) ELSE acc.scope
           transport == TransportAfter(c, acc.transport)
<1>5. new = [scope |-> scope, transport |-> transport]
  <2>1. CASE IsIp(c)
    <3>1. new = [acc EXCEPT !.scope = ScopeOf(c)]
      BY <1>1, <2>1, ScopesAreBlocks DEF IsIp
    <3> QED
      BY <1>2, <2>1, <3>1 DEF IsIp, TransportAfter
  <2>2. CASE c.proto \in {"quic", "quic-v1"}
    <3>1. new = [acc EXCEPT !.transport = "Quic"]
      BY <1>1, <2>2
    <3> QED
      BY <1>2, <2>2, <3>1 DEF IsIp, TransportAfter
  <2>3. CASE c.proto = "tcp"
    <3>1. new = IF acc.transport = "Quic" THEN acc ELSE [acc EXCEPT !.transport = "Tcp"]
      BY <1>1, <1>2, <2>3 DEF TransportRank
    <3> QED
      BY <1>2, <2>3, <3>1 DEF IsIp, TransportAfter
  <2>4. CASE c.proto = "p2p-circuit"
    <3>1. new = [acc EXCEPT !.transport = "Relay"]
      BY <1>1, <2>4
    <3> QED
      BY <1>2, <2>4, <3>1 DEF IsIp, TransportAfter
  <2>5. CASE c.proto \notin {"ip4", "ip6", "quic", "quic-v1", "tcp", "p2p-circuit"}
    <3>1. new = acc
      BY <1>1, <2>5
    <3> QED
      BY <1>2, <2>5, <3>1 DEF IsIp, TransportAfter
  <2> QED
    BY <2>1, <2>2, <2>3, <2>4, <2>5 DEF IsIp
<1>6. scope \in {"PrivateLan", "LinkLocal", "Public"}
  BY <1>2, <1>4
<1>7. transport \in {"Quic", "Tcp", "Other", "Relay"}
  BY <1>2 DEF TransportAfter
<1> HIDE DEF scope, transport
<1>8. new \in AddrClass /\ new.scope = scope /\ new.transport = transport
  BY <1>3, <1>5, <1>6, <1>7
<1> QED
  BY <1>8 DEF new, scope, transport

----------------------------------------------------------------------------
(* classify_addr *)

\* d is the last member of S up to i, or 0 where there is none.
LastSeen(d, S, i) == (d = 0 \/ (d \in S /\ d <= i)) /\ \A j \in S : j <= i => j <= d

LEMMA LastSeenIs ==
  ASSUME NEW n \in Nat, NEW S, S \subseteq 1..n, NEW d \in 0..n, LastSeen(d, S, n)
  PROVE  (d = 0 <=> S = {}) /\ (S # {} => d = LastOf(S))
<1>1. (d = 0 \/ d \in S) /\ \A j \in S : j <= d /\ j >= 1 /\ j \in Nat
  BY DEF LastSeen
<1>2. d = 0 <=> S = {}
  BY <1>1
<1>3. ASSUME S # {} PROVE d = LastOf(S)
  <2>1. LastOf(S) \in S /\ \A j \in S : j <= LastOf(S)
    BY <1>3, LastNat
  <2>2. d \in S
    BY <1>1, <1>2, <1>3
  <2>3. LastOf(S) <= d /\ d <= LastOf(S) /\ LastOf(S) \in Nat /\ d \in Nat
    BY <1>1, <2>1, <2>2
  <2> QED
    BY <2>3
<1> QED
  BY <1>2, <1>3

\* Going one position further.
LEMMA LastSeenNext ==
  ASSUME NEW n \in Nat, NEW S, S \subseteq 1..n, NEW i \in 1..n, NEW d \in 0..(i - 1),
         LastSeen(d, S, i - 1)
  PROVE  /\ i \in S => LastSeen(i, S, i)
         /\ i \notin S => LastSeen(d, S, i)
<1>1. \A j \in S : j \in Nat /\ j >= 1 /\ (j <= i => j <= i - 1 \/ j = i)
  OBVIOUS
<1> QED
  BY <1>1 DEF LastSeen

Ips(a) == Places(a, {"ip4", "ip6"})
Deciders(a) == Places(a, {"quic", "quic-v1", "p2p-circuit"})
Tcps(a) == Places(a, {"tcp"})

TransportSince(a, d, i) ==
  IF d # 0 /\ a[d].proto # "p2p-circuit" THEN "Quic"
  ELSE IF \E j \in Tcps(a) : d < j /\ j <= i THEN "Tcp"
  ELSE IF d = 0 THEN "Other" ELSE "Relay"

\* What the variables of the loop may hold after i components.
Classified(a, i, acc) ==
  /\ acc \in AddrClass
  /\ \E d \in 0..i : LastSeen(d, Ips(a), i) /\ acc.scope = IF d = 0 THEN "Public" ELSE ScopeOf(a[d])
  /\ \E d \in 0..i : LastSeen(d, Deciders(a), i) /\ acc.transport = TransportSince(a, d, i)

LEMMA PlacesAre ==
  ASSUME NEW a \in Seq(Protocol), NEW protos
  PROVE  /\ Places(a, protos) \subseteq 1..Len(a)
         /\ \A i \in 1..Len(a) : i \in Places(a, protos) <=> a[i].proto \in protos
         /\ \A i \in 1..Len(a) : a[i] \in Protocol
         /\ Len(a) \in Nat
  BY DEF Places

LEMMA ClassifiedNext ==
  ASSUME NEW a \in Seq(Protocol), NEW i \in 1..Len(a), NEW acc, Classified(a, i - 1, acc)
  PROVE  Classified(a, i, ClassifyStep[a[i]][acc])
<1> DEFINE c == a[i]
           new == ClassifyStep[c][acc]
<1>1. /\ c \in Protocol /\ Len(a) \in Nat
      /\ Ips(a) \subseteq 1..Len(a) /\ Deciders(a) \subseteq 1..Len(a) /\ Tcps(a) \subseteq 1..Len(a)
      /\ i \in Ips(a) <=> IsIp(c)
      /\ i \in Deciders(a) <=> c.proto \in {"quic", "quic-v1", "p2p-circuit"}
      /\ i \in Tcps(a) <=> c.proto = "tcp"
  BY PlacesAre DEF Ips, Deciders, Tcps, IsIp
<1>2. /\ new \in AddrClass
      /\ new.scope = IF IsIp(c) THEN ScopeOf(c) ELSE acc.scope
      /\ new.transport = TransportAfter(c, acc.transport)
  BY <1>1, ClassifyStepIs DEF Classified
<1> HIDE DEF new
<1>3. \E d \in 0..i : LastSeen(d, Ips(a), i) /\ new.scope = IF d = 0 THEN "Public" ELSE ScopeOf(a[d])
  <2>1. PICK d \in 0..(i - 1) :
          LastSeen(d, Ips(a), i - 1) /\ acc.scope = IF d = 0 THEN "Public" ELSE ScopeOf(a[d])
    BY DEF Classified
  <2>2. d \in 0..i /\ i \in 0..i /\ i # 0
    BY <1>1
  <2>3. /\ i \in Ips(a) => LastSeen(i, Ips(a), i)
        /\ i \notin Ips(a) => LastSeen(d, Ips(a), i)
    BY <1>1, <2>1, LastSeenNext
  <2> QED
    BY <1>1, <1>2, <2>1, <2>2, <2>3
<1>4. \E d \in 0..i : LastSeen(d, Deciders(a), i) /\ new.transport = TransportSince(a, d, i)
  <2>1. PICK d \in 0..(i - 1) :
          LastSeen(d, Deciders(a), i - 1) /\ acc.transport = TransportSince(a, d, i - 1)
    BY DEF Classified
  <2>2. d \in 0..i /\ i \in 0..i /\ i # 0
    BY <1>1
  <2>3. /\ i \in Deciders(a) => LastSeen(i, Deciders(a), i)
        /\ i \notin Deciders(a) => LastSeen(d, Deciders(a), i)
    BY <1>1, <2>1, LastSeenNext
  <2>4. CASE i \in Deciders(a)
    <3>1. ~\E j \in Tcps(a) : i < j /\ j <= i
      BY <1>1
    <3>2. new.transport = TransportSince(a, i, i)
      BY <1>1, <1>2, <2>2, <2>4, <3>1 DEF TransportAfter, TransportSince
    <3> QED
      BY <2>2, <2>3, <2>4, <3>2
  <2>5. CASE i \notin Deciders(a)
    <3>1. (\E j \in Tcps(a) : d < j /\ j <= i)
            <=> c.proto = "tcp" \/ \E j \in Tcps(a) : d < j /\ j <= i - 1
      <4>1. \A j \in Tcps(a) : j <= i <=> j <= i - 1 \/ j = i
        BY <1>1
      <4>2. d < i
        BY <1>1
      <4> QED
        BY <1>1, <4>1, <4>2
    <3>2. TransportSince(a, d, i) = IF c.proto = "tcp" /\ TransportSince(a, d, i - 1) # "Quic"
                                    THEN "Tcp" ELSE TransportSince(a, d, i - 1)
      BY <3>1 DEF TransportSince
    <3>3. new.transport = TransportSince(a, d, i)
      BY <1>1, <1>2, <2>1, <2>5, <3>2 DEF TransportAfter
    <3> QED
      BY <2>2, <2>3, <2>5, <3>3
  <2> QED
    BY <2>4, <2>5
<1>5. Classified(a, i, new)
  BY <1>2, <1>3, <1>4 DEF Classified
<1> QED
  BY <1>5 DEF new

\* classify_addr (view.rs:329-369) returns the scope of the last IP component and
\* the transport since the last deciding one.
LEMMA ClassifyIs ==
  ASSUME NEW a \in Seq(Protocol) PROVE Classified(a, Len(a), classify_addr(a))
<1> DEFINE start == [scope |-> "Public", transport |-> "Other"]
           N == Len(a)
           Inv == {s \in (0..N) \X AddrClass : Classified(a, s[1], s[2])}
<1>1. N \in Nat
  BY PlacesAre
<1>2. Classified(a, 0, start)
  <2>1. start \in AddrClass
    BY DEF AddrClass, ScopeRank, TransportRank
  <2>2. LastSeen(0, Ips(a), 0) /\ LastSeen(0, Deciders(a), 0)
    BY PlacesAre DEF LastSeen, Ips, Deciders
  <2>3. TransportSince(a, 0, 0) = "Other"
    BY PlacesAre DEF TransportSince, Tcps
  <2>4. 0 \in 0..0
    OBVIOUS
  <2> QED
    BY <2>1, <2>2, <2>3, <2>4 DEF Classified
<1>3. <<0, start>> \in Inv
  BY <1>1, <1>2 DEF Classified
<1>4. ASSUME NEW i \in 1..N, NEW x, <<i - 1, x>> \in Inv
      PROVE  <<i, ClassifyStep[a[i]][x]>> \in Inv
  <2>1. Classified(a, i - 1, x)
    BY <1>4
  <2>2. Classified(a, i, ClassifyStep[a[i]][x])
    BY <2>1, ClassifiedNext
  <2> QED
    BY <1>1, <2>2 DEF Classified
<1> HIDE DEF Inv, start
<1>5. <<N, Loop(ClassifyStep, start, a)>> \in Inv
  BY <1>1, <1>3, <1>4, LoopInvariant
<1>6. Classified(a, N, Loop(ClassifyStep, start, a))
  BY <1>5 DEF Inv
<1> QED
  BY <1>6 DEF classify_addr, start

----------------------------------------------------------------------------
(* should_skip_for_dial *)

IsUnzonable(c) == c.proto = "ip6" /\ c.arg \div 64 = 65152 \div 64

SkipFlags == [ll : BOOLEAN, zone : BOOLEAN]

LEMMA SkipStepIs ==
  ASSUME NEW c \in Protocol, NEW flags \in SkipFlags
  PROVE  /\ SkipStep[c][flags] \in SkipFlags
         /\ SkipStep[c][flags].ll <=> flags.ll \/ IsUnzonable(c)
<1>1. SkipStep[c][flags] =
        CASE c.proto = "ip6" /\ c.arg \div 64 = 65152 \div 64 -> [flags EXCEPT !.ll = TRUE]
          [] c.proto = "ip6zone" -> [flags EXCEPT !.zone = TRUE]
          [] OTHER -> flags
  BY DEF SkipStep, SkipFlags
<1>2. CASE IsUnzonable(c)
  <2>1. SkipStep[c][flags] = [flags EXCEPT !.ll = TRUE]
    BY <1>1, <1>2 DEF IsUnzonable
  <2> QED
    BY <1>2, <2>1 DEF SkipFlags
<1>3. CASE ~IsUnzonable(c) /\ c.proto = "ip6zone"
  <2>1. SkipStep[c][flags] = [flags EXCEPT !.zone = TRUE]
    BY <1>1, <1>3 DEF IsUnzonable
  <2> QED
    BY <1>3, <2>1 DEF SkipFlags
<1>4. CASE ~IsUnzonable(c) /\ c.proto # "ip6zone"
  <2>1. SkipStep[c][flags] = flags
    BY <1>1, <1>4 DEF IsUnzonable
  <2> QED
    BY <1>4, <2>1 DEF SkipFlags
<1> QED
  BY <1>2, <1>3, <1>4

\* The dial filter rejects only addresses with a link-local IPv6 component
\* (mod.rs:86-98).
LEMMA SkipMeans ==
  ASSUME NEW a \in Seq(Protocol), should_skip_for_dial(a)
  PROVE  \E j \in 1..Len(a) : IsUnzonable(a[j])
<1> DEFINE start == [ll |-> FALSE, zone |-> FALSE]
           N == Len(a)
           Seen(i, x) == x.ll => \E j \in 1..i : IsUnzonable(a[j])
           Inv == {s \in (0..N) \X SkipFlags : Seen(s[1], s[2])}
<1>1. N \in Nat /\ \A i \in 1..N : a[i] \in Protocol
  BY PlacesAre
<1>2. <<0, start>> \in Inv
  <2>1. start \in SkipFlags /\ ~start.ll
    BY DEF SkipFlags
  <2>2. Seen(0, start) /\ 0 \in 0..N
    BY <1>1, <2>1
  <2> HIDE DEF Seen, start
  <2> QED
    BY <2>1, <2>2
<1>3. ASSUME NEW i \in 1..N, NEW x, <<i - 1, x>> \in Inv
      PROVE  <<i, SkipStep[a[i]][x]>> \in Inv
  <2>1. x \in SkipFlags /\ Seen(i - 1, x)
    BY <1>3
  <2>2. SkipStep[a[i]][x] \in SkipFlags /\ (SkipStep[a[i]][x].ll <=> x.ll \/ IsUnzonable(a[i]))
    BY <1>1, <2>1, SkipStepIs
  <2>3. Seen(i, SkipStep[a[i]][x])
    BY <1>1, <2>1, <2>2
  <2> QED
    BY <1>1, <2>2, <2>3
<1> HIDE DEF Inv, start
<1>4. <<N, Loop(SkipStep, start, a)>> \in Inv
  BY <1>1, <1>2, <1>3, LoopInvariant
<1>5. Seen(N, Loop(SkipStep, start, a))
  BY <1>4 DEF Inv
<1> QED
  BY <1>5 DEF should_skip_for_dial, start

----------------------------------------------------------------------------
(* extract_relay_peer *)

Circuits(a) == Places(a, {"p2p-circuit"})
Hops(a) == Places(a, {"p2p"})

\* What the loop may hold after i components: e is where it stopped reading, the
\* first circuit or the last component.
RelayRead(a, i, s) ==
  /\ s \in [last : Nat, done : BOOLEAN]
  /\ \E e \in 0..i :
       /\ IF s.done THEN e + 1 \in Circuits(a) /\ e + 1 <= i ELSE e = i
       /\ \A j \in Circuits(a) : e < j
       /\ \E d \in 0..e : LastSeen(d, Hops(a), e) /\ s.last = IF d = 0 THEN NoRelay ELSE a[d].arg

LEMMA RelayStepIs ==
  ASSUME NEW c \in Protocol, NEW s \in [last : Nat, done : BOOLEAN]
  PROVE  /\ RelayStep[c][s] \in [last : Nat, done : BOOLEAN]
         /\ s.done => RelayStep[c][s] = s
         /\ ~s.done => /\ RelayStep[c][s].done <=> c.proto = "p2p-circuit"
                       /\ RelayStep[c][s].last = IF c.proto = "p2p" THEN c.arg ELSE s.last
<1>1. RelayStep[c][s] =
        CASE s.done -> s
          [] ~s.done /\ c.proto = "p2p" -> [s EXCEPT !.last = c.arg]
          [] ~s.done /\ c.proto = "p2p-circuit" -> [s EXCEPT !.done = TRUE]
          [] OTHER -> s
  BY DEF RelayStep
<1>2. CASE s.done
  <2>1. RelayStep[c][s] = s
    BY <1>1, <1>2
  <2> QED
    BY <1>2, <2>1
<1>3. CASE ~s.done /\ c.proto = "p2p"
  <2>1. RelayStep[c][s] = [s EXCEPT !.last = c.arg] /\ c.arg \in Nat
    BY <1>1, <1>3 DEF Protocol
  <2> QED
    BY <1>3, <2>1
<1>4. CASE ~s.done /\ c.proto = "p2p-circuit"
  <2>1. RelayStep[c][s] = [s EXCEPT !.done = TRUE]
    BY <1>1, <1>4
  <2> QED
    BY <1>4, <2>1
<1>5. CASE ~s.done /\ c.proto # "p2p" /\ c.proto # "p2p-circuit"
  <2>1. RelayStep[c][s] = s
    BY <1>1, <1>5
  <2> QED
    BY <1>5, <2>1
<1> QED
  BY <1>2, <1>3, <1>4, <1>5

LEMMA RelayReadNext ==
  ASSUME NEW a \in Seq(Protocol), NEW i \in 1..Len(a), NEW s, RelayRead(a, i - 1, s)
  PROVE  RelayRead(a, i, RelayStep[a[i]][s])
<1> DEFINE c == a[i]
           new == RelayStep[c][s]
<1>1. /\ c \in Protocol /\ Len(a) \in Nat
      /\ Circuits(a) \subseteq 1..Len(a) /\ Hops(a) \subseteq 1..Len(a)
      /\ i \in Circuits(a) <=> c.proto = "p2p-circuit"
      /\ i \in Hops(a) <=> c.proto = "p2p"
  BY PlacesAre DEF Circuits, Hops
<1>2. PICK e \in 0..(i - 1) :
        /\ IF s.done THEN e + 1 \in Circuits(a) /\ e + 1 <= i - 1 ELSE e = i - 1
        /\ \A j \in Circuits(a) : e < j
        /\ \E d \in 0..e : LastSeen(d, Hops(a), e) /\ s.last = IF d = 0 THEN NoRelay ELSE a[d].arg
  BY DEF RelayRead
<1>3. PICK d \in 0..e : LastSeen(d, Hops(a), e) /\ s.last = IF d = 0 THEN NoRelay ELSE a[d].arg
  BY <1>2
<1>4. /\ new \in [last : Nat, done : BOOLEAN]
      /\ s.done => new = s
      /\ ~s.done => /\ new.done <=> c.proto = "p2p-circuit"
                    /\ new.last = IF c.proto = "p2p" THEN c.arg ELSE s.last
  BY <1>1, RelayStepIs DEF RelayRead
<1> HIDE DEF new
<1>5. CASE s.done
  <2>1. e \in 0..i /\ e + 1 \in Circuits(a) /\ e + 1 <= i
    BY <1>1, <1>2, <1>5
  <2>2. new = s
    BY <1>4, <1>5
  <2>3. RelayRead(a, i, new)
    BY <1>2, <1>3, <1>4, <1>5, <2>1, <2>2 DEF RelayRead
  <2> QED
    BY <2>3 DEF new
<1>6. CASE ~s.done /\ c.proto = "p2p-circuit"
  <2>1. e \in 0..i /\ e + 1 \in Circuits(a) /\ e + 1 <= i
    BY <1>1, <1>2, <1>6
  <2>2. new.done /\ new.last = s.last
    BY <1>4, <1>6
  <2>3. RelayRead(a, i, new)
    BY <1>2, <1>3, <1>4, <2>1, <2>2 DEF RelayRead
  <2> QED
    BY <2>3 DEF new
<1>7. CASE ~s.done /\ c.proto # "p2p-circuit"
  <2>1. e = i - 1 /\ i \in 0..i
    BY <1>1, <1>2, <1>7
  <2>2. \A j \in Circuits(a) : i < j
    <3>1. \A j \in Circuits(a) : j \in Nat /\ j # i /\ i - 1 < j
      BY <1>1, <1>2, <1>7, <2>1
    <3> QED
      BY <3>1
  <2>3. ~new.done
    BY <1>4, <1>7
  <2>4. \E b \in 0..i : LastSeen(b, Hops(a), i) /\ new.last = IF b = 0 THEN NoRelay ELSE a[b].arg
    <3>1. d \in 0..(i - 1) /\ d \in 0..i /\ i # 0
      BY <1>1, <2>1
    <3>2. LastSeen(d, Hops(a), i - 1)
      BY <1>3, <2>1
    <3>3. /\ i \in Hops(a) => LastSeen(i, Hops(a), i)
          /\ i \notin Hops(a) => LastSeen(d, Hops(a), i)
      BY <1>1, <3>1, <3>2, LastSeenNext
    <3>4. CASE c.proto = "p2p"
      <4>1. new.last = a[i].arg
        BY <1>4, <1>7, <3>4
      <4> QED
        BY <1>1, <2>1, <3>1, <3>3, <3>4, <4>1
    <3>5. CASE c.proto # "p2p"
      <4>1. new.last = s.last
        BY <1>4, <1>7, <3>5
      <4> QED
        BY <1>1, <1>3, <3>1, <3>3, <3>5, <4>1
    <3> QED
      BY <3>4, <3>5
  <2>5. RelayRead(a, i, new)
    BY <1>4, <2>1, <2>2, <2>3, <2>4 DEF RelayRead
  <2> QED
    BY <2>5 DEF new
<1> QED
  BY <1>5, <1>6, <1>7

\* extract_relay_peer (relay_manager.rs:110-122) returns the last peer before the
\* first circuit, and none where there is no circuit or no peer before it.
LEMMA ExtractIs ==
  ASSUME NEW a \in Seq(Protocol)
  PROVE  LET first == CHOOSE i \in Circuits(a) : \A j \in Circuits(a) : i <= j
             hops  == {i \in Hops(a) : i < first}
         IN  /\ Circuits(a) = {} => extract_relay_peer(a) = NoRelay
             /\ Circuits(a) # {} =>
                  /\ first \in Circuits(a) /\ \A j \in Circuits(a) : first <= j
                  /\ extract_relay_peer(a) = IF hops = {} THEN NoRelay ELSE a[LastOf(hops)].arg
<1> DEFINE start == [last |-> NoRelay, done |-> FALSE]
           N == Len(a)
           State == [last : Nat, done : BOOLEAN]
           Inv == {s \in (0..N) \X State : RelayRead(a, s[1], s[2])}
           first == CHOOSE i \in Circuits(a) : \A j \in Circuits(a) : i <= j
           hops == {i \in Hops(a) : i < first}
           end == Loop(RelayStep, start, a)
<1>1. N \in Nat /\ Circuits(a) \subseteq 1..N /\ Hops(a) \subseteq 1..N
  BY PlacesAre DEF Circuits, Hops
<1>2. <<0, start>> \in Inv
  <2>1. start \in State /\ ~start.done /\ start.last = NoRelay
    BY DEF NoRelay
  <2>2. LastSeen(0, Hops(a), 0) /\ \A j \in Circuits(a) : 0 < j
    BY <1>1 DEF LastSeen
  <2>3. 0 \in 0..0 /\ 0 \in 0..N
    BY <1>1
  <2> HIDE DEF start
  <2>4. RelayRead(a, 0, start)
    BY <2>1, <2>2, <2>3 DEF RelayRead
  <2> QED
    BY <2>1, <2>3, <2>4
<1>3. ASSUME NEW i \in 1..N, NEW x, <<i - 1, x>> \in Inv
      PROVE  <<i, RelayStep[a[i]][x]>> \in Inv
  <2>1. RelayRead(a, i - 1, x)
    BY <1>3
  <2>2. RelayRead(a, i, RelayStep[a[i]][x])
    BY <2>1, RelayReadNext
  <2>3. RelayStep[a[i]][x] \in State /\ i \in 0..N
    BY <1>1, <2>2 DEF RelayRead
  <2> QED
    BY <2>2, <2>3
<1> HIDE DEF Inv, start
<1>4. <<N, Loop(RelayStep, start, a)>> \in Inv
  BY <1>1, <1>2, <1>3, LoopInvariant
<1>5. RelayRead(a, N, end)
  BY <1>4 DEF Inv
<1>6. extract_relay_peer(a) = IF end.done THEN end.last ELSE NoRelay
  BY DEF extract_relay_peer, start
<1> HIDE DEF end
<1>7. PICK e \in 0..N :
        /\ IF end.done THEN e + 1 \in Circuits(a) /\ e + 1 <= N ELSE e = N
        /\ \A j \in Circuits(a) : e < j
        /\ \E d \in 0..e : LastSeen(d, Hops(a), e) /\ end.last = IF d = 0 THEN NoRelay ELSE a[d].arg
  BY <1>5 DEF RelayRead
<1>8. end.done <=> Circuits(a) # {}
  BY <1>1, <1>7
<1>9. ASSUME Circuits(a) # {}
      PROVE  /\ first \in Circuits(a) /\ \A j \in Circuits(a) : first <= j
             /\ extract_relay_peer(a) = IF hops = {} THEN NoRelay ELSE a[LastOf(hops)].arg
  <2>1. e + 1 \in Circuits(a) /\ \A j \in Circuits(a) : j \in Nat /\ e + 1 <= j
    BY <1>1, <1>7, <1>8, <1>9
  <2>2. first \in Circuits(a) /\ \A j \in Circuits(a) : first <= j
    BY <2>1
  <2>3. first = e + 1
    BY <2>1, <2>2
  <2> HIDE DEF first
  <2>4. PICK d \in 0..e :
          LastSeen(d, Hops(a), e) /\ end.last = IF d = 0 THEN NoRelay ELSE a[d].arg
    BY <1>7
  <2>5. hops \subseteq 1..e /\ \A j \in Hops(a) : j \in hops <=> j <= e
    BY <1>1, <2>3
  <2>6. e \in Nat
    OBVIOUS
  <2>7. LastSeen(d, hops, e)
    BY <2>4, <2>5 DEF LastSeen
  <2> HIDE DEF hops
  <2>8. (d = 0 <=> hops = {}) /\ (hops # {} => d = LastOf(hops))
    BY <2>5, <2>6, <2>7, LastSeenIs
  <2>9. extract_relay_peer(a) = end.last
    BY <1>6, <1>8, <1>9
  <2> QED
    BY <2>2, <2>4, <2>8, <2>9
<1> QED
  BY <1>6, <1>8, <1>9

----------------------------------------------------------------------------
(* The properties of any address *)

LEMMA AddressesTyped == Spec => [](addr \in Seq(Protocol) /\ other \in Seq(Protocol))
<1> DEFINE Typed == addr \in Seq(Protocol) /\ other \in Seq(Protocol)
<1>1. Init => Typed
  BY DEF Init
<1>2. Typed /\ [Push]_vars => Typed'
  <2> SUFFICES ASSUME Typed, [Push]_vars PROVE Typed'
    OBVIOUS
  <2>1. \A c \in Component \cup Kind, a \in Seq(Protocol) : Append(a, c) \in Seq(Protocol)
    BY ComponentAssumption, AppendProperties
  <2>2. CASE UNCHANGED vars
    BY <2>2 DEF vars
  <2>3. CASE \E c \in Component : addr' = Append(addr, c) /\ UNCHANGED other
    BY <2>1, <2>3
  <2>4. CASE \E c \in Kind : other' = Append(other, c) /\ UNCHANGED addr
    BY <2>1, <2>4
  <2> QED
    BY <2>2, <2>3, <2>4 DEF Push
<1> QED
  BY <1>1, <1>2, PTL DEF Spec

\* The scope of any address is that of its last IP component, its transport that
\* of its last deciding component, and what the dial filter rejects is link-local
\* (view.rs:329-369, mod.rs:86-98).
THEOREM AddressesAreClassified == Spec => []ClassifiesByTheLast
<1> DEFINE Typed == addr \in Seq(Protocol) /\ other \in Seq(Protocol)
<1>1. Typed => ClassifiesByTheLast
  <2> SUFFICES ASSUME addr \in Seq(Protocol) PROVE ClassifiesByTheLast
    OBVIOUS
  <2> DEFINE N == Len(addr)
             class == classify_addr(addr)
  <2>1. /\ N \in Nat /\ Ips(addr) \subseteq 1..N /\ Deciders(addr) \subseteq 1..N
        /\ \A i \in 1..N : addr[i] \in Protocol /\ (i \in Ips(addr) <=> IsIp(addr[i]))
        /\ Tcps(addr) \subseteq 1..N
    BY PlacesAre DEF Ips, Deciders, Tcps, IsIp
  <2>2. PICK d \in 0..N :
          LastSeen(d, Ips(addr), N) /\ class.scope = IF d = 0 THEN "Public" ELSE ScopeOf(addr[d])
    BY ClassifyIs DEF Classified
  <2>3. (d = 0 <=> Ips(addr) = {}) /\ (Ips(addr) # {} => d = LastOf(Ips(addr)))
    BY <2>1, <2>2, LastSeenIs
  <2>4. ScopeIsLastIp
    BY <2>2, <2>3 DEF ScopeIsLastIp, Ips, ScopeOf
  <2>5. PICK e \in 0..N : LastSeen(e, Deciders(addr), N) /\ class.transport = TransportSince(addr, e, N)
    BY ClassifyIs DEF Classified
  <2>6. (e = 0 <=> Deciders(addr) = {}) /\ (Deciders(addr) # {} => e = LastOf(Deciders(addr)))
    BY <2>1, <2>5, LastSeenIs
  <2>7. TransportIsLastDecider
    <3> DEFINE deciders == Places(addr, {"quic", "quic-v1", "p2p-circuit"})
               last == IF deciders = {} THEN 0 ELSE LastOf(deciders)
               tcpAfter == \E i \in Places(addr, {"tcp"}) : i > last
    <3>1. last = e
      BY <2>6 DEF Deciders
    <3>2. tcpAfter <=> \E j \in Tcps(addr) : e < j /\ j <= N
      BY <2>1, <3>1 DEF Tcps
    <3> HIDE DEF tcpAfter, last
    <3>3. class.transport =
            CASE last # 0 /\ addr[last].proto # "p2p-circuit" -> "Quic"
              [] tcpAfter /\ (last = 0 \/ addr[last].proto = "p2p-circuit") -> "Tcp"
              [] ~tcpAfter /\ last = 0 -> "Other"
              [] OTHER -> "Relay"
      BY <2>5, <3>1, <3>2 DEF TransportSince
    <3> QED
      BY <3>3 DEF TransportIsLastDecider, tcpAfter, last
  <2>8. SkippedIsLinkLocal
    <3> SUFFICES ASSUME should_skip_for_dial(addr), Cardinality(Ips(addr)) = 1
                 PROVE  class.scope = "LinkLocal"
      BY DEF SkippedIsLinkLocal, Ips
    <3>1. PICK j \in 1..N : IsUnzonable(addr[j])
      BY SkipMeans
    <3>2. j \in Ips(addr)
      BY <2>1, <3>1 DEF IsUnzonable, IsIp
    <3>3. IsFiniteSet(Ips(addr))
      <4>1. 1 \in Int /\ N \in Int
        BY <2>1
      <4>2. IsFiniteSet(1..N)
        BY <4>1, FS_Interval
      <4> QED
        BY <2>1, <4>2, FS_Subset
    <3>4. Ips(addr) = {j}
      <4>1. PICK x : Ips(addr) = {x}
        BY <3>3, FS_Singleton
      <4> QED
        BY <3>2, <4>1
    <3>5. d = j
      BY <2>1, <2>2, <2>3, <3>2, <3>4 DEF LastSeen
    <3> QED
      BY <2>1, <2>2, <3>1, <3>5, ScopesAreBlocks DEF IsUnzonable
  <2> QED
    BY <2>4, <2>7, <2>8 DEF ClassifiesByTheLast
<1> QED
  BY <1>1, AddressesTyped, PTL

\* The relay charged with a connection is the one named nearest before the first
\* circuit, and an address listened on to reserve at a relay names that relay
\* (relay_manager.rs:110-122, mod.rs:632-636).
THEOREM CircuitsAreCharged == Spec => []CircuitsNameTheirRelay
<1> DEFINE Typed == addr \in Seq(Protocol) /\ other \in Seq(Protocol)
<1>1. ASSUME NEW a \in Seq(Protocol), ~addr_is_relay(a), NEW peer \in Nat
      PROVE  extract_relay_peer(RelayListenAddr(a, peer)) = peer
  <2> DEFINE hop == [proto |-> "p2p", arg |-> peer]
             circuit == [proto |-> "p2p-circuit", arg |-> 0]
             b == RelayListenAddr(a, peer)
             n == Len(a)
  <2>1. n \in Nat /\ hop \in Protocol /\ circuit \in Protocol
    BY DEF Protocol, Protocols
  <2>2. <<hop, circuit>> \in Seq(Protocol) /\ Len(<<hop, circuit>>) = 2
    BY <2>1
  <2>3. b = a \o <<hop, circuit>>
    BY DEF RelayListenAddr
  <2> HIDE DEF b, hop, circuit
  <2>4. /\ b \in Seq(Protocol) /\ Len(b) = n + 2
        /\ \A i \in 1..n : b[i] = a[i]
        /\ b[n + 1] = hop /\ b[n + 2] = circuit
    BY <2>1, <2>2, <2>3
  <2>5. \A i \in 1..n : a[i].proto # "p2p-circuit"
    BY <1>1 DEF addr_is_relay
  <2>6. Circuits(b) = {n + 2}
    <3>1. \A i \in 1..(n + 2) : i \in Circuits(b) <=> b[i].proto = "p2p-circuit"
      BY <2>4, PlacesAre DEF Circuits
    <3>2. Circuits(b) \subseteq 1..(n + 2)
      BY <2>4, PlacesAre DEF Circuits
    <3>3. \A i \in 1..(n + 2) : i \in 1..n \/ i = n + 1 \/ i = n + 2
      BY <2>1
    <3>4. b[n + 1].proto # "p2p-circuit" /\ b[n + 2].proto = "p2p-circuit"
      BY <2>4 DEF hop, circuit
    <3> QED
      BY <2>1, <2>4, <2>5, <3>1, <3>2, <3>3, <3>4
  <2> DEFINE first == CHOOSE i \in Circuits(b) : \A j \in Circuits(b) : i <= j
             hops == {i \in Hops(b) : i < first}
  <2>7. /\ first \in Circuits(b)
        /\ extract_relay_peer(b) = IF hops = {} THEN NoRelay ELSE b[LastOf(hops)].arg
    BY <2>4, <2>6, ExtractIs
  <2>8. first = n + 2
    BY <2>6, <2>7
  <2> HIDE DEF first
  <2>9. n + 1 \in hops /\ hops \subseteq 1..(n + 1)
    <3>1. \A i \in 1..(n + 2) : i \in Hops(b) <=> b[i].proto = "p2p"
      BY <2>4, PlacesAre DEF Hops
    <3>2. Hops(b) \subseteq 1..(n + 2)
      BY <2>4, PlacesAre DEF Hops
    <3>3. n + 1 \in 1..(n + 2) /\ n + 1 < n + 2
      BY <2>1
    <3>4. b[n + 1].proto = "p2p"
      BY <2>4 DEF hop
    <3> QED
      BY <2>1, <2>8, <3>1, <3>2, <3>3, <3>4
  <2> HIDE DEF hops
  <2>10. LastOf(hops) = n + 1
    <3>1. n + 1 \in Nat
      BY <2>1
    <3>2. LastOf(hops) \in hops /\ \A j \in hops : j <= LastOf(hops)
      BY <2>9, <3>1, LastNat
    <3>3. LastOf(hops) \in 1..(n + 1) /\ n + 1 <= LastOf(hops)
      BY <2>9, <3>2
    <3> QED
      BY <2>1, <3>3
  <2> QED
    BY <2>4, <2>7, <2>9, <2>10 DEF hop, b
<1>2. Typed => CircuitsNameTheirRelay
  <2> SUFFICES ASSUME addr \in Seq(Protocol) PROVE CircuitsNameTheirRelay
    OBVIOUS
  <2> DEFINE circuits == Places(addr, {"p2p-circuit"})
             first == CHOOSE i \in circuits : \A j \in circuits : i <= j
             hops == {i \in Places(addr, {"p2p"}) : i < first}
  <2>1. extract_relay_peer(addr) =
          IF circuits = {} \/ hops = {} THEN NoRelay ELSE addr[LastOf(hops)].arg
    BY ExtractIs DEF Circuits, Hops
  <2>2. circuits # {} => addr_is_relay(addr)
    BY DEF Places, addr_is_relay
  <2>3. extract_relay_peer(addr) # NoRelay => addr_is_relay(addr)
    BY <2>1, <2>2
  <2>4. \A peer \in {c.arg : c \in {d \in Component : d.proto = "p2p"}} :
          ~addr_is_relay(addr) => extract_relay_peer(RelayListenAddr(addr, peer)) = peer
    <3>1. \A c \in Component : c.arg \in Nat
      BY ComponentAssumption DEF Protocol
    <3> QED
      BY <1>1, <3>1
  <2> QED
    BY <2>1, <2>3, <2>4 DEF CircuitsNameTheirRelay
<1> QED
  BY <1>2, AddressesTyped, PTL

----------------------------------------------------------------------------
(* The sort key *)

LEMMA CodesDiffer ==
  ASSUME NEW p \in Protocols, NEW q \in Protocols
  PROVE  CodeByte(p) \in Nat /\ (CodeByte(p) = CodeByte(q) => p = q)
<1>1. /\ CodeByte("ip4") = 4 /\ CodeByte("tcp") = 6 /\ CodeByte("ip6") = 41
      /\ CodeByte("ip6zone") = 42 /\ CodeByte("dns") = 53 /\ CodeByte("udp") = 145
      /\ CodeByte("p2p-circuit") = 162 /\ CodeByte("p2p") = 165
      /\ CodeByte("quic") = 204 /\ CodeByte("quic-v1") = 205
  BY DEF CodeByte
<1> QED
  BY <1>1 DEF Protocols

\* Components are totally ordered by protocol and argument.
LEMMA ComponentsOrdered ==
  ASSUME NEW c \in Protocol, NEW d \in Protocol, NEW e \in Protocol
  PROVE  /\ ~ComponentBefore(c, c)
         /\ c # d => ComponentBefore(c, d) \/ ComponentBefore(d, c)
         /\ ComponentBefore(c, d) /\ ComponentBefore(d, e) => ComponentBefore(c, e)
<1>1. \A x \in {c, d, e} : x.proto \in Protocols /\ x.arg \in Nat /\ CodeByte(x.proto) \in Nat
  BY CodesDiffer DEF Protocol
<1>2. CodeByte(c.proto) = CodeByte(d.proto) => c.proto = d.proto
  BY <1>1, CodesDiffer
<1>3. c.proto = d.proto /\ c.arg = d.arg => c = d
  BY DEF Protocol
<1> QED
  BY <1>1, <1>2, <1>3 DEF ComponentBefore

\* a comes before b, and the two part at position i.
PartAt(a, b, i) ==
  /\ i <= Len(a) + 1
  /\ \A j \in 1..(i - 1) : a[j] = b[j]
  /\ i <= Len(a) => ComponentBefore(a[i], b[i])

LEMMA BytesBeforeIs ==
  ASSUME NEW a \in Seq(Protocol), NEW b \in Seq(Protocol)
  PROVE  BytesBefore(a, b) <=> \E i \in 1..Len(b) : PartAt(a, b, i)
<1>1. Len(a) \in Nat /\ Len(b) \in Nat
  OBVIOUS
<1>2. IsStrictPrefix(a, b) <=> Len(a) < Len(b) /\ \A j \in 1..Len(a) : a[j] = b[j]
  <2>1. ASSUME Len(a) <= Len(b)
        PROVE  SubSeq(a, 1, Len(a)) = SubSeq(b, 1, Len(a)) <=> \A j \in 1..Len(a) : a[j] = b[j]
    <3>1. SubSeq(a, 1, Len(a)) = [j \in 1..Len(a) |-> a[j]]
      BY <1>1
    <3>2. SubSeq(b, 1, Len(a)) = [j \in 1..Len(a) |-> b[j]]
      BY <1>1, <2>1
    <3> QED
      BY <3>1, <3>2
  <2>2. Len(a) = Len(b) /\ (\A j \in 1..Len(a) : a[j] = b[j]) => a = b
    BY SeqEqual
  <2>3. a = b => ~(Len(a) < Len(b))
    BY <1>1
  <2> QED
    BY <1>1, <2>1, <2>2, <2>3 DEF IsStrictPrefix, IsPrefix
<1> DEFINE n == IF Len(a) < Len(b) THEN Len(a) ELSE Len(b)
<1>3. BytesBefore(a, b) <=>
        \/ IsStrictPrefix(a, b)
        \/ \E i \in 1..n : ComponentBefore(a[i], b[i]) /\ \A j \in 1..(i - 1) : a[j] = b[j]
  BY DEF BytesBefore
<1>4. ASSUME BytesBefore(a, b) PROVE \E i \in 1..Len(b) : PartAt(a, b, i)
  <2>1. CASE IsStrictPrefix(a, b)
    <3>1. Len(a) + 1 \in 1..Len(b) /\ (Len(a) + 1) - 1 = Len(a) /\ ~(Len(a) + 1 <= Len(a))
      BY <1>1, <1>2, <2>1
    <3>2. PartAt(a, b, Len(a) + 1)
      BY <1>1, <1>2, <2>1, <3>1 DEF PartAt
    <3> QED
      BY <3>1, <3>2
  <2>2. CASE ~IsStrictPrefix(a, b)
    <3>1. PICK i \in 1..n : ComponentBefore(a[i], b[i]) /\ \A j \in 1..(i - 1) : a[j] = b[j]
      BY <1>3, <1>4, <2>2
    <3>2. i \in 1..Len(b) /\ i <= Len(a) + 1
      BY <1>1
    <3> QED
      BY <3>1, <3>2 DEF PartAt
  <2> QED
    BY <2>1, <2>2
<1>5. ASSUME NEW i \in 1..Len(b), PartAt(a, b, i) PROVE BytesBefore(a, b)
  <2>1. CASE i <= Len(a)
    <3>1. i \in 1..n
      BY <1>1, <2>1
    <3>2. ComponentBefore(a[i], b[i]) /\ \A j \in 1..(i - 1) : a[j] = b[j]
      BY <1>5, <2>1 DEF PartAt
    <3> QED
      BY <1>3, <3>1, <3>2
  <2>2. CASE ~(i <= Len(a))
    <3>1. i = Len(a) + 1 /\ i - 1 = Len(a) /\ Len(a) < Len(b)
      BY <1>1, <1>5, <2>2 DEF PartAt
    <3>2. \A j \in 1..Len(a) : a[j] = b[j]
      BY <1>5, <3>1 DEF PartAt
    <3> QED
      BY <1>2, <1>3, <3>1, <3>2
  <2> QED
    BY <2>1, <2>2
<1> QED
  BY <1>4, <1>5

\* The bytes order any addresses totally.
LEMMA BytesOrder ==
  ASSUME NEW a \in Seq(Protocol), NEW b \in Seq(Protocol), NEW c \in Seq(Protocol)
  PROVE  /\ ~BytesBefore(a, a)
         /\ a # b => BytesBefore(a, b) \/ BytesBefore(b, a)
         /\ BytesBefore(a, b) /\ BytesBefore(b, c) => BytesBefore(a, c)
<1>1. /\ Len(a) \in Nat /\ Len(b) \in Nat /\ Len(c) \in Nat
      /\ \A i \in 1..Len(a) : a[i] \in Protocol
      /\ \A i \in 1..Len(b) : b[i] \in Protocol
      /\ \A i \in 1..Len(c) : c[i] \in Protocol
  OBVIOUS
<1>2. ~BytesBefore(a, a)
  <2> SUFFICES ASSUME NEW i \in 1..Len(a), PartAt(a, a, i) PROVE FALSE
    BY BytesBeforeIs
  <2>1. i <= Len(a) /\ a[i] \in Protocol
    BY <1>1
  <2> QED
    BY <2>1, ComponentsOrdered DEF PartAt
<1>3. ASSUME a # b PROVE BytesBefore(a, b) \/ BytesBefore(b, a)
  <2> DEFINE n == IF Len(a) < Len(b) THEN Len(a) ELSE Len(b)
             D == {i \in 1..n : a[i] # b[i]}
  <2>1. n \in Nat /\ n <= Len(a) /\ n <= Len(b) /\ (n = Len(a) \/ n = Len(b))
    BY <1>1
  <2> HIDE DEF n
  <2>2. CASE D = {}
    <3>1. \A i \in 1..n : a[i] = b[i]
      BY <2>2
    <3>2. Len(a) # Len(b)
      <4> SUFFICES ASSUME Len(a) = Len(b) PROVE FALSE
        OBVIOUS
      <4>1. \A i \in 1..Len(a) : a[i] = b[i]
        BY <2>1, <3>1
      <4> QED
        BY <1>3, <4>1, SeqEqual
    <3>3. (n + 1) - 1 = n
      BY <2>1
    <3>4. CASE Len(a) < Len(b)
      <4>1. n = Len(a) /\ n + 1 \in 1..Len(b)
        BY <2>1, <3>4
      <4>2. PartAt(a, b, n + 1)
        BY <1>1, <3>1, <3>3, <4>1 DEF PartAt
      <4> QED
        BY <4>1, <4>2, BytesBeforeIs
    <3>5. CASE Len(b) < Len(a)
      <4>1. n = Len(b) /\ n + 1 \in 1..Len(a)
        BY <1>1, <2>1, <3>5
      <4>2. PartAt(b, a, n + 1)
        BY <1>1, <3>1, <3>3, <4>1 DEF PartAt
      <4> QED
        BY <4>1, <4>2, BytesBeforeIs
    <3> QED
      BY <1>1, <3>2, <3>4, <3>5
  <2>3. CASE D # {}
    <3>1. PICK i \in D : \A j \in D : i <= j
      <4>1. D \subseteq Nat
        BY <2>1
      <4> HIDE DEF D
      <4> QED
        BY <2>3, <4>1, LeastNat
    <3>2. /\ i \in Nat /\ i >= 1 /\ i <= n /\ a[i] # b[i]
          /\ i \in 1..Len(a) /\ i \in 1..Len(b)
      BY <2>1, <3>1
    <3>3. \A j \in 1..(i - 1) : a[j] = b[j]
      <4> SUFFICES ASSUME NEW j \in 1..(i - 1), a[j] # b[j] PROVE FALSE
        OBVIOUS
      <4>1. j \in D /\ ~(i <= j)
        BY <2>1, <3>2
      <4> HIDE DEF D
      <4> QED
        BY <3>1, <4>1
    <3>4. ComponentBefore(a[i], b[i]) \/ ComponentBefore(b[i], a[i])
      BY <1>1, <3>2, ComponentsOrdered
    <3>5. PartAt(a, b, i) \/ PartAt(b, a, i)
      BY <1>1, <3>2, <3>3, <3>4 DEF PartAt
    <3> QED
      BY <3>2, <3>5, BytesBeforeIs
  <2> QED
    BY <2>2, <2>3
<1>4. ASSUME BytesBefore(a, b), BytesBefore(b, c) PROVE BytesBefore(a, c)
  <2>1. PICK i \in 1..Len(b) : PartAt(a, b, i)
    BY <1>4, BytesBeforeIs
  <2>2. PICK k \in 1..Len(c) : PartAt(b, c, k)
    BY <1>4, BytesBeforeIs
  <2>3. CASE i < k
    <3>1. i \in 1..Len(c) /\ b[i] = c[i]
      BY <1>1, <2>2, <2>3 DEF PartAt
    <3>2. \A j \in 1..(i - 1) : a[j] = c[j]
      BY <1>1, <2>1, <2>2, <2>3 DEF PartAt
    <3>3. PartAt(a, c, i)
      BY <2>1, <3>1, <3>2 DEF PartAt
    <3> QED
      BY <3>1, <3>3, BytesBeforeIs
  <2>4. CASE i = k
    <3>1. \A j \in 1..(i - 1) : a[j] = c[j]
      BY <2>1, <2>2, <2>4 DEF PartAt
    <3>2. ASSUME i <= Len(a) PROVE ComponentBefore(a[i], c[i])
      <4>1. ComponentBefore(a[i], b[i]) /\ ComponentBefore(b[i], c[i])
        BY <1>1, <2>1, <2>2, <2>4, <3>2 DEF PartAt
      <4>2. a[i] \in Protocol /\ b[i] \in Protocol /\ c[i] \in Protocol
        BY <1>1, <2>4, <3>2
      <4> QED
        BY <4>1, <4>2, ComponentsOrdered
    <3>3. PartAt(a, c, i)
      BY <2>1, <3>1, <3>2 DEF PartAt
    <3> QED
      BY <2>4, <3>3, BytesBeforeIs
  <2>5. CASE i > k
    <3>1. a[k] = b[k] /\ k <= Len(a) /\ k <= Len(b)
      BY <1>1, <2>1, <2>5 DEF PartAt
    <3>2. \A j \in 1..(k - 1) : a[j] = c[j]
      BY <1>1, <2>1, <2>2, <2>5 DEF PartAt
    <3>3. PartAt(a, c, k)
      BY <1>1, <2>2, <3>1, <3>2 DEF PartAt
    <3> QED
      BY <3>3, BytesBeforeIs
  <2> QED
    BY <1>1, <2>3, <2>4, <2>5
<1> QED
  BY <1>2, <1>3, <1>4

LEMMA ClassesRanked ==
  ASSUME NEW k \in AddrClass, NEW l \in AddrClass
  PROVE  /\ ScopeRank[k.scope] \in Nat /\ TransportRank[k.transport] \in Nat
         /\ ScopeRank[k.scope] = ScopeRank[l.scope] => k.scope = l.scope
         /\ TransportRank[k.transport] = TransportRank[l.transport] => k.transport = l.transport
         /\ k.scope = l.scope /\ k.transport = l.transport => k = l
<1>1. /\ k.scope \in {"PrivateLan", "LinkLocal", "Public"}
      /\ l.scope \in {"PrivateLan", "LinkLocal", "Public"}
      /\ k.transport \in {"Quic", "Tcp", "Other", "Relay"}
      /\ l.transport \in {"Quic", "Tcp", "Other", "Relay"}
      /\ k.scope = l.scope /\ k.transport = l.transport => k = l
  BY DEF AddrClass, ScopeRank, TransportRank
<1>2. /\ ScopeRank["PrivateLan"] = 0 /\ ScopeRank["LinkLocal"] = 1 /\ ScopeRank["Public"] = 2
      /\ TransportRank["Quic"] = 0 /\ TransportRank["Tcp"] = 1
      /\ TransportRank["Other"] = 2 /\ TransportRank["Relay"] = 3
  BY DEF ScopeRank, TransportRank
<1>3. /\ ScopeRank[k.scope] \in Nat
      /\ ScopeRank[k.scope] = ScopeRank[l.scope] => k.scope = l.scope
  BY <1>1, <1>2
<1>4. /\ TransportRank[k.transport] \in Nat
      /\ TransportRank[k.transport] = TransportRank[l.transport] => k.transport = l.transport
  BY <1>1, <1>2
<1> QED
  BY <1>1, <1>3, <1>4

\* Of addresses that all cool down or all do not, resort()'s key makes a strict
\* total order, whatever the addresses are: what the place of an address in the
\* model of the view stands for (view.rs:316-326).
THEOREM SortKeyIsTotal ==
  \A a, b, c \in Seq(Protocol) :
    /\ ~SortsBefore(a, a)
    /\ a # b => SortsBefore(a, b) \/ SortsBefore(b, a)
    /\ SortsBefore(a, b) /\ SortsBefore(b, c) => SortsBefore(a, c)
<1> SUFFICES ASSUME NEW a \in Seq(Protocol), NEW b \in Seq(Protocol), NEW c \in Seq(Protocol)
             PROVE  /\ ~SortsBefore(a, a)
                    /\ a # b => SortsBefore(a, b) \/ SortsBefore(b, a)
                    /\ SortsBefore(a, b) /\ SortsBefore(b, c) => SortsBefore(a, c)
  OBVIOUS
<1> DEFINE ka == classify_addr(a)
           kb == classify_addr(b)
           kc == classify_addr(c)
           S(k) == ScopeRank[k.scope]
           T(k) == TransportRank[k.transport]
<1>1. ka \in AddrClass /\ kb \in AddrClass /\ kc \in AddrClass
  BY ClassifyIs DEF Classified
<1>2. \A k, l \in AddrClass :
        /\ S(k) \in Nat /\ T(k) \in Nat
        /\ S(k) = S(l) <=> k.scope = l.scope
        /\ S(k) = S(l) /\ T(k) = T(l) <=> k = l
  BY ClassesRanked
<1>3. \A x, y \in {a, b, c} : SortsBefore(x, y) <=>
        LET k == classify_addr(x)
            l == classify_addr(y)
        IN  \/ S(k) < S(l)
            \/ S(k) = S(l) /\ T(k) < T(l)
            \/ k = l /\ BytesBefore(x, y)
  BY <1>1, <1>2 DEF SortsBefore
<1> HIDE DEF S, T, ka, kb, kc
<1>4. /\ SortsBefore(a, a) <=> S(ka) < S(ka) \/ (S(ka) = S(ka) /\ T(ka) < T(ka)) \/ BytesBefore(a, a)
      /\ SortsBefore(a, b) <=>
           S(ka) < S(kb) \/ (S(ka) = S(kb) /\ T(ka) < T(kb)) \/ (ka = kb /\ BytesBefore(a, b))
      /\ SortsBefore(b, a) <=>
           S(kb) < S(ka) \/ (S(kb) = S(ka) /\ T(kb) < T(ka)) \/ (kb = ka /\ BytesBefore(b, a))
      /\ SortsBefore(b, c) <=>
           S(kb) < S(kc) \/ (S(kb) = S(kc) /\ T(kb) < T(kc)) \/ (kb = kc /\ BytesBefore(b, c))
      /\ SortsBefore(a, c) <=>
           S(ka) < S(kc) \/ (S(ka) = S(kc) /\ T(ka) < T(kc)) \/ (ka = kc /\ BytesBefore(a, c))
  BY <1>3 DEF ka, kb, kc
<1>5. /\ S(ka) \in Nat /\ S(kb) \in Nat /\ S(kc) \in Nat
      /\ T(ka) \in Nat /\ T(kb) \in Nat /\ T(kc) \in Nat
      /\ S(ka) = S(kb) /\ T(ka) = T(kb) <=> ka = kb
      /\ S(kb) = S(kc) /\ T(kb) = T(kc) <=> kb = kc
      /\ S(ka) = S(kc) /\ T(ka) = T(kc) <=> ka = kc
  BY <1>1, <1>2
<1>6. /\ ~BytesBefore(a, a)
      /\ a # b => BytesBefore(a, b) \/ BytesBefore(b, a)
      /\ BytesBefore(a, b) /\ BytesBefore(b, c) => BytesBefore(a, c)
  BY BytesOrder
<1>7. ~SortsBefore(a, a)
  BY <1>4, <1>5, <1>6
<1>8. a # b => SortsBefore(a, b) \/ SortsBefore(b, a)
  BY <1>4, <1>5, <1>6
<1>9. SortsBefore(a, b) /\ SortsBefore(b, c) => SortsBefore(a, c)
  BY <1>4, <1>5, <1>6
<1> QED
  BY <1>7, <1>8, <1>9

\* The key separates any two different addresses, in one direction only, and puts
\* an IP address before a name of its class (view.rs:307-326).
THEOREM KeysSeparate == Spec => []KeySeparates
<1> DEFINE Typed == addr \in Seq(Protocol) /\ other \in Seq(Protocol)
<1>1. Typed => KeySeparates
  <2> SUFFICES ASSUME addr \in Seq(Protocol), other \in Seq(Protocol) PROVE KeySeparates
    OBVIOUS
  <2>1. addr # other => (SortsBefore(addr, other) <=> ~SortsBefore(other, addr))
    BY SortKeyIsTotal
  <2>2. ASSUME addr # <<>>, other # <<>>, classify_addr(addr) = classify_addr(other),
               Head(addr).proto \in {"ip4", "ip6"}, Head(other).proto = "dns"
        PROVE  SortsBefore(addr, other)
    <3>1. 1 \in 1..Len(other) /\ 1 <= Len(addr) /\ Head(addr) = addr[1] /\ Head(other) = other[1]
      BY <2>2
    <3>2. ComponentBefore(addr[1], other[1])
      <4>1. CodeByte("ip4") = 4 /\ CodeByte("ip6") = 41 /\ CodeByte("dns") = 53
        BY DEF CodeByte
      <4> QED
        BY <2>2, <3>1, <4>1 DEF ComponentBefore
    <3>3. PartAt(addr, other, 1)
      BY <3>1, <3>2 DEF PartAt
    <3>4. BytesBefore(addr, other)
      BY <3>1, <3>3, BytesBeforeIs
    <3> QED
      BY <2>2, <3>4 DEF SortsBefore
  <2> QED
    BY <2>1, <2>2 DEF KeySeparates
<1> QED
  BY <1>1, AddressesTyped, PTL
===============================================================================
