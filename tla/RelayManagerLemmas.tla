--------------------------- MODULE RelayManagerLemmas ---------------------------
(***************************************************************************)
(* What the operators of RelayManager do to a queue of any length: the     *)
(* queue stays free of repetition, registering adds one relay at most, and *)
(* pruning takes out unused relays only, until the rest fits.              *)
(***************************************************************************)
EXTENDS RelayManager, FiniteSetTheorems, TLAPS

----------------------------------------------------------------------------
(* Counting along an order *)

LEMMA FewerInPart ==
  ASSUME NEW T, IsFiniteSet(T), NEW S, S \subseteq T, S # T
  PROVE  Cardinality(S) < Cardinality(T)
<1>1. IsFiniteSet(S) /\ Cardinality(S) <= Cardinality(T) /\ Cardinality(S) # Cardinality(T)
  BY FS_Subset
<1>2. Cardinality(S) \in Nat /\ Cardinality(T) \in Nat
  BY <1>1, FS_CardinalityType
<1> QED
  BY <1>1, <1>2

\* The number of members of U that R has below each of them.
RankIn(U, R) == [x \in U |-> Cardinality({y \in U : <<y, x>> \in R})]

\* In a finite set under a strict total order R, the members have 0, 1, 2, ...
\* members below them, each number once.
LEMMA RanksAreAll ==
  ASSUME NEW U, IsFiniteSet(U), NEW R,
         \A x, y, z \in U : <<x, y>> \in R /\ <<y, z>> \in R => <<x, z>> \in R,
         \A x \in U : <<x, x>> \notin R,
         \A x, y \in U : x # y => <<x, y>> \in R \/ <<y, x>> \in R
  PROVE  RankIn(U, R) \in Bijection(U, 0..(Cardinality(U) - 1))
<1> DEFINE below(x) == {y \in U : <<y, x>> \in R}
           rank == [x \in U |-> Cardinality(below(x))]
           n == Cardinality(U)
           N == 0..(n - 1)
<1>1. n \in Nat
  BY FS_CardinalityType
<1>2. \A x \in U : /\ below(x) \subseteq U /\ below(x) # U
                   /\ Cardinality(below(x)) \in Nat /\ Cardinality(below(x)) < n
  <2> SUFFICES ASSUME NEW x \in U
               PROVE  /\ below(x) \subseteq U /\ below(x) # U
                      /\ Cardinality(below(x)) \in Nat /\ Cardinality(below(x)) < n
    OBVIOUS
  <2>1. below(x) \subseteq U /\ x \notin below(x)
    OBVIOUS
  <2> HIDE DEF below
  <2>2. IsFiniteSet(below(x))
    BY <2>1, FS_Subset
  <2> QED
    BY <2>1, <2>2, FewerInPart, FS_CardinalityType
<1>3. \A x, y \in U : <<x, y>> \in R => Cardinality(below(x)) < Cardinality(below(y))
  <2> SUFFICES ASSUME NEW x \in U, NEW y \in U, <<x, y>> \in R
               PROVE  Cardinality(below(x)) < Cardinality(below(y))
    OBVIOUS
  <2>1. below(x) \subseteq below(y) /\ x \in below(y) /\ x \notin below(x)
    OBVIOUS
  <2>2. IsFiniteSet(below(y))
    BY <1>2, FS_Subset
  <2> HIDE DEF below
  <2> QED
    BY <2>1, <2>2, FewerInPart
<1> HIDE DEF below
<1>4. rank \in Injection(U, N)
  <2>1. rank \in [U -> N]
    BY <1>1, <1>2
  <2>2. ASSUME NEW x \in U, NEW y \in U, rank[x] = rank[y] PROVE x = y
    <3>1. Cardinality(below(x)) = Cardinality(below(y))
      BY <2>2
    <3>2. Cardinality(below(x)) \in Nat
      BY <1>2
    <3>3. ~(Cardinality(below(x)) < Cardinality(below(y))) /\ ~(Cardinality(below(y)) < Cardinality(below(x)))
      BY <3>1, <3>2
    <3>4. <<x, y>> \notin R /\ <<y, x>> \notin R
      BY <1>3, <3>3
    <3> QED
      BY <3>4
  <2> QED
    BY <2>1, <2>2 DEF Injection, IsInjective
<1>5. IsFiniteSet(N) /\ Cardinality(N) = n
  <2>1. n - 1 \in Int /\ IF 0 > n - 1 THEN n = 0 ELSE (n - 1) - 0 + 1 = n
    BY <1>1
  <2> HIDE DEF n
  <2> QED
    BY <2>1, FS_Interval
<1> HIDE DEF rank, N, n
<1>6. rank \in Surjection(U, N)
  BY <1>4, <1>5, FS_Injection DEF n
<1> QED
  BY <1>4, <1>6 DEF Bijection, rank, N, n, below, RankIn

\* How many members of K are smaller than i.
Smaller(K, i) == Cardinality({j \in K : j < i})

\* Nth counts through K in ascending order.
LEMMA NthCounts ==
  ASSUME NEW K, IsFiniteSet(K), K \subseteq Int
  PROVE  /\ Cardinality(K) \in Nat
         /\ \A n \in 1..Cardinality(K) :
              /\ Nth(K, n) \in K /\ Smaller(K, Nth(K, n)) = n - 1
              /\ \A i \in K : Smaller(K, i) = n - 1 => i = Nth(K, n)
         /\ \A i \in K : \E n \in 1..Cardinality(K) : Nth(K, n) = i
<1> DEFINE R == {e \in K \X K : e[1] < e[2]}
           c == Cardinality(K)
<1>1. c \in Nat
  BY FS_CardinalityType
<1>2. \A x, y \in K : <<x, y>> \in R <=> x < y
  OBVIOUS
<1> HIDE DEF R
<1>3. RankIn(K, R) \in Bijection(K, 0..(c - 1))
  <2>1. \A x, y, z \in K : <<x, y>> \in R /\ <<y, z>> \in R => <<x, z>> \in R
    BY <1>2
  <2>2. \A x \in K : <<x, x>> \notin R
    BY <1>2
  <2>3. \A x, y \in K : x # y => <<x, y>> \in R \/ <<y, x>> \in R
    BY <1>2
  <2> QED
    BY <2>1, <2>2, <2>3, RanksAreAll
<1>4. \A x \in K : {y \in K : <<y, x>> \in R} = {y \in K : y < x}
  BY <1>2
<1>5. [x \in K |-> Smaller(K, x)] \in Bijection(K, 0..(c - 1))
  <2>1. [x \in K |-> Smaller(K, x)] = RankIn(K, R)
    BY <1>4 DEF Smaller, RankIn
  <2> QED
    BY <1>3, <2>1
<1>6. /\ \A x \in K : Smaller(K, x) \in 0..(c - 1)
      /\ \A x, y \in K : Smaller(K, x) = Smaller(K, y) => x = y
      /\ \A m \in 0..(c - 1) : \E x \in K : Smaller(K, x) = m
  BY <1>5, Zenon DEF Bijection, Injection, Surjection, IsInjective
<1>7. \A n \in 1..c : /\ Nth(K, n) \in K /\ Smaller(K, Nth(K, n)) = n - 1
                      /\ \A i \in K : Smaller(K, i) = n - 1 => i = Nth(K, n)
  <2> SUFFICES ASSUME NEW n \in 1..c
               PROVE  /\ Nth(K, n) \in K /\ Smaller(K, Nth(K, n)) = n - 1
                      /\ \A i \in K : Smaller(K, i) = n - 1 => i = Nth(K, n)
    OBVIOUS
  <2>1. n - 1 \in 0..(c - 1)
    BY <1>1
  <2>2. Nth(K, n) = CHOOSE i \in K : Smaller(K, i) = n - 1
    BY DEF Nth, Smaller
  <2> QED
    BY <1>6, <2>1, <2>2
<1>8. ASSUME NEW i \in K PROVE \E n \in 1..c : Nth(K, n) = i
  <2>1. Smaller(K, i) + 1 \in 1..c /\ (Smaller(K, i) + 1) - 1 = Smaller(K, i)
    BY <1>1, <1>6
  <2> QED
    BY <1>7, <2>1
<1> QED
  BY <1>1, <1>7, <1>8

LEMMA UpTo == ASSUME NEW n \in Nat PROVE IsFiniteSet(1..n) /\ Cardinality(1..n) = n
  BY FS_Interval

----------------------------------------------------------------------------
(* The queue *)

\* A queue without repetition has as many members as places.
LEMMA QueueSize ==
  ASSUME NEW S, NEW q \in Seq(S), IsInjective(q)
  PROVE  /\ IsFiniteSet(Range(q)) /\ Cardinality(Range(q)) = Len(q)
         /\ Range(q) \subseteq S /\ DOMAIN q = 1..Len(q) /\ Len(q) \in Nat
<1>1. DOMAIN q = 1..Len(q) /\ Len(q) \in Nat /\ q \in [1..Len(q) -> S]
  OBVIOUS
<1>2. q \in Bijection(1..Len(q), Range(q))
  BY <1>1 DEF Bijection, Injection, Surjection, Range, IsInjective
<1>3. ExistsBijection(1..Len(q), Range(q))
  BY <1>2 DEF ExistsBijection
<1>4. IsFiniteSet(1..Len(q)) /\ Cardinality(1..Len(q)) = Len(q)
  BY <1>1, FS_Interval
<1>5. IsFiniteSet(Range(q)) /\ Cardinality(Range(q)) = Len(q)
  BY <1>3, <1>4, FS_Bijection
<1> QED
  BY <1>1, <1>5 DEF Range

\* Registering keeps the queue free of repetition (relay_manager.rs:43-47).
LEMMA RegisterKeepsOrder ==
  ASSUME NEW S, NEW q \in Seq(S), IsInjective(q), NEW r \in S
  PROVE  /\ register(q, r) \in Seq(S) /\ IsInjective(register(q, r))
         /\ Range(register(q, r)) = Range(q) \cup {r}
<1>1. CASE r \in Range(q)
  BY <1>1 DEF register
<1>2. CASE r \notin Range(q)
  <2>1. /\ Append(q, r) \in Seq(S) /\ DOMAIN Append(q, r) = 1..(Len(q) + 1)
        /\ \A i \in 1..Len(q) : Append(q, r)[i] = q[i]
        /\ Append(q, r)[Len(q) + 1] = r
        /\ DOMAIN q = 1..Len(q) /\ Len(q) \in Nat
    OBVIOUS
  <2>2. IsInjective(Append(q, r))
    BY <1>2, <2>1 DEF IsInjective, Range
  <2>3. Range(Append(q, r)) = Range(q) \cup {r}
    BY <2>1 DEF Range
  <2> QED
    BY <1>2, <2>1, <2>2, <2>3 DEF register
<1> QED
  BY <1>1, <1>2


\* The members of q at the places in K, in order.
At(q, K) == [n \in 1..Cardinality(K) |-> q[Nth(K, n)]]

LEMMA AtPlaces ==
  ASSUME NEW S, NEW q \in Seq(S), IsInjective(q), NEW K, K \subseteq DOMAIN q
  PROVE  /\ At(q, K) \in Seq(S) /\ IsInjective(At(q, K)) /\ Len(At(q, K)) = Cardinality(K)
         /\ Range(At(q, K)) = {q[i] : i \in K}
<1> DEFINE c == Cardinality(K)
<1>1. DOMAIN q = 1..Len(q) /\ Len(q) \in Nat /\ \A i \in DOMAIN q : q[i] \in S
  OBVIOUS
<1>2. IsFiniteSet(K) /\ K \subseteq Int
  <2>1. IsFiniteSet(1..Len(q))
    BY <1>1, FS_Interval
  <2> QED
    BY <1>1, <2>1, FS_Subset
<1>3. /\ c \in Nat
      /\ \A n \in 1..c : Nth(K, n) \in K /\ Smaller(K, Nth(K, n)) = n - 1
      /\ \A i \in K : \E n \in 1..c : Nth(K, n) = i
  BY <1>2, NthCounts
<1>4. \A m, n \in 1..c : Nth(K, m) = Nth(K, n) => m = n
  <2> SUFFICES ASSUME NEW m \in 1..c, NEW n \in 1..c, Nth(K, m) = Nth(K, n) PROVE m = n
    OBVIOUS
  <2>1. m - 1 = n - 1
    BY <1>3
  <2> QED
    BY <1>3, <2>1
<1> HIDE DEF c
<1>5. At(q, K) = [n \in 1..c |-> q[Nth(K, n)]]
  BY DEF At, c
<1>6. At(q, K) \in [1..c -> S]
  BY <1>1, <1>3, <1>5
<1>7. At(q, K) \in Seq(S) /\ Len(At(q, K)) = c
  BY <1>3, <1>6
<1>8. IsInjective(At(q, K))
  BY <1>3, <1>4, <1>5 DEF IsInjective
<1>9. Range(At(q, K)) = {q[i] : i \in K}
  <2>1. DOMAIN At(q, K) = 1..c /\ \A n \in 1..c : At(q, K)[n] = q[Nth(K, n)]
    BY <1>5
  <2>2. ASSUME NEW x \in Range(At(q, K)) PROVE x \in {q[i] : i \in K}
    <3>1. PICK n \in 1..c : x = q[Nth(K, n)]
      BY <2>1 DEF Range
    <3> QED
      BY <1>3, <3>1
  <2>3. ASSUME NEW i \in K PROVE q[i] \in Range(At(q, K))
    <3>1. PICK n \in 1..c : Nth(K, n) = i
      BY <1>3
    <3> QED
      BY <2>1, <3>1 DEF Range
  <2> QED
    BY <2>2, <2>3
<1> QED
  BY <1>7, <1>8, <1>9 DEF c

\* The place in a queue of what is at j once place i is gone.
Skip(i, j) == IF j < i THEN j ELSE j + 1

\* Removing one place takes out that relay and nothing else
\* (relay_manager.rs:91-98).
LEMMA RemoveOne ==
  ASSUME NEW S, NEW q \in Seq(S), IsInjective(q), NEW i \in DOMAIN q
  PROVE  /\ RemovePlace(q, i) \in Seq(S) /\ IsInjective(RemovePlace(q, i))
         /\ Range(RemovePlace(q, i)) = Range(q) \ {q[i]}
<1> DEFINE n == Len(q)
           new == RemovePlace(q, i)
           at(j) == Skip(i, j)
<1>1. DOMAIN q = 1..n /\ n \in Nat /\ i \in 1..n /\ q \in [1..n -> S] /\ n - 1 \in Nat
  OBVIOUS
<1>2. new = [j \in 1..(n - 1) |-> q[at(j)]]
  BY DEF RemovePlace, Skip
<1>3. \A j \in 1..(n - 1) : at(j) \in 1..n /\ at(j) # i
  BY <1>1 DEF Skip
<1>4. \A j, k \in 1..(n - 1) : at(j) = at(k) => j = k
  BY <1>1 DEF Skip
<1>5. \A k \in 1..n : k # i => \E j \in 1..(n - 1) : at(j) = k
  <2> SUFFICES ASSUME NEW k \in 1..n, k # i
               PROVE  \E j \in 1..(n - 1) : at(j) = k
    OBVIOUS
  <2>1. CASE k < i
    BY <1>1, <2>1 DEF Skip
  <2>2. CASE k > i
    <3>1. k - 1 \in 1..(n - 1) /\ at(k - 1) = k
      BY <1>1, <2>2 DEF Skip
    <3> QED
      BY <3>1
  <2> QED
    BY <1>1, <2>1, <2>2
<1> HIDE DEF at, n
<1>6. new \in [1..(n - 1) -> S]
  BY <1>1, <1>2, <1>3
<1>7. new \in Seq(S)
  BY <1>1, <1>6
<1>8. IsInjective(new)
  BY <1>1, <1>2, <1>3, <1>4 DEF IsInjective
<1>9. Range(new) = Range(q) \ {q[i]}
  <2>1. Range(new) = {q[at(j)] : j \in 1..(n - 1)}
    BY <1>2 DEF Range
  <2>2. Range(q) \ {q[i]} = {q[k] : k \in 1..n \ {i}}
    BY <1>1 DEF Range, IsInjective
  <2>3. \A j \in 1..(n - 1) : at(j) \in 1..n \ {i}
    BY <1>3
  <2>4. \A k \in 1..n \ {i} : \E j \in 1..(n - 1) : at(j) = k
    BY <1>5
  <2> QED
    BY <2>1, <2>2, <2>3, <2>4
<1> QED
  BY <1>7, <1>8, <1>9

----------------------------------------------------------------------------
(* Pruning *)

\* How many unused places are worse than i.
WorseThan(q, used, t, i) == Cardinality({j \in Unused(q, used) : Worse(q, t, j, i)})

\* The places that prune_relays empties.
Out(q, used, t) ==
  {i \in Unused(q, used) : WorseThan(q, used, t, i) < Len(q) - Capacity(used)}

LEMMA OutSize ==
  ASSUME NEW S, NEW q \in Seq(S), NEW used, IsFiniteSet(used),
         NEW t, \A i \in DOMAIN q : t[q[i]] \in Int
  PROVE  LET U == Unused(q, used)
             O == Out(q, used, t)
             e == Len(q) - Capacity(used)
         IN  /\ IsFiniteSet(U) /\ O \subseteq U /\ e \in Int
             /\ e <= 0 => O = {}
             /\ e >= Cardinality(U) => O = U
             /\ e >= 0 /\ e <= Cardinality(U) => Cardinality(O) = e
<1> DEFINE U == Unused(q, used)
           O == Out(q, used, t)
           e == Len(q) - Capacity(used)
           c == Cardinality(U)
           W == {p \in U \X U : Worse(q, t, p[1], p[2])}
           rank == RankIn(U, W)
<1>1. /\ DOMAIN q = 1..Len(q) /\ Len(q) \in Nat /\ U \subseteq 1..Len(q) /\ O \subseteq U
  BY DEF Unused, Out
<1>2. IsFiniteSet(U) /\ c \in Nat /\ e \in Int
  <2>1. IsFiniteSet(U)
    <3>1. IsFiniteSet(1..Len(q))
      BY <1>1, FS_Interval
    <3> QED
      BY <1>1, <3>1, FS_Subset
  <2>2. Cardinality(used) \in Nat
    BY FS_CardinalityType
  <2> QED
    BY <1>1, <2>1, <2>2, FS_CardinalityType, RelayAssumption DEF Capacity
<1>3. \A i \in U : i \in Int /\ t[q[i]] \in Int
  BY <1>1
<1>4. \A x, y \in U : <<x, y>> \in W <=> Worse(q, t, x, y)
  OBVIOUS
<1> HIDE DEF W, U
<1>5. rank \in Bijection(U, 0..(c - 1))
  <2>1. \A x, y, z \in U : <<x, y>> \in W /\ <<y, z>> \in W => <<x, z>> \in W
    BY <1>3, <1>4 DEF Worse
  <2>2. \A x \in U : <<x, x>> \notin W
    BY <1>3, <1>4 DEF Worse
  <2>3. \A x, y \in U : x # y => <<x, y>> \in W \/ <<y, x>> \in W
    BY <1>3, <1>4 DEF Worse
  <2> QED
    BY <1>2, <2>1, <2>2, <2>3, RanksAreAll
<1>6. \A i \in U : rank[i] = WorseThan(q, used, t, i)
  <2> SUFFICES ASSUME NEW i \in U PROVE rank[i] = WorseThan(q, used, t, i)
    OBVIOUS
  <2>1. {y \in U : <<y, i>> \in W} = {j \in U : Worse(q, t, j, i)}
    BY <1>4
  <2> QED
    BY <2>1 DEF RankIn, WorseThan, U
<1>7. O = {i \in U : rank[i] < e}
  BY <1>6 DEF Out, U
<1> HIDE DEF O, rank, e, c
<1>8. /\ rank \in [U -> 0..(c - 1)]
      /\ \A x, y \in U : rank[x] = rank[y] => x = y
      /\ \A m \in 0..(c - 1) : \E x \in U : rank[x] = m
  BY <1>5, Zenon DEF Bijection, Injection, Surjection, IsInjective
<1>9. e <= 0 => O = {}
  BY <1>2, <1>7, <1>8
<1>10. e >= c => O = U
  <2>1. \A i \in U : rank[i] \in Int /\ rank[i] < c
    BY <1>2, <1>8
  <2>2. e >= c => \A i \in U : rank[i] < e
    BY <1>2, <2>1
  <2> QED
    BY <1>7, <2>2
<1>11. ASSUME e >= 0, e <= c PROVE Cardinality(O) = e
  <2> DEFINE f == [i \in O |-> rank[i]]
  <2>1. \A i \in O : i \in U /\ rank[i] \in 0..(e - 1)
    BY <1>2, <1>7, <1>8
  <2>2. \A m \in 0..(e - 1) : \E i \in O : rank[i] = m
    BY <1>2, <1>7, <1>8, <1>11
  <2>3. f \in Injection(O, 0..(e - 1)) /\ f \in Surjection(O, 0..(e - 1))
    BY <1>8, <2>1, <2>2 DEF Injection, Surjection, IsInjective
  <2>4. IsFiniteSet(O)
    BY <1>1, <1>2, FS_Subset DEF O
  <2>5. ExistsBijection(O, 0..(e - 1))
    BY <2>3 DEF Bijection, ExistsBijection
  <2>6. Cardinality(0..(e - 1)) = e
    <3>1. e - 1 \in Int /\ IF 0 > e - 1 THEN e = 0 ELSE (e - 1) - 0 + 1 = e
      BY <1>2, <1>11
    <3> QED
      BY <3>1, FS_Interval
  <2> QED
    BY <2>4, <2>5, <2>6, FS_Bijection
<1> QED
  BY <1>1, <1>2, <1>9, <1>10, <1>11 DEF O, U, e, c

\* prune_relays keeps the other places.
LEMMA PruneIsAt ==
  ASSUME NEW S, NEW q \in Seq(S), IsInjective(q), NEW used, NEW t
  PROVE  /\ prune_relays(q, used, t) = At(q, DOMAIN q \ Out(q, used, t))
         /\ Pruned(q, used, t) = {q[i] : i \in Out(q, used, t)}
         /\ Out(q, used, t) \subseteq Unused(q, used)
<1>1. Pruned(q, used, t) = {q[i] : i \in Out(q, used, t)}
  BY DEF Pruned, Out, WorseThan
<1>2. Out(q, used, t) \subseteq Unused(q, used) /\ Unused(q, used) \subseteq DOMAIN q
  BY DEF Out, Unused
<1>3. {i \in DOMAIN q : q[i] \notin Pruned(q, used, t)} = DOMAIN q \ Out(q, used, t)
  BY <1>1, <1>2 DEF IsInjective
<1> QED
  BY <1>1, <1>2, <1>3 DEF prune_relays, At

\* Pruning takes out unused relays and nothing else, and what is left fits
\* (mod.rs:460-474).
LEMMA PruneFits ==
  ASSUME NEW S, NEW q \in Seq(S), IsInjective(q), NEW used, IsFiniteSet(used),
         NEW t, \A r \in S : t[r] \in Int
  PROVE  LET new == prune_relays(q, used, t)
         IN  /\ new \in Seq(S) /\ IsInjective(new) /\ Len(new) <= Capacity(used)
             /\ Range(new) \subseteq Range(q) /\ Range(q) \cap used \subseteq Range(new)
<1> DEFINE n == Len(q)
           U == Unused(q, used)
           O == Out(q, used, t)
           e == n - Capacity(used)
           K == DOMAIN q \ O
           new == prune_relays(q, used, t)
<1>1. DOMAIN q = 1..n /\ n \in Nat /\ \A i \in DOMAIN q : q[i] \in S
  OBVIOUS
<1>2. new = At(q, K) /\ O \subseteq U
  BY PruneIsAt
<1>3. /\ IsFiniteSet(U) /\ e \in Int
      /\ e <= 0 => O = {}
      /\ e >= Cardinality(U) => O = U
      /\ e >= 0 /\ e <= Cardinality(U) => Cardinality(O) = e
  BY <1>1, OutSize
<1>4. U \subseteq DOMAIN q /\ \A i \in DOMAIN q : i \notin U <=> q[i] \in used
  BY DEF Unused
<1>5. Cardinality(used) \in Nat /\ Capacity(used) \in Nat /\ Cardinality(used) <= Capacity(used)
  BY FS_CardinalityType, RelayAssumption DEF Capacity
<1>6. IsFiniteSet(DOMAIN q) /\ Cardinality(DOMAIN q) = n
  <2>1. IsFiniteSet(1..n) /\ Cardinality(1..n) = n
    BY <1>1, FS_Interval
  <2> QED
    BY <1>1, <2>1
<1>7. Cardinality(U) \in Nat
  BY <1>3, FS_CardinalityType
<1> HIDE DEF new, O, U
<1>8. /\ At(q, K) \in Seq(S) /\ IsInjective(At(q, K)) /\ Len(At(q, K)) = Cardinality(K)
      /\ Range(At(q, K)) = {q[i] : i \in K}
  BY AtPlaces
<1>9. Cardinality(K) <= Capacity(used)
  <2>1. CASE e <= 0
    <3>1. K = DOMAIN q
      BY <1>3, <2>1
    <3>2. Cardinality(K) = n
      BY <1>6, <3>1
    <3> HIDE DEF K
    <3> QED
      BY <1>1, <1>5, <2>1, <3>2
  <2>2. CASE e >= Cardinality(U)
    <3>1. Range(At(q, K)) \subseteq used
      BY <1>3, <1>4, <1>8, <2>2
    <3>2. Cardinality(Range(At(q, K))) <= Cardinality(used)
      BY <3>1, FS_Subset
    <3>3. Cardinality(Range(At(q, K))) = Len(At(q, K)) /\ Len(At(q, K)) \in Nat
      BY <1>8, QueueSize
    <3> QED
      BY <1>5, <1>8, <3>2, <3>3
  <2>3. CASE e >= 0 /\ e <= Cardinality(U)
    <3>1. Cardinality(O) = e
      BY <1>3, <2>3
    <3>2. DOMAIN q \cap O = O
      BY <1>2, <1>4
    <3>3. Cardinality(K) = Cardinality(DOMAIN q) - Cardinality(DOMAIN q \cap O)
      BY <1>6, FS_Difference
    <3>4. Cardinality(K) = n - e
      BY <1>6, <3>1, <3>2, <3>3
    <3> HIDE DEF K
    <3> QED
      BY <1>1, <1>5, <3>4
  <2> QED
    BY <1>3, <1>7, <2>1, <2>2, <2>3
<1>10. Range(At(q, K)) \subseteq Range(q)
  BY <1>8 DEF Range
<1>11. Range(q) \cap used \subseteq Range(At(q, K))
  BY <1>2, <1>4, <1>8 DEF Range
<1> QED
  BY <1>2, <1>8, <1>9, <1>10, <1>11 DEF new

Members(q, K) == {q[i] : i \in K}

\* As many members as places, for part of a queue.
LEMMA PartSize ==
  ASSUME NEW S, NEW q \in Seq(S), IsInjective(q), NEW K, K \subseteq DOMAIN q
  PROVE  IsFiniteSet(Members(q, K)) /\ Cardinality(Members(q, K)) = Cardinality(K)
<1> DEFINE M == Members(q, K)
<1>1. /\ At(q, K) \in Seq(S) /\ IsInjective(At(q, K)) /\ Len(At(q, K)) = Cardinality(K)
      /\ Range(At(q, K)) = M
  BY AtPlaces DEF Members
<1> HIDE DEF M
<1>2. IsFiniteSet(M) /\ Cardinality(M) = Cardinality(K)
  BY <1>1, QueueSize
<1> QED
  BY <1>2 DEF M

\* What is pruned was unused, and no unused relay that stays has a longer
\* round-trip time (relay_manager.rs:73-88).
LEMMA PruneTakesTheWorst ==
  ASSUME NEW S, NEW q \in Seq(S), IsInjective(q), NEW used, IsFiniteSet(used),
         NEW t, \A r \in S : t[r] \in Int
  PROVE  LET new == prune_relays(q, used, t)
         IN  \A r \in Range(q) \ Range(new), x \in Range(new) \ used : t[x] <= t[r]
<1> DEFINE O == Out(q, used, t)
           U == Unused(q, used)
           K == DOMAIN q \ O
           new == prune_relays(q, used, t)
           rank(i) == WorseThan(q, used, t, i)
           e == Len(q) - Capacity(used)
<1>1. DOMAIN q = 1..Len(q) /\ Len(q) \in Nat /\ \A i \in DOMAIN q : q[i] \in S /\ t[q[i]] \in Int
  OBVIOUS
<1>2. new = At(q, K) /\ O \subseteq U
  BY PruneIsAt
<1>3. Range(new) = {q[i] : i \in K}
  BY <1>2, AtPlaces
<1>4. IsFiniteSet(U) /\ e \in Int
  BY <1>1, OutSize
<1>5. \A i \in U : IsFiniteSet({k \in U : Worse(q, t, k, i)}) /\ rank(i) \in Nat
  <2> SUFFICES ASSUME NEW i \in U
               PROVE  IsFiniteSet({k \in U : Worse(q, t, k, i)}) /\ rank(i) \in Nat
    OBVIOUS
  <2>1. IsFiniteSet({k \in U : Worse(q, t, k, i)})
    BY <1>4, FS_Subset
  <2> QED
    BY <2>1, FS_CardinalityType DEF WorseThan
<1> HIDE DEF new
<1> SUFFICES ASSUME NEW r \in Range(q) \ Range(new), NEW x \in Range(new) \ used PROVE t[x] <= t[r]
  BY DEF new
<1>6. PICK i \in O : q[i] = r
  BY <1>3 DEF Range
<1>7. PICK j \in U \ O : q[j] = x
  BY <1>3 DEF Unused
<1>8. i \in U /\ rank(i) < e /\ ~(rank(j) < e) /\ i \in DOMAIN q /\ j \in DOMAIN q
  BY <1>2, <1>6, <1>7 DEF Out, Unused
<1> HIDE DEF O, U, K, e
<1>9. ASSUME Worse(q, t, j, i) PROVE FALSE
  <2> DEFINE A == {k \in U : Worse(q, t, k, j)}
             B == {k \in U : Worse(q, t, k, i)}
  <2>1. \A k \in U : k \in DOMAIN q
    BY DEF U, Unused
  <2>2. A \subseteq B
    BY <1>1, <1>8, <1>9, <2>1 DEF Worse
  <2>3. j \in B /\ j \notin A
    BY <1>1, <1>7, <1>8, <1>9 DEF Worse
  <2>4. IsFiniteSet(B) /\ rank(i) = Cardinality(B) /\ rank(j) = Cardinality(A)
    BY <1>5, <1>8 DEF WorseThan, U
  <2> HIDE DEF A, B, rank
  <2>5. rank(j) < rank(i) /\ rank(i) < e /\ ~(rank(j) < e)
    BY <1>8, <2>2, <2>3, <2>4, FewerInPart
  <2>6. rank(i) \in Nat /\ rank(j) \in Nat /\ e \in Int
    BY <1>4, <1>5, <1>7, <1>8
  <2> QED
    BY <2>5, <2>6
<1> QED
  BY <1>1, <1>6, <1>7, <1>8, <1>9 DEF Worse

\* As many unused relays stay as there is room for.
LEMMA PruneFillsTheRoom ==
  ASSUME NEW S, NEW q \in Seq(S), IsInjective(q), NEW used, IsFiniteSet(used),
         NEW t, \A r \in S : t[r] \in Int
  PROVE  LET new   == prune_relays(q, used, t)
             spare == Cardinality(Range(q) \ used)
             room  == Capacity(used) - Cardinality(Range(q) \cap used)
         IN  Cardinality(Range(new) \ used) = IF spare <= room THEN spare ELSE room
<1> DEFINE n == Len(q)
           O == Out(q, used, t)
           U == Unused(q, used)
           K == DOMAIN q \ O
           e == n - Capacity(used)
           new == prune_relays(q, used, t)
           u == Cardinality(U)
<1>1. DOMAIN q = 1..n /\ n \in Nat /\ \A i \in DOMAIN q : q[i] \in S /\ t[q[i]] \in Int
  OBVIOUS
<1>2. new = At(q, K) /\ O \subseteq U
  BY PruneIsAt
<1>3. Range(new) = {q[i] : i \in K}
  BY <1>2, AtPlaces
<1>4. /\ IsFiniteSet(U) /\ O \subseteq U /\ e \in Int
      /\ e <= 0 => O = {}
      /\ e >= Cardinality(U) => O = U
      /\ e >= 0 /\ e <= Cardinality(U) => Cardinality(O) = e
  BY <1>1, OutSize
<1>5. U \subseteq DOMAIN q /\ \A i \in DOMAIN q : i \in U <=> q[i] \notin used
  BY DEF Unused
<1> HIDE DEF new, O, U
<1>6. Cardinality(Range(q) \ used) = u
  <2>1. Range(q) \ used = Members(q, U)
    BY <1>5 DEF Range, Members
  <2> QED
    BY <1>5, <2>1, PartSize
<1>7. Cardinality(Range(q) \cap used) = n - u /\ n - u <= Cardinality(used)
  <2>1. Range(q) \cap used = Members(q, DOMAIN q \ U) /\ DOMAIN q \ U \subseteq DOMAIN q
    BY <1>5 DEF Range, Members
  <2>2. Cardinality(Range(q) \cap used) = Cardinality(DOMAIN q \ U)
    BY <2>1, PartSize
  <2>3. IsFiniteSet(DOMAIN q) /\ Cardinality(DOMAIN q) = n
    BY <1>1, UpTo
  <2>4. Cardinality(DOMAIN q \ U) = Cardinality(DOMAIN q) - Cardinality(DOMAIN q \cap U)
    BY <2>3, FS_Difference
  <2>5. DOMAIN q \cap U = U
    BY <1>5
  <2>6. Cardinality(Range(q) \cap used) <= Cardinality(used)
    BY FS_Subset
  <2> QED
    BY <2>2, <2>3, <2>4, <2>5, <2>6
<1>8. Cardinality(Range(new) \ used) = u - Cardinality(O)
  <2>1. Range(new) \ used = Members(q, U \ O)
    BY <1>2, <1>3, <1>5 DEF Members
  <2>2. U \ O \subseteq DOMAIN q /\ U \cap O = O
    BY <1>4, <1>5
  <2>3. Cardinality(Range(new) \ used) = Cardinality(U \ O)
    BY <2>1, <2>2, PartSize
  <2>4. Cardinality(U \ O) = Cardinality(U) - Cardinality(U \cap O)
    BY <1>4, FS_Difference
  <2> QED
    BY <2>2, <2>3, <2>4
<1>9. Cardinality(used) \in Nat /\ u \in Nat /\ Cardinality({}) = 0
  BY <1>4, FS_CardinalityType, FS_EmptySet
<1>10. Capacity(used) \in Nat /\ Cardinality(used) <= Capacity(used)
  BY <1>9, RelayAssumption DEF Capacity
<1> DEFINE room == Capacity(used) - (n - u)
<1>11. room = u - e /\ e <= u /\ room \in Int
  BY <1>1, <1>7, <1>9, <1>10
<1>12. u - Cardinality(O) = IF u <= room THEN u ELSE room
  <2>1. CASE e <= 0
    <3>1. Cardinality(O) = 0
      BY <1>4, <1>9, <2>1
    <3> HIDE DEF e, room, u
    <3> QED
      BY <1>4, <1>9, <1>11, <2>1, <3>1
  <2>2. CASE e > 0
    <3>1. Cardinality(O) = e
      BY <1>4, <1>11, <2>2
    <3> HIDE DEF e, room, u
    <3> QED
      BY <1>4, <1>9, <1>11, <2>2, <3>1
  <2> QED
    BY <1>4, <2>1, <2>2
<1> QED
  BY <1>6, <1>7, <1>8, <1>12 DEF new

----------------------------------------------------------------------------
(* The loop of prune_relays, one relay at a time *)

\* A queue that fits stays as it is.
LEMMA AtAll == ASSUME NEW S, NEW q \in Seq(S), IsInjective(q) PROVE At(q, DOMAIN q) = q
<1> DEFINE n == Len(q)
<1>1. DOMAIN q = 1..n /\ n \in Nat /\ IsFiniteSet(1..n) /\ Cardinality(1..n) = n
  BY UpTo
<1>2. ASSUME NEW i \in 1..n PROVE Smaller(1..n, i) = i - 1
  <2>1. {j \in 1..n : j < i} = 1..(i - 1)
    BY <1>1
  <2>2. Cardinality(1..(i - 1)) = i - 1
    BY <1>1, UpTo
  <2> QED
    BY <2>1, <2>2 DEF Smaller
<1>3. \A i \in 1..n : Nth(1..n, i) = i
  <2>1. \A k \in 1..n : \A i \in 1..n : Smaller(1..n, i) = k - 1 => i = Nth(1..n, k)
    BY <1>1, NthCounts
  <2> QED
    BY <1>2, <2>1
<1> QED
  BY <1>1, <1>3 DEF At

LEMMA NothingToPrune ==
  ASSUME NEW S, NEW q \in Seq(S), IsInjective(q), NEW used, IsFiniteSet(used),
         NEW t, \A r \in S : t[r] \in Int,
         ~should_prune(q, used) \/ Unused(q, used) = {}
  PROVE  prune_relays(q, used, t) = q
<1> DEFINE O == Out(q, used, t)
           e == Len(q) - Capacity(used)
<1>1. \A i \in DOMAIN q : t[q[i]] \in Int
  OBVIOUS
<1>2. O \subseteq Unused(q, used) /\ (e <= 0 => O = {})
  BY <1>1, OutSize
<1>3. Cardinality(used) \in Nat /\ Len(q) \in Nat
  BY FS_CardinalityType
<1>4. ~should_prune(q, used) => e <= 0
  BY <1>3, RelayAssumption DEF should_prune, Capacity
<1> HIDE DEF O, e
<1>5. O = {}
  BY <1>2, <1>4
<1>6. prune_relays(q, used, t) = At(q, DOMAIN q \ O)
  BY PruneIsAt DEF O
<1> QED
  BY <1>5, <1>6, AtAll

SkipAll(w, X) == {Skip(w, j) : j \in X}

LEMMA SkipCard ==
  ASSUME NEW w \in Int, NEW X, IsFiniteSet(X), X \subseteq Int
  PROVE  IsFiniteSet(SkipAll(w, X)) /\ Cardinality(SkipAll(w, X)) = Cardinality(X)
<1> DEFINE Y == SkipAll(w, X)
           f == [j \in X |-> Skip(w, j)]
<1>1. \A j, k \in X : Skip(w, j) = Skip(w, k) => j = k
  BY DEF Skip
<1>2. f \in Bijection(X, Y)
  BY <1>1 DEF Bijection, Injection, Surjection, IsInjective, SkipAll
<1>3. ExistsBijection(X, Y)
  BY <1>2 DEF ExistsBijection
<1> HIDE DEF Y
<1>4. IsFiniteSet(Y) /\ Cardinality(Y) = Cardinality(X)
  BY <1>3, FS_Bijection
<1> QED
  BY <1>4 DEF Y

\* Taking out the worst unused relay does not change what the rest of the loop
\* will keep (mod.rs:462-468).
LEMMA PruneWorstFirst ==
  ASSUME NEW S, NEW q \in Seq(S), IsInjective(q), NEW used, IsFiniteSet(used),
         NEW t, \A r \in S : t[r] \in Int, should_prune(q, used),
         NEW w \in Unused(q, used),
         \A j \in Unused(q, used) \ {w} : Worse(q, t, w, j)
  PROVE  prune_relays(RemovePlace(q, w), used, t) = prune_relays(q, used, t)
<1> DEFINE n == Len(q)
           p == RemovePlace(q, w)
           U == Unused(q, used)
           V == Unused(p, used)
           e == n - Capacity(used)
           K == DOMAIN q \ Out(q, used, t)
           L == DOMAIN p \ Out(p, used, t)
           s(j) == Skip(w, j)
<1>1. /\ DOMAIN q = 1..n /\ n \in Nat /\ w \in 1..n /\ n - 1 \in Nat
      /\ U \subseteq 1..n /\ \A i \in 1..n : q[i] \in S /\ t[q[i]] \in Int
  BY DEF Unused
<1>2. /\ p \in Seq(S) /\ IsInjective(p) /\ Len(p) = n - 1 /\ DOMAIN p = 1..(n - 1)
      /\ \A j \in 1..(n - 1) : p[j] = q[s(j)]
  BY <1>1, RemoveOne DEF RemovePlace, Skip
<1>3. /\ \A j \in 1..(n - 1) : s(j) \in 1..n /\ s(j) # w
      /\ \A j, k \in 1..(n - 1) : j < k <=> s(j) < s(k)
      /\ \A j, k \in 1..(n - 1) : s(j) = s(k) => j = k
  BY <1>1 DEF Skip
<1>4. \A i \in 1..n \ {w} : \E j \in 1..(n - 1) : s(j) = i
  <2> SUFFICES ASSUME NEW i \in 1..n \ {w} PROVE \E j \in 1..(n - 1) : s(j) = i
    OBVIOUS
  <2>1. CASE i < w
    <3>1. i \in 1..(n - 1) /\ s(i) = i
      BY <1>1, <2>1 DEF Skip
    <3> QED
      BY <3>1
  <2>2. CASE i > w
    <3>1. i - 1 \in 1..(n - 1) /\ s(i - 1) = i
      BY <1>1, <2>2 DEF Skip
    <3> QED
      BY <3>1
  <2> QED
    BY <1>1, <2>1, <2>2
<1>5. e \in Int /\ e > 0 /\ Len(p) - Capacity(used) = e - 1
  <2>1. Cardinality(used) \in Nat
    BY FS_CardinalityType
  <2> QED
    BY <1>1, <1>2, <2>1, RelayAssumption DEF should_prune, Capacity
<1> HIDE DEF p, s, n
<1>6. \A j \in 1..(n - 1) : j \in V <=> s(j) \in U
  BY <1>1, <1>2, <1>3 DEF Unused
<1>7. \A j, k \in 1..(n - 1) : Worse(p, t, j, k) <=> Worse(q, t, s(j), s(k))
  BY <1>2, <1>3 DEF Worse
<1>8. V \subseteq 1..(n - 1)
  BY <1>2 DEF Unused
<1>9. IsFiniteSet(U) /\ IsFiniteSet(V)
  <2>1. IsFiniteSet(1..n) /\ IsFiniteSet(1..(n - 1))
    BY <1>1, UpTo
  <2> QED
    BY <1>1, <1>8, <2>1, FS_Subset
<1> HIDE DEF U, V
<1>10. ASSUME NEW j \in V PROVE WorseThan(q, used, t, s(j)) = WorseThan(p, used, t, j) + 1
  <2> DEFINE A == {k \in V : Worse(p, t, k, j)}
             B == SkipAll(w, A)
             C == {i \in U : Worse(q, t, i, s(j))}
  <2>1. C = B \cup {w} /\ w \notin B
    <3>0. B = {s(k) : k \in A}
      BY DEF SkipAll, s
    <3> HIDE DEF B
    <3>1. s(j) \in U \ {w}
      BY <1>3, <1>6, <1>8, <1>10
    <3>2. w \in C
      BY <3>1 DEF U
    <3>3. w \notin B
      BY <1>3, <1>8, <3>0
    <3>4. ASSUME NEW k \in A PROVE s(k) \in C
      BY <1>6, <1>7, <1>8, <1>10
    <3>5. ASSUME NEW i \in C, i # w PROVE i \in B
      <4>1. PICK k \in 1..(n - 1) : s(k) = i
        BY <1>1, <1>4, <3>5
      <4>2. k \in V /\ Worse(p, t, k, j)
        BY <1>6, <1>7, <1>8, <1>10, <4>1
      <4> QED
        BY <3>0, <4>1, <4>2
    <3> HIDE DEF A, C
    <3> QED
      BY <3>0, <3>2, <3>3, <3>4, <3>5
  <2>2. A \subseteq V
    OBVIOUS
  <2> HIDE DEF A, C
  <2>3. IsFiniteSet(A) /\ IsFiniteSet(B) /\ Cardinality(B) = Cardinality(A)
    <3>1. IsFiniteSet(A)
      BY <1>9, <2>2, FS_Subset
    <3>2. A \subseteq Int /\ w \in Int
      BY <1>1, <1>8, <2>2
    <3> QED
      BY <3>1, <3>2, SkipCard
  <2> HIDE DEF B
  <2>4. Cardinality(C) = Cardinality(A) + 1
    BY <2>1, <2>3, FS_AddElement
  <2> QED
    BY <2>4 DEF WorseThan, A, C, U, V
<1>11. w \in Out(q, used, t)
  <2>1. {i \in U : Worse(q, t, i, w)} = {}
    BY <1>1 DEF U, Worse
  <2>2. WorseThan(q, used, t, w) = 0
    BY <2>1, FS_EmptySet DEF WorseThan, U
  <2> QED
    BY <1>5, <2>2 DEF Out, n
<1>12. \A j \in 1..(n - 1) : j \in L <=> s(j) \in K
  <2> SUFFICES ASSUME NEW j \in 1..(n - 1) PROVE j \in L <=> s(j) \in K
    OBVIOUS
  <2>1. CASE j \notin V
    BY <1>1, <1>2, <1>3, <1>6, <2>1 DEF Out, U, V
  <2>2. CASE j \in V
    <3>1. WorseThan(p, used, t, j) \in Nat
      <4>1. IsFiniteSet({k \in V : Worse(p, t, k, j)})
        BY <1>9, FS_Subset
      <4> QED
        BY <4>1, FS_CardinalityType DEF WorseThan, V
    <3>2. WorseThan(q, used, t, s(j)) < e <=> WorseThan(p, used, t, j) < e - 1
      BY <1>5, <1>10, <2>2, <3>1
    <3>3. j \in Out(p, used, t) <=> s(j) \in Out(q, used, t)
      BY <1>5, <1>6, <2>2, <3>2 DEF Out, U, V, n
    <3> QED
      BY <1>1, <1>2, <1>3, <3>3
  <2> QED
    BY <2>1, <2>2
<1>13. K \subseteq 1..n \ {w} /\ L \subseteq 1..(n - 1) /\ K \subseteq Int /\ L \subseteq Int
  BY <1>1, <1>2, <1>11
<1>14. IsFiniteSet(K) /\ IsFiniteSet(L)
  <2>1. IsFiniteSet(1..n) /\ IsFiniteSet(1..(n - 1))
    BY <1>1, UpTo
  <2> QED
    BY <1>13, <2>1, FS_Subset
<1> HIDE DEF K, L
<1>15. K = {s(j) : j \in L} /\ K = SkipAll(w, L)
  <2>1. \A j \in L : s(j) \in K
    BY <1>12, <1>13
  <2>2. \A i \in K : \E j \in L : s(j) = i
    BY <1>4, <1>12, <1>13
  <2>3. SkipAll(w, L) = {s(j) : j \in L}
    BY DEF SkipAll, s
  <2> QED
    BY <2>1, <2>2, <2>3
<1>16. w \in Int /\ Cardinality(K) = Cardinality(L)
  <2>1. w \in Int
    BY <1>1
  <2> QED
    BY <1>13, <1>14, <1>15, <2>1, SkipCard
<1>17. ASSUME NEW j \in L PROVE Smaller(K, s(j)) = Smaller(L, j)
  <2> DEFINE A == {k \in L : k < j}
  <2>1. {i \in K : i < s(j)} = SkipAll(w, A)
    <3>1. {i \in K : i < s(j)} = {s(k) : k \in A}
      BY <1>3, <1>13, <1>15
    <3> QED
      BY <3>1 DEF SkipAll, s
  <2>2. A \subseteq L
    OBVIOUS
  <2> HIDE DEF A
  <2>3. Cardinality(SkipAll(w, A)) = Cardinality(A)
    <3>1. IsFiniteSet(A)
      BY <1>14, <2>2, FS_Subset
    <3>2. A \subseteq Int
      BY <1>13, <2>2
    <3> QED
      BY <1>16, <3>1, <3>2, SkipCard
  <2> QED
    BY <2>1, <2>3 DEF Smaller, A
<1>18. ASSUME NEW m \in 1..Cardinality(K) PROVE q[Nth(K, m)] = p[Nth(L, m)]
  <2>1. Nth(L, m) \in L /\ Smaller(L, Nth(L, m)) = m - 1
    BY <1>13, <1>14, <1>16, NthCounts
  <2>2. s(Nth(L, m)) \in K /\ Smaller(K, s(Nth(L, m))) = m - 1
    BY <1>15, <1>17, <2>1
  <2>3. s(Nth(L, m)) = Nth(K, m)
    BY <1>13, <1>14, <2>2, NthCounts
  <2> QED
    BY <1>2, <1>13, <2>1, <2>3
<1>19. At(q, K) = At(p, L)
  BY <1>16, <1>18 DEF At
<1> QED
  BY <1>2, <1>19, PruneIsAt DEF K, L, p

===============================================================================
