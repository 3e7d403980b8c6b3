-------------------------- MODULE RelayMachine_proofs --------------------------
(***************************************************************************)
(* The relay manager's bounds, for any number of relays and any allowance. *)
(***************************************************************************)
EXTENDS RelayMachine, RelayManagerLemmas, WellFoundedInduction, NaturalsInduction

\* Every non-empty set of naturals has a least element.
LEMMA LeastNat ==
  ASSUME NEW S, S \subseteq Nat, S # {}
  PROVE  \E m \in S : \A n \in S : m <= n
<1> DEFINE R == OpToRel(<, Nat)
<1>1. IsWellFoundedOn(R, Nat)
  BY NatLessThanWellFounded, Zenon
<1> HIDE DEF R
<1>2. PICK m \in S : \A n \in S : ~(<<n, m>> \in R)
  BY <1>1, WFMin, Zenon
<1>3. \A n \in S : ~(n < m)
  BY <1>2, Zenon DEF R, OpToRel
<1> QED
  BY <1>3

\* When some relay is unused there is a worst one, it is unused, and no unused
\* one has a longer round-trip time (relay_manager.rs:76-88).
LEMMA WorstExists ==
  ASSUME NEW q \in Seq(Peer), NEW used, NEW t \in [Peer -> Rtts \cup {MaxRtt}],
         Unused(q, used) # {}
  PROVE  /\ WorstUnused(q, used, t) \in Unused(q, used)
         /\ \A j \in Unused(q, used) : t[q[j]] <= t[q[WorstUnused(q, used, t)]]
         /\ \A j \in Unused(q, used) \ {WorstUnused(q, used, t)} :
              Worse(q, t, WorstUnused(q, used, t), j)
<1> DEFINE U == Unused(q, used)
           Slack == {MaxRtt - t[q[i]] : i \in U}
<1>1. /\ U # {}
      /\ \A i \in U : i \in 1..Len(q) /\ q[i] \in Peer /\ t[q[i]] \in 0..MaxRtt
  <2>1. \A i \in U : i \in 1..Len(q) /\ q[i] \in Peer
    BY DEF Unused
  <2>2. \A x \in Rtts \cup {MaxRtt} : x \in 0..MaxRtt
    BY MachineAssumption
  <2> QED
    BY <2>1, <2>2
<1> HIDE DEF U
<1>2. Slack \subseteq Nat /\ Slack # {}
  BY <1>1, MachineAssumption
<1>3. PICK i \in U : \A j \in U : t[q[j]] <= t[q[i]]
  <2>1. PICK s \in Slack : \A r \in Slack : s <= r
    BY <1>2, LeastNat
  <2>2. PICK i \in U : s = MaxRtt - t[q[i]]
    BY <2>1
  <2>3. \A j \in U : MaxRtt - t[q[i]] <= MaxRtt - t[q[j]]
    BY <2>1, <2>2
  <2>4. \A j \in U : t[q[j]] <= t[q[i]]
    BY <1>1, <2>3, MachineAssumption
  <2> QED
    BY <2>4
<1> DEFINE Top == {j \in U : t[q[j]] = t[q[i]]}
           Back == {Len(q) - j : j \in Top}
<1>4. Back \subseteq Nat /\ Back # {} /\ Len(q) \in Nat
  BY <1>1
<1>5. PICK k \in Top : \A j \in Top : j <= k
  <2>1. PICK s \in Back : \A r \in Back : s <= r
    BY <1>4, LeastNat
  <2>2. PICK k \in Top : s = Len(q) - k
    BY <2>1
  <2>3. \A j \in Top : Len(q) - k <= Len(q) - j
    BY <2>1, <2>2
  <2>4. \A j \in Top : j <= k
    BY <1>1, <1>4, <2>3
  <2> QED
    BY <2>4
<1>6. \A j \in U \ {k} : Worse(q, t, k, j)
  BY <1>1, <1>3, <1>5, MachineAssumption DEF Worse
<1>7. /\ WorstUnused(q, used, t) \in U
      /\ \A j \in U \ {WorstUnused(q, used, t)} : Worse(q, t, WorstUnused(q, used, t), j)
  BY <1>5, <1>6 DEF WorstUnused, U
<1> QED
  <2> DEFINE w == WorstUnused(q, used, t)
  <2>1. \A j \in U : j # w => t[q[w]] >= t[q[j]]
    BY <1>1, <1>7, MachineAssumption DEF Worse
  <2> QED
    BY <1>1, <1>7, <2>1 DEF U

\* With nothing unused, the queue is no longer than the set in use.
LEMMA AllInUse ==
  ASSUME NEW q \in Seq(Peer), IsInjective(q), NEW used \in SUBSET Peer,
         Unused(q, used) = {}
  PROVE  Len(q) <= Capacity(used)
<1>1. IsFiniteSet(used) /\ Cardinality(used) \in Nat
  BY MachineAssumption, FS_Subset, FS_CardinalityType
<1>2. Range(q) \subseteq used
  BY DEF Unused, Range
<1>3. Cardinality(Range(q)) <= Cardinality(used)
  BY <1>1, <1>2, FS_Subset
<1>4. Cardinality(Range(q)) = Len(q) /\ Len(q) \in Nat
  BY QueueSize
<1> QED
  BY <1>1, <1>3, <1>4, RelayAssumption DEF Capacity

----------------------------------------------------------------------------
(***************************************************************************)
(* The inductive invariant.  in_use may lag behind carrying in both        *)
(* directions (an address removal and a handler that leaves half-way do    *)
(* not recompute it), but not while the loop runs, so that no relay the    *)
(* view has a connection over can be pruned.  That keeps carrying and      *)
(* in_use within the queue, but for the relays that were never registered, *)
(* and makes the spare allowance a bound.                                  *)
(***************************************************************************)
RelayInv == TypeOK /\ CarryingIsReserved /\ Bounded

\* The initial states satisfy the invariant.
LEMMA InitRelayInv == Init => RelayInv
<1> SUFFICES ASSUME Init PROVE RelayInv
  OBVIOUS
<1>1. TypeOK
  <2>1. reserved \in Seq(Peer) /\ IsInjective(reserved)
    BY DEF Init, IsInjective
  <2>2. rtt \in [Peer -> Rtts \cup {MaxRtt}]
    BY DEF Init
  <2> QED
    BY <2>1, <2>2 DEF Init, TypeOK
<1>2. CarryingIsReserved
  BY DEF Init, CarryingIsReserved
<1>3. Len(reserved) = 0 /\ Cardinality(in_use) = 0
  BY FS_EmptySet DEF Init
<1> QED
  BY <1>1, <1>2, <1>3, RelayAssumption DEF RelayInv, Bounded, Capacity

\* Every step keeps it.
LEMMA StepRelayInv == RelayInv /\ [Next]_vars => RelayInv'
<1> SUFFICES ASSUME RelayInv, [Next]_vars PROVE RelayInv'
  OBVIOUS
<1> USE DEF RelayInv, TypeOK
<1>1. CASE Identify
  BY <1>1 DEF Identify, Idle, CarryingIsReserved, Bounded
<1>2. CASE Accepted
  <2>1. PICK r \in Peer : reserved' = register(reserved, r) /\ Update(carrying, {r})
    BY <1>2 DEF Accepted
  <2>2. /\ reserved' \in Seq(Peer) /\ IsInjective(reserved')
        /\ Range(reserved') = Range(reserved) \cup {r}
    BY <2>1, RegisterKeepsOrder
  <2> QED
    BY <1>2, <2>1, <2>2 DEF Accepted, Update, Idle, CarryingIsReserved, Bounded
<1>3. CASE Opened
  <2>1. PICK r \in Peer : /\ carrying' = carrying \cup {r} /\ to_register' = r
                          /\ Update(carrying \cup {r}, {})
    BY <1>3 DEF Opened
  <2>2. carrying \subseteq Range(reserved) \cup unregistered
    BY <1>3, MachineAssumption DEF Opened, Idle, CarryingIsReserved
  <2> QED
    BY <1>3, <2>1, <2>2 DEF Opened, Update, CarryingIsReserved, Bounded
<1>4. CASE RegisterUsed
  <2>1. to_register \in Peer /\ reserved' = register(reserved, to_register)
    BY <1>4 DEF RegisterUsed
  <2>2. /\ reserved' \in Seq(Peer) /\ IsInjective(reserved')
        /\ Range(reserved') = Range(reserved) \cup {to_register}
    BY <2>1, RegisterKeepsOrder
  <2> QED
    BY <1>4, <2>1, <2>2 DEF RegisterUsed, Update, CarryingIsReserved, Bounded
<1>5. CASE Changed
  BY <1>5 DEF Changed, Update, Idle, CarryingIsReserved, Bounded
<1>6. CASE AddressRemoved
  BY <1>6 DEF AddressRemoved, Idle, CarryingIsReserved, Bounded
<1>7. CASE RttChanged
  BY <1>7 DEF RttChanged, CarryingIsReserved, Bounded
<1>8. CASE PruneOne
  <2> DEFINE i == WorstUnused(reserved, in_use, rtt)
  <2>1. i \in Unused(reserved, in_use)
    BY <1>8, WorstExists DEF PruneOne
  <2>2. i \in DOMAIN reserved /\ reserved[i] \notin in_use
    BY <2>1 DEF Unused
  <2>3. reserved' = RemovePlace(reserved, i) /\ requested' \subseteq requested
    BY <1>8 DEF PruneOne
  <2> HIDE DEF i
  <2>4. /\ reserved' \in Seq(Peer) /\ IsInjective(reserved')
        /\ Range(reserved') = Range(reserved) \ {reserved[i]}
    BY <2>2, <2>3, RemoveOne
  <2> QED
    BY <1>8, <2>2, <2>3, <2>4 DEF PruneOne, CarryingIsReserved, Bounded
<1>9. CASE PruneDone
  <2>1. Len(reserved) <= Capacity(in_use)
    <3>1. CASE Unused(reserved, in_use) = {}
      BY <3>1, AllInUse
    <3>2. CASE ~should_prune(reserved, in_use)
      <4>1. Cardinality(in_use) \in Nat /\ Len(reserved) \in Nat
        BY MachineAssumption, FS_Subset, FS_CardinalityType
      <4> QED
        BY <3>2, <4>1, RelayAssumption DEF should_prune, Capacity
    <3> QED
      BY <1>9, <3>1, <3>2 DEF PruneDone
  <2> QED
    BY <1>9, <2>1 DEF PruneDone, CarryingIsReserved, Bounded
<1>10. CASE OpenedHalfway
  <2>1. PICK r \in Peer : /\ carrying' = carrying \cup {r}
                          /\ unregistered' = unregistered \cup ({r} \ Range(reserved))
    BY <1>10 DEF OpenedHalfway
  <2> QED
    BY <1>10, <2>1 DEF OpenedHalfway, Idle, CarryingIsReserved, Bounded
<1>11. CASE UNCHANGED vars
  BY <1>11 DEF vars, CarryingIsReserved, Bounded
<1> QED
  BY <1>1, <1>2, <1>3, <1>4, <1>5, <1>6, <1>7, <1>8, <1>9, <1>10, <1>11 DEF Next

\* So it holds in every reachable state.
LEMMA RelayInvariant == Spec => []RelayInv
  BY InitRelayInv, StepRelayInv, PTL DEF Spec

----------------------------------------------------------------------------
\* The types, and no relay twice in the queue.
THEOREM TypeCorrect == Spec => []TypeOK
<1>1. RelayInv => TypeOK
  BY DEF RelayInv
<1> QED
  BY <1>1, RelayInvariant, PTL

\* Between two events at most the relays in use and MaxRelays more are reserved.
THEOREM ReservationsBounded == Spec => []Bounded
<1>1. RelayInv => Bounded
  BY DEF RelayInv
<1> QED
  BY <1>1, RelayInvariant, PTL

\* A relay that is registered keeps its place as long as the view has a connection
\* over it, also when handlers leave half-way.
THEOREM CarriersKept == Spec => []CarryingIsReserved
<1>1. RelayInv => CarryingIsReserved
  BY DEF RelayInv
<1> QED
  BY <1>1, RelayInvariant, PTL

\* Between two events at most MaxRelays reservations are unused, and one more for
\* every circuit whose handler left before it was registered.
THEOREM SparesBounded == Spec => []SpareBound
<1>1. RelayInv => SpareBound
  <2> SUFFICES ASSUME RelayInv, Idle
               PROVE  Cardinality(Range(reserved) \ in_use) <=
                        MaxRelays + Cardinality(unregistered)
    BY DEF SpareBound
  <2> DEFINE R == Range(reserved)
             U == in_use
             F == unregistered
  <2>1. /\ IsFiniteSet(R) /\ Cardinality(R) = Len(reserved) /\ Len(reserved) \in Nat
        /\ IsFiniteSet(U) /\ IsFiniteSet(F)
    <3>1. U \subseteq Peer /\ F \subseteq Peer
      BY DEF RelayInv, TypeOK
    <3> QED
      BY <3>1, QueueSize, MachineAssumption, FS_Subset DEF RelayInv, TypeOK
  <2>2. Len(reserved) <= Cardinality(U) + MaxRelays
    BY DEF RelayInv, Bounded, Idle, Capacity
  <2>3. U \ R \subseteq F
    BY MachineAssumption DEF RelayInv, TypeOK, CarryingIsReserved, Idle
  <2> HIDE DEF R, U, F
  <2>4. Cardinality(R \ U) = Cardinality(R) - Cardinality(R \cap U)
    BY <2>1, FS_Difference
  <2>5. Cardinality(U \ R) = Cardinality(U) - Cardinality(U \cap R)
    BY <2>1, FS_Difference
  <2>6. R \cap U = U \cap R
    OBVIOUS
  <2>7. Cardinality(U \ R) <= Cardinality(F)
    BY <2>1, <2>3, FS_Subset
  <2>8. /\ Cardinality(F) \in Nat /\ Cardinality(U) \in Nat
        /\ Cardinality(U \cap R) \in Nat
    <3>1. IsFiniteSet(U \cap R)
      BY <2>1, FS_Intersection
    <3> QED
      BY <2>1, <3>1, FS_CardinalityType
  <2>9. Cardinality(R \ U) <= MaxRelays + Cardinality(F)
    <3> DEFINE both == Cardinality(U \cap R)
               spare == Cardinality(R \ U)
               lost == Cardinality(U \ R)
    <3>1. spare = Len(reserved) - both /\ lost = Cardinality(U) - both
      BY <2>1, <2>4, <2>5, <2>6
    <3> HIDE DEF both, spare, lost
    <3> QED
      BY <2>1, <2>2, <2>7, <2>8, <3>1, RelayAssumption DEF both, spare, lost
  <2> QED
    BY <2>9 DEF R, U, F
<1> QED
  BY <1>1, RelayInvariant, PTL

\* The loop's way out for want of an unused relay is dead code.
THEOREM BreakIsDead == Spec => []BreakIsNeverTaken
<1>1. RelayInv => BreakIsNeverTaken
  <2> SUFFICES ASSUME RelayInv, should_prune(reserved, in_use), Unused(reserved, in_use) = {}
               PROVE  FALSE
    BY DEF BreakIsNeverTaken
  <2>1. Len(reserved) <= Capacity(in_use)
    BY AllInUse DEF RelayInv, TypeOK
  <2>2. Cardinality(in_use) \in Nat /\ Len(reserved) \in Nat
    BY MachineAssumption, FS_Subset, FS_CardinalityType DEF RelayInv, TypeOK
  <2> QED
    BY <2>1, <2>2, RelayAssumption DEF should_prune, Capacity
<1> QED
  BY <1>1, RelayInvariant, PTL

\* Only the worst of the unused relays ever leaves the queue.
THEOREM OnlyTheWorstGoes == Spec => DropsOnlyTheWorst
<1> DEFINE Drop == \A r \in Range(reserved) \ Range(reserved') :
                     /\ r \notin in_use
                     /\ \A s \in Range(reserved) \ in_use : rtt[s] <= rtt[r]
<1>1. RelayInv /\ [Next]_vars => [Drop]_vars
  <2> SUFFICES ASSUME RelayInv, Next PROVE Drop
    OBVIOUS
  <2> USE DEF RelayInv, TypeOK
  <2>1. CASE PruneOne
    <3> DEFINE i == WorstUnused(reserved, in_use, rtt)
    <3>1. /\ i \in Unused(reserved, in_use)
          /\ \A j \in Unused(reserved, in_use) : rtt[reserved[j]] <= rtt[reserved[i]]
      BY <2>1, WorstExists DEF PruneOne
    <3>2. i \in DOMAIN reserved /\ reserved[i] \notin in_use
      BY <3>1 DEF Unused
    <3>3. reserved' = RemovePlace(reserved, i)
      BY <2>1 DEF PruneOne
    <3> HIDE DEF i
    <3>4. Range(reserved') = Range(reserved) \ {reserved[i]}
      BY <3>2, <3>3, RemoveOne
    <3>5. \A s \in Range(reserved) \ in_use : rtt[s] <= rtt[reserved[i]]
      BY <3>1 DEF Unused, Range
    <3> QED
      BY <3>2, <3>4, <3>5
  <2>2. CASE Accepted
    BY <2>2, RegisterKeepsOrder DEF Accepted
  <2>3. CASE RegisterUsed
    BY <2>3, RegisterKeepsOrder DEF RegisterUsed
  <2>4. CASE (Identify \/ Opened \/ OpenedHalfway) \/ (Changed \/ AddressRemoved \/ RttChanged)
             \/ PruneDone
    BY <2>4 DEF Identify, Opened, OpenedHalfway, Changed, AddressRemoved, RttChanged, PruneDone
  <2> QED
    BY <2>1, <2>2, <2>3, <2>4 DEF Next
<1> QED
  BY <1>1, RelayInvariant, PTL DEF Spec, DropsOnlyTheWorst

----------------------------------------------------------------------------
(* The loop as one decision, and the policy *)

\* The state gives the lemmas about pruning what they ask for.
LEMMA QueueFacts ==
  ASSUME RelayInv
  PROVE  /\ reserved \in Seq(Peer) /\ IsInjective(reserved)
         /\ IsFiniteSet(in_use) /\ in_use \subseteq Peer
         /\ \A r \in Peer : rtt[r] \in Nat /\ rtt[r] \in Int
<1>1. IsFiniteSet(in_use)
  BY MachineAssumption, FS_Subset DEF RelayInv, TypeOK
<1>2. Rtts \cup {MaxRtt} \subseteq Nat
  BY MachineAssumption
<1> QED
  BY <1>1, <1>2 DEF RelayInv, TypeOK

\* One iteration takes the first of the relays that are to go, and the end of
\* the loop finds none.
LEMMA PlanStep ==
  ASSUME RelayInv, pruning, Next
  PROVE  /\ in_use' = in_use /\ rtt' = rtt
         /\ prune_relays(reserved, in_use, rtt) =
              IF pruning' THEN prune_relays(reserved', in_use', rtt') ELSE reserved
         /\ ~pruning' => reserved' = reserved
<1>1. CASE PruneOne
  <2> DEFINE w == WorstUnused(reserved, in_use, rtt)
             U == Unused(reserved, in_use)
  <2>1. U # {} /\ should_prune(reserved, in_use)
    BY <1>1 DEF PruneOne
  <2>2. w \in U /\ \A j \in U \ {w} : Worse(reserved, rtt, w, j)
    BY <2>1, WorstExists DEF RelayInv, TypeOK
  <2>3. reserved' = RemovePlace(reserved, w) /\ UNCHANGED <<in_use, rtt, pruning>>
    BY <1>1 DEF PruneOne
  <2> HIDE DEF w
  <2>4. prune_relays(RemovePlace(reserved, w), in_use, rtt) = prune_relays(reserved, in_use, rtt)
    BY <2>1, <2>2, QueueFacts, PruneWorstFirst
  <2> QED
    BY <2>3, <2>4
<1>2. CASE PruneDone
  <2>1. prune_relays(reserved, in_use, rtt) = reserved
    BY <1>2, QueueFacts, NothingToPrune DEF PruneDone
  <2> QED
    BY <1>2, <2>1 DEF PruneDone
<1> QED
  BY <1>1, <1>2 DEF Next, Identify, Accepted, Opened, OpenedHalfway, RegisterUsed, Changed,
                    AddressRemoved, RttChanged, Idle

\* The loop as a whole takes out what the operator prune_relays says.
THEOREM LoopIsThePlan == Spec => LoopFollowsPlan
<1> DEFINE Plan == pruning => prune_relays(reserved, in_use, rtt) =
                     IF pruning' THEN prune_relays(reserved', in_use', rtt') ELSE reserved
<1>1. RelayInv /\ [Next]_vars => [Plan]_vars
  BY PlanStep
<1> HIDE DEF Plan
<1>2. Spec => [][Plan]_vars
  BY <1>1, RelayInvariant, PTL DEF Spec
<1> QED
  BY <1>2 DEF Plan, LoopFollowsPlan

\* Taking out what Pruned says leaves what prune_relays says.
LEMMA PruneLeaves ==
  ASSUME NEW q \in Seq(Peer), IsInjective(q), NEW used, NEW t
  PROVE  Range(prune_relays(q, used, t)) = Range(q) \ Pruned(q, used, t)
<1> DEFINE O == Out(q, used, t)
           K == DOMAIN q \ O
<1>1. /\ prune_relays(q, used, t) = At(q, K) /\ Pruned(q, used, t) = {q[i] : i \in O}
      /\ O \subseteq DOMAIN q
  <2>1. O \subseteq Unused(q, used)
    BY PruneIsAt
  <2>2. prune_relays(q, used, t) = At(q, K) /\ Pruned(q, used, t) = {q[i] : i \in O}
    BY PruneIsAt
  <2> QED
    BY <2>1, <2>2 DEF Unused
<1> HIDE DEF O
<1>2. Range(At(q, K)) = {q[i] : i \in K}
  BY AtPlaces
<1>3. Range(q) \ {q[i] : i \in O} = {q[i] : i \in K}
  BY <1>1 DEF Range, IsInjective
<1> QED
  BY <1>1, <1>2, <1>3

Kept == Range(reserved) \ Pruned(reserved, in_use, rtt)

\* Between two handlers the queue holds what is to be kept.
LEMMA KeptWhenIdle == RelayInv /\ ~pruning => Kept = Range(reserved)
<1> SUFFICES ASSUME RelayInv, ~pruning PROVE Kept = Range(reserved)
  OBVIOUS
<1>1. Len(reserved) <= Capacity(in_use)
  BY DEF RelayInv, Bounded
<1>2. Cardinality(in_use) \in Nat /\ Len(reserved) \in Nat
  BY QueueFacts, FS_CardinalityType
<1>3. ~should_prune(reserved, in_use)
  BY <1>1, <1>2, RelayAssumption DEF should_prune, Capacity
<1>4. prune_relays(reserved, in_use, rtt) = reserved
  BY <1>3, QueueFacts, NothingToPrune
<1> QED
  BY <1>4, QueueFacts, PruneLeaves DEF Kept

\* And the same of the state after a step.
LEMMA KeptThen == (RelayInv /\ ~pruning => Kept = Range(reserved))'
  BY KeptWhenIdle, PTL

\* In the state after a step, what is kept is what the loop will leave.
LEMMA KeptLeft ==
  ASSUME RelayInv'
  PROVE  Kept' = Range(prune_relays(reserved', in_use', rtt'))
<1>1. reserved' \in Seq(Peer) /\ IsInjective(reserved')
  BY DEF RelayInv, TypeOK
<1>2. Range(prune_relays(reserved', in_use', rtt')) =
        Range(reserved') \ Pruned(reserved', in_use', rtt')
  BY <1>1, PruneLeaves
<1> QED
  BY <1>2 DEF Kept

\* The policy counts as the manager does.
LEMMA PolicyCounts == \A S : Policy!Cardinality(S) = Cardinality(S)
  BY DEF Policy!Cardinality, Cardinality

\* What is left of a queue is one of the choices the policy leaves.
LEMMA PruneIsKeepable ==
  ASSUME NEW q \in Seq(Peer), IsInjective(q), NEW used \in SUBSET Peer,
         \A r \in Peer : rtt[r] \in Int
  PROVE  Range(prune_relays(q, used, rtt)) \in Policy!Keepable(Range(q), used)
<1> DEFINE K == Range(prune_relays(q, used, rtt))
           cands == Range(q)
<1>1. IsFiniteSet(used)
  BY MachineAssumption, FS_Subset
<1>2. K \subseteq cands /\ cands \cap used \subseteq K
  BY <1>1, PruneFits
<1>3. \A out \in cands \ K, spared \in K \ used : rtt[spared] <= rtt[out]
  BY <1>1, PruneTakesTheWorst
<1>4. Cardinality(K \ used) =
        Policy!AtMost(Cardinality(cands \ used),
                      Cardinality(used) + MaxRelays - Cardinality(cands \cap used))
  <2> DEFINE spare == Cardinality(cands \ used)
             room == Capacity(used) - Cardinality(cands \cap used)
  <2>1. Cardinality(K \ used) = IF spare <= room THEN spare ELSE room
    BY <1>1, PruneFillsTheRoom
  <2>2. room = Cardinality(used) + (MaxRelays - Cardinality(cands \cap used))
    <3>1. cands \cap used \subseteq used
      OBVIOUS
    <3> HIDE DEF cands
    <3>2. Cardinality(cands \cap used) \in Nat /\ Cardinality(used) \in Nat
      BY <1>1, <3>1, FS_Subset, FS_CardinalityType
    <3> QED
      BY <3>2, RelayAssumption DEF Capacity
  <2> HIDE DEF spare, room, K, cands
  <2>3. Policy!AtMost(spare, room) = IF spare <= room THEN spare ELSE room
    BY DEF Policy!AtMost
  <2> QED
    BY <2>1, <2>2, <2>3 DEF spare
<1> HIDE DEF K, cands
<1>5. K \in Policy!Keepable(cands, used)
  BY <1>2, <1>3, <1>4, PolicyCounts DEF Policy!Keepable
<1> QED
  BY <1>5 DEF K, cands

\* A handler that recomputes in_use, with at most one relay more in the queue,
\* takes one decision of the policy.
LEMMA Decides ==
  ASSUME RelayInv, RelayInv', ~pruning, rtt' = rtt, NEW new \in SUBSET Peer,
         Cardinality(new) <= 1, Range(reserved') = Range(reserved) \cup new
  PROVE  Policy!Decide
<1>1. Range(prune_relays(reserved', in_use', rtt')) \in Policy!Keepable(Range(reserved'), in_use')
  <2>1. reserved' \in Seq(Peer) /\ IsInjective(reserved') /\ in_use' \in SUBSET Peer
    BY DEF RelayInv, TypeOK
  <2> QED
    BY <2>1, QueueFacts, PruneIsKeepable
<1>2. Range(reserved') = Kept \cup new
  BY KeptWhenIdle
<1>3. in_use' \in SUBSET Peer
  BY DEF RelayInv, TypeOK
<1>4. Kept' = Range(prune_relays(reserved', in_use', rtt'))
  BY KeptLeft
<1>5. Kept' \in Policy!Keepable(Kept \cup new, in_use')
  BY <1>1, <1>2, <1>4
<1> QED
  BY <1>3, <1>5, PolicyCounts DEF Policy!Decide, Kept

\* The manager, with its loop taken in steps and with in_use out of date at
\* times, does what the policy says.
THEOREM PolicyHolds == Spec => ImplementsPolicy
<1>1. Init => Policy!Init
  <2> SUFFICES ASSUME Init PROVE Policy!Init
    OBVIOUS
  <2>1. RelayInv
    BY InitRelayInv
  <2>2. Kept = {} /\ in_use = {}
    BY <2>1, KeptWhenIdle DEF Init, Range
  <2>3. rtt \in [Peer -> Nat]
    BY MachineAssumption DEF Init
  <2> QED
    BY <2>2, <2>3 DEF Policy!Init, Kept
<1>2. RelayInv /\ [Next]_vars => [Policy!Next]_Policy!vars
  <2> SUFFICES ASSUME RelayInv, [Next]_vars PROVE Policy!Next \/ UNCHANGED Policy!vars
    OBVIOUS
  <2>1. RelayInv'
    BY StepRelayInv
  <2>2. Cardinality({}) = 0
    BY FS_EmptySet
  <2>3. CASE pruning /\ Next
    <3>1. in_use' = in_use /\ rtt' = rtt
      BY <2>3, PlanStep
    <3>2. prune_relays(reserved', in_use', rtt') = prune_relays(reserved, in_use, rtt)
      <4>1. CASE pruning'
        BY <2>3, <4>1, PlanStep
      <4>2. CASE ~pruning'
        BY <2>3, <3>1, <4>2, PlanStep
      <4> QED
        BY <4>1, <4>2
    <3>3. Kept = Range(prune_relays(reserved, in_use, rtt))
      BY QueueFacts, PruneLeaves DEF Kept
    <3>4. Kept' = Kept
      BY <2>1, <3>2, <3>3, KeptLeft
    <3> QED
      BY <3>1, <3>4 DEF Policy!vars, Kept
  <2>4. CASE ~pruning /\ (Accepted \/ RegisterUsed)
    <3>1. PICK r \in Peer : reserved' = register(reserved, r) /\ rtt' = rtt
      BY <2>4 DEF Accepted, RegisterUsed, RelayInv, TypeOK
    <3>2. Range(reserved') = Range(reserved) \cup {r}
      BY <3>1, QueueFacts, RegisterKeepsOrder
    <3>3. {r} \in SUBSET Peer /\ Cardinality({r}) <= 1
      <4>1. Cardinality({r}) = 1
        BY FS_Singleton
      <4> QED
        BY <4>1
    <3>4. Policy!Decide
      BY <2>1, <2>4, <3>1, <3>2, <3>3, Decides
    <3> QED
      BY <3>4 DEF Policy!Next
  <2>5. CASE ~pruning /\ (Opened \/ Changed)
    <3>1. reserved' = reserved /\ rtt' = rtt
      BY <2>5 DEF Opened, Changed
    <3>2. {} \in SUBSET Peer /\ Cardinality({}) <= 1 /\ Range(reserved') = Range(reserved) \cup {}
      BY <2>2, <3>1
    <3>3. Policy!Decide
      BY <2>1, <2>5, <3>1, <3>2, Decides
    <3> QED
      BY <3>3 DEF Policy!Next
  <2>6. CASE ~pruning /\ RttChanged
    <3>1. UNCHANGED <<reserved, in_use, pruning>>
      BY <2>6 DEF RttChanged
    <3>2. Kept' = Kept
      <4>1. Kept' = Range(reserved')
        BY <2>1, <2>6, <3>1, KeptThen
      <4> QED
        BY <2>6, <3>1, <4>1, KeptWhenIdle
    <3>3. rtt' \in [Peer -> Nat]
      BY <2>1, MachineAssumption DEF RelayInv, TypeOK
    <3>4. Policy!Measure
      BY <3>1, <3>2, <3>3 DEF Policy!Measure, Kept
    <3> QED
      BY <3>4 DEF Policy!Next
  <2>7. CASE (Identify \/ AddressRemoved \/ OpenedHalfway) \/ UNCHANGED vars
    BY <2>7 DEF Identify, AddressRemoved, OpenedHalfway, vars, Policy!vars
  <2>8. Next => pruning \/ (~pruning /\ (Accepted \/ RegisterUsed \/ Opened \/ Changed \/ RttChanged
                                         \/ Identify \/ AddressRemoved \/ OpenedHalfway))
    BY DEF Next, PruneOne, PruneDone
  <2> QED
    BY <2>3, <2>4, <2>5, <2>6, <2>7, <2>8
<1> QED
  BY <1>1, <1>2, RelayInvariant, PTL DEF Spec, ImplementsPolicy, Policy!Spec

===============================================================================
