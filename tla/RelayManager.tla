----------------------------- MODULE RelayManager -----------------------------
(***************************************************************************)
(* The decisions of src/network/relay_manager.rs as operators.             *)
(*                                                                         *)
(* "reserved" is the VecDeque of relays with a reservation, oldest first;  *)
(* "in_use" the relays that carry traffic as of the last recomputation;    *)
(* "rtt" maps a relay to the round-trip time the view has for it, or to    *)
(* MaxRtt (Duration::MAX) when the view does not know the peer.            *)
(***************************************************************************)
EXTENDS Integers, Sequences, FiniteSets, Functions

CONSTANT
  MaxRelays    \* max_relays: 4 in SavedNetwork::new

ASSUME RelayAssumption == MaxRelays \in Nat

Capacity(in_use) == Cardinality(in_use) + MaxRelays

can_reserve(reserved, in_use, r) ==
  r \in Range(reserved) \/ Len(reserved) < Capacity(in_use)

\* Mutant of register: no look at what is there.
register_again(reserved, r) == Append(reserved, r)

register(reserved, r) ==
  IF r \in Range(reserved) THEN reserved ELSE Append(reserved, r)

\* Mutant of should_prune: off by one.
should_prune_late(reserved, in_use) == Len(reserved) > Capacity(in_use) + 1

should_prune(reserved, in_use) == Len(reserved) > Capacity(in_use)

\* Mutant of Unused: the filter is dropped.
AnyPlace(reserved, in_use) == DOMAIN reserved

\* Places in the queue of the relays that may be pruned.
Unused(reserved, in_use) == {i \in DOMAIN reserved : reserved[i] \notin in_use}

\* Mutant of Worse: min_by_key.
Better(reserved, rtt, i, j) ==
  \/ rtt[reserved[i]] < rtt[reserved[j]]
  \/ rtt[reserved[i]] = rtt[reserved[j]] /\ i < j

\* Of two places, the one max_by_key prefers: the higher round-trip time and,
\* between equals, the later place.
Worse(reserved, rtt, i, j) ==
  \/ rtt[reserved[i]] > rtt[reserved[j]]
  \/ rtt[reserved[i]] = rtt[reserved[j]] /\ i > j

\* Mutant of WorstUnused: the oldest unused one.
OldestUnused(reserved, in_use, rtt) ==
  CHOOSE i \in Unused(reserved, in_use) : \A j \in Unused(reserved, in_use) : i <= j

\* The place of get_worst_unused's answer, when there is one.
WorstUnused(reserved, in_use, rtt) ==
  CHOOSE i \in Unused(reserved, in_use) :
    \A j \in Unused(reserved, in_use) \ {i} : Worse(reserved, rtt, i, j)

\* Mutant of RemovePlace: nothing is removed.
RemoveNothing(reserved, i) == reserved

\* VecDeque::remove(i)
RemovePlace(reserved, i) ==
  [j \in 1..(Len(reserved) - 1) |-> reserved[IF j < i THEN j ELSE j + 1]]

(***************************************************************************)
(* What the loop of prune_relays takes out, in one step: the in_use set    *)
(* and the view stay as they are while it runs, so it takes the worst      *)
(* unused relays in order until the rest fits (RelayMachine runs the loop  *)
(* itself, and LoopFollowsPlan relates the two).                           *)
(***************************************************************************)
Pruned(reserved, in_use, rtt) ==
  LET unused == Unused(reserved, in_use)
      excess == Len(reserved) - Capacity(in_use)
  IN  {reserved[i] : i \in
        {i \in unused :
           Cardinality({j \in unused : Worse(reserved, rtt, j, i)}) < excess}}

\* The n-th smallest of the places in K.
Nth(K, n) == CHOOSE i \in K : Cardinality({j \in K : j < i}) = n - 1

\* The queue without them, in the same order.
prune_relays(reserved, in_use, rtt) ==
  LET out  == Pruned(reserved, in_use, rtt)
      stay == {i \in DOMAIN reserved : reserved[i] \notin out}
  IN  [n \in 1..Cardinality(stay) |-> reserved[Nth(stay, n)]]
===============================================================================
