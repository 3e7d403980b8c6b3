------------------------------ MODULE RelayPolicy ------------------------------
(***************************************************************************)
(* The policy of should_prune and get_worst_unused (relay_manager.rs:65-68 *)
(* and 73-75): keep every reserved relay that carries traffic, keep as     *)
(* many of the others as "all in-use relays + max_relays spare capacity"   *)
(* leaves room for, and of those prefer the ones with the lower            *)
(* round-trip time.  "At most N reservations" and "maximum number of       *)
(* concurrent relay reservations" (relay_manager.rs:9 and 16) give another *)
(* bound, N in all, which is not the policy here: the code does not keep   *)
(* it.                                                                     *)
(*                                                                         *)
(* Decisions are atomic here and leave open which of two relays with the   *)
(* same round-trip time goes.                                              *)
(***************************************************************************)
EXTENDS Integers, FiniteSets

CONSTANTS Peer, MaxRelays

VARIABLES
  kept,     \* relays with a reservation that is to be kept
  in_use,   \* relays that carry traffic, as last looked up
  rtt       \* the round-trip time on record for each peer

vars == <<kept, in_use, rtt>>

AtMost(n, m) == IF n <= m THEN n ELSE m

\* The sets a decision may keep, out of cands, when the relays in use are used.
Keepable(cands, used) ==
  LET spare == AtMost(Cardinality(cands \ used),
                      Cardinality(used) + MaxRelays - Cardinality(cands \cap used))
  IN  {K \in SUBSET cands :
         /\ cands \cap used \subseteq K
         /\ Cardinality(K \ used) = spare
         /\ \A out \in cands \ K, spared \in K \ used : rtt[spared] <= rtt[out]}

Init == kept = {} /\ in_use = {} /\ rtt \in [Peer -> Nat]

\* A change of traffic or a new reservation, and the decision that follows.
Decide ==
  /\ in_use' \in SUBSET Peer
  /\ \E new \in SUBSET Peer :
       /\ Cardinality(new) <= 1
       /\ kept' \in Keepable(kept \cup new, in_use')
  /\ UNCHANGED rtt

Measure == rtt' \in [Peer -> Nat] /\ UNCHANGED <<kept, in_use>>

Next == Measure \/ Decide

Spec == Init /\ [][Next]_vars
===============================================================================
