----------------------------- MODULE RelayMachine -----------------------------
(***************************************************************************)
(* The relay manager at work: the calls the event loop of                  *)
(* src/network/mod.rs makes, with the loop of prune_relays taken one       *)
(* iteration at a time.  A handler runs to its end before the next event   *)
(* is taken, so every event waits until the manager is idle again.         *)
(*                                                                         *)
(* What happens around the manager is reduced to what it looks at: the     *)
(* relays over which the view has a connection, and the round-trip times.  *)
(***************************************************************************)
EXTENDS RelayManager

CONSTANTS
  Peer,       \* the relays
  NoPeer,     \* no relay
  Rtts,       \* round-trip times the view may hold: 0 until the first ping
  MaxRtt      \* Duration::MAX, for a peer the view does not know

ASSUME MachineAssumption ==
  /\ NoPeer \notin Peer
  /\ IsFiniteSet(Peer)
  /\ Rtts \subseteq Nat /\ 0 \in Rtts
  /\ MaxRtt \in Nat /\ \A t \in Rtts : t < MaxRtt

VARIABLES
  reserved,    \* RelayManager::reserved
  in_use,      \* RelayManager::in_use
  carrying,    \* relays over which the view has a connection now
  rtt,         \* Peer -> Rtts \cup {MaxRtt}, from the view
  requested,   \* relays that were asked for a reservation and may grant it
  pruning,     \* prune_relays is running
  to_register, \* the relay the ConnectionEstablished handler has still to register
  unregistered \* history: relays with a circuit whose handler left before register,
               \* and which have not been registered since

vars == <<reserved, in_use, carrying, rtt, requested, pruning, to_register, unregistered>>

Init ==
  /\ reserved = <<>> /\ in_use = {} /\ carrying = {}
  /\ rtt = [r \in Peer |-> MaxRtt]
  /\ requested = {}
  /\ pruning = FALSE /\ to_register = NoPeer
  /\ unregistered = {}

Idle == ~pruning /\ to_register = NoPeer

\* update_relay_state: the relays in use are looked up, and the loop begins.  The
\* history forgets the relays that are not in use any more.
Update(used, registered) ==
  /\ in_use' = used
  /\ pruning' = TRUE
  /\ unregistered' = (unregistered \cap used) \ registered

----------------------------------------------------------------------------
(* Events *)

\* Identify: a relay with hop support is asked if there is room for it.  The
\* requests under way are not counted.
Identify ==
  /\ Idle
  /\ \E r \in Peer :
       /\ can_reserve(reserved, in_use, r)
       /\ requested' = requested \cup {r}
  /\ UNCHANGED <<reserved, in_use, carrying, rtt, pruning, to_register, unregistered>>

\* ReservationReqAccepted, for a first reservation or a renewal.
Accepted ==
  /\ Idle
  /\ \E r \in requested : reserved' = register(reserved, r) /\ Update(carrying, {r})
  /\ UNCHANGED <<carrying, rtt, requested, to_register>>

\* ConnectionEstablished over relay r: the state is brought up to date once
\* before r is registered, and once after.
Opened ==
  /\ Idle
  /\ \E r \in Peer :
       /\ carrying' = carrying \cup {r} /\ to_register' = r
       /\ Update(carrying \cup {r}, {})
  /\ UNCHANGED <<reserved, rtt, requested>>

\* The same when on_peer_connection_opened ends with an error, because mDNS does
\* not start (mod.rs:307, 437) or nobody receives events (mod.rs:297): the view has
\* the circuit, and neither the update nor register is reached.
OpenedHalfway ==
  /\ Idle
  /\ \E r \in Peer :
       /\ carrying' = carrying \cup {r}
       /\ unregistered' = unregistered \cup ({r} \ Range(reserved))
  /\ UNCHANGED <<reserved, in_use, rtt, requested, pruning, to_register>>

RegisterUsed ==
  /\ ~pruning /\ to_register # NoPeer
  /\ reserved' = register(reserved, to_register)
  /\ to_register' = NoPeer
  /\ Update(carrying, {to_register})
  /\ UNCHANGED <<carrying, rtt, requested>>

\* ConnectionClosed, or the opening of a connection that uses no relay: the
\* last connection over some relay may be gone.
Changed ==
  /\ Idle
  /\ \E gone \in SUBSET carrying :
       /\ Cardinality(gone) <= 1
       /\ carrying' = carrying \ gone
       /\ Update(carrying \ gone, {})
  /\ UNCHANGED <<reserved, rtt, requested, to_register>>

\* on_remove_address takes the connections with the address and does not
\* update the relay state.  A ConnectionClosed handler that leaves with an error
\* (mod.rs:271-281) does the same to it.
AddressRemoved ==
  /\ Idle
  /\ \E r \in carrying : carrying' = carrying \ {r}
  /\ UNCHANGED <<reserved, in_use, rtt, requested, pruning, to_register, unregistered>>

\* A ping, a first address of r, or the loss of the last one.
RttChanged ==
  /\ Idle
  /\ \E r \in Peer, t \in Rtts \cup {MaxRtt} : rtt' = [rtt EXCEPT ![r] = t]
  /\ UNCHANGED <<reserved, in_use, carrying, requested, pruning, to_register, unregistered>>

----------------------------------------------------------------------------
(* The loop of prune_relays *)

\* Disconnecting the relay ends a request or a reservation there.
PruneOne ==
  /\ pruning
  /\ should_prune(reserved, in_use)
  /\ Unused(reserved, in_use) # {}
  /\ LET i == WorstUnused(reserved, in_use, rtt)
     IN  /\ reserved' = RemovePlace(reserved, i)
         /\ requested' = requested \ {reserved[i]}
  /\ UNCHANGED <<in_use, carrying, rtt, pruning, to_register, unregistered>>

PruneDone ==
  /\ pruning
  /\ ~should_prune(reserved, in_use) \/ Unused(reserved, in_use) = {}
  /\ pruning' = FALSE
  /\ UNCHANGED <<reserved, in_use, carrying, rtt, requested, to_register, unregistered>>

----------------------------------------------------------------------------
Next ==
  \/ Identify
  \/ Accepted
  \/ Opened
  \/ OpenedHalfway
  \/ RegisterUsed
  \/ Changed
  \/ AddressRemoved
  \/ RttChanged
  \/ PruneOne
  \/ PruneDone

\* A handler that has begun runs to its end.
Fairness == WF_vars(PruneOne \/ PruneDone \/ RegisterUsed)

Spec == Init /\ [][Next]_vars /\ Fairness

----------------------------------------------------------------------------
(* Properties *)

\* The types, and no relay stands in the queue twice.
TypeOK ==
  /\ reserved \in Seq(Peer) /\ IsInjective(reserved)
  /\ in_use \subseteq Peer /\ carrying \subseteq Peer /\ requested \subseteq Peer
  /\ rtt \in [Peer -> Rtts \cup {MaxRtt}]
  /\ pruning \in BOOLEAN /\ to_register \in Peer \cup {NoPeer}
  /\ unregistered \subseteq Peer

\* "Keep all in-use relays + max_relays spare capacity" (relay_manager.rs:65-71):
\* when a handler is through, no more relays hold a reservation than that, although
\* requests are granted late and in bulk.  (relay_manager.rs:9 and 16 give N for the
\* total, which can_reserve and should_prune do not keep; see the README.)
Bounded == ~pruning => Len(reserved) <= Capacity(in_use)

\* "Never prune a relay that's actively carrying traffic" (relay_manager.rs:68): a
\* relay over which the view has a connection, or that is still counted as in use,
\* keeps its place from the moment it is registered.  The one it may not have yet is
\* the relay whose turn to be registered comes after a first run of the loop
\* (mod.rs:547-555), or one whose handler left before (mod.rs:307); and the loop
\* never works with an in_use that is out of date.
CarryingIsReserved ==
  /\ carrying \cup in_use \subseteq Range(reserved) \cup {to_register} \cup unregistered
  /\ pruning => in_use = carrying

\* What is reserved and not in use exceeds the spare allowance between two events
\* only by relays whose circuits were never registered: those count as in use
\* without a place, so the allowance is not eaten up by relays that are gone.
SpareBound ==
  Idle => Cardinality(Range(reserved) \ in_use) <= MaxRelays + Cardinality(unregistered)

\* The loop's way out "all reserved relays are carrying live traffic" is never
\* taken: whenever there are too many, one of them is unused (mod.rs:469-472).
BreakIsNeverTaken ==
  pruning /\ should_prune(reserved, in_use) => Unused(reserved, in_use) # {}

\* A relay that leaves the queue was not in use, and none of the unused relays
\* that stay has a longer round-trip time (relay_manager.rs:73-88).
DropsOnlyTheWorst ==
  [][\A r \in Range(reserved) \ Range(reserved') :
       /\ r \notin in_use
       /\ \A s \in Range(reserved) \ in_use : rtt[s] <= rtt[r]]_vars

\* "default to max duration if unknown" (relay_manager.rs:81): as long as an
\* unused relay was never measured (its time is still the default, 0), no relay
\* that was measured goes.
UnmeasuredGoesFirst ==
  [][\A r \in Range(reserved) \ Range(reserved'), s \in Range(reserved) \ in_use :
       rtt[s] = 0 => rtt[r] \in {0, MaxRtt}]_vars

\* The loop takes out what the operator prune_relays says, which is what the
\* node's specification uses for the whole of it.
LoopFollowsPlan ==
  [][pruning => prune_relays(reserved, in_use, rtt) =
                  IF pruning' THEN prune_relays(reserved', in_use', rtt') ELSE reserved]_vars

\* The while loop ends and the manager becomes idle again.
LoopEnds == pruning ~> Idle

\* The manager implements its stated policy, with the loop as one decision
\* (relay_manager.rs:65-68, 73-88; mod.rs:453-474): kept is what the loop, if it is
\* running, will leave.
Policy == INSTANCE RelayPolicy WITH
            kept <- Range(reserved) \ Pruned(reserved, in_use, rtt)

ImplementsPolicy == Policy!Spec
===============================================================================
