------------------------------- MODULE Reconcile -------------------------------
(***************************************************************************)
(* reconcile_peer_connections of src/network/mod.rs, as what it does to    *)
(* the view and asks of the swarm.  What the swarm refuses to dial at once *)
(* is the argument refused.                                                *)
(***************************************************************************)
EXTENDS NetworkView

CONSTANT Leads    \* the peers with a greater id than ours: is_prune_leader

ASSUME LeadsAssumption == Leads \subseteq Peer

Outcome(v) == [peers |-> v, dial |-> NoAddr, close |-> {}, diverges |-> FALSE]

\* Of a set of addresses, the one that ranks first.
FirstRanked(S) == CHOOSE a \in S : \A b \in S : Rank[a] <= Rank[b]

\* Mutant of DialUntilAccepted: the next best address is not tried.
DialBestOnly(v, p, refused) ==
  [Outcome(v) EXCEPT !.dial = IF Best(v, p) \in refused THEN NoAddr ELSE Best(v, p),
                     !.diverges = Best(v, p) \in refused]

(***************************************************************************)
(* The recursion for a peer without a connection.  Each refused dial marks *)
(* the best address and starts over, so the addresses out of cooldown are  *)
(* tried in order of rank.  When all of them are refused, the one that     *)
(* ranks first of all is tried, and if that is refused too it stays the    *)
(* best of the cooling ones however often it is marked: the recursion does *)
(* not come back (ReconcileIsTheRecursion in NetworkViewMachine).          *)
(***************************************************************************)
DialUntilAccepted(v, p, refused) ==
  LET known  == AddressesOf(v, p)
      warm   == {a \in DOMAIN known : ~is_in_cooldown(known[a])}
      good   == warm \ refused
      pick   == FirstRanked(IF good = {} THEN DOMAIN known ELSE good)
      failed == {a \in warm \cap refused : good = {} \/ Rank[a] < Rank[pick]}
  IN  [Outcome(MarkFailures(v, p, failed)) EXCEPT
         !.dial = IF pick \in refused THEN NoAddr ELSE pick,
         !.diverges = pick \in refused]

\* Mutant of Reconcile: a connection is good enough.
ReconcileStays(v, p, refused) ==
  IF AddressesOf(v, p) = <<>> \/ IsConnected(v, p) THEN Outcome(v)
  ELSE DialUntilAccepted(v, p, refused)

\* Mutant of Reconcile: either side dials for the best and prunes the rest.
ReconcileNoLeader(v, p, refused) ==
  LET known == AddressesOf(v, p)
  IN  IF known = <<>> THEN Outcome(v)
      ELSE IF IsConnectedOver(v, p, Best(v, p))
      THEN [Outcome(v) EXCEPT !.close = ConnsOf(v, p) \ known[Best(v, p)].active_connections]
      ELSE DialUntilAccepted(v, p, refused)

Reconcile(v, p, refused) ==
  LET known == AddressesOf(v, p)
      best  == Best(v, p)
  IN  CASE DOMAIN known = {} -> Outcome(v)
        [] IsConnectedOver(v, p, best) ->
             [Outcome(v) EXCEPT !.close =
                IF p \in Leads THEN ConnsOf(v, p) \ known[best].active_connections ELSE {}]
        [] DOMAIN known # {} /\ ~IsConnected(v, p) -> DialUntilAccepted(v, p, refused)
        [] IsConnected(v, p) /\ ~IsConnectedOver(v, p, best) ->
             IF p \notin Leads THEN Outcome(v)
             ELSE IF best \in refused THEN Outcome(MarkFailure(v, p, best))
             ELSE [Outcome(v) EXCEPT !.dial = best]

\* The view after n refused dials of what was then the best address: the recursion
\* of reconcile, call by call.
AfterRefusals(v, p) ==
  LET after[n \in 0..Cardinality(Addr)] ==
        IF n = 0 THEN v ELSE LET w == after[n - 1] IN MarkFailure(w, p, Best(w, p))
  IN  after
===============================================================================
