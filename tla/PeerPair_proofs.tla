---------------------------- MODULE PeerPair_proofs ----------------------------
(***************************************************************************)
(* For any two nodes, any addresses and any number of links: as long as no *)
(* link breaks by itself, the two never prune each other apart; and when   *)
(* they come to rest, both count the same links, over the best address of  *)
(* the leader.                                                             *)
(***************************************************************************)
EXTENDS PeerPair, NetworkViewLemmas, FiniteSetTheorems

----------------------------------------------------------------------------
(* The two nodes *)

\* There is one other node.
LEMMA OtherIs ==
  ASSUME NEW n \in Peer
  PROVE  /\ Other(n) \in Peer /\ Other(n) # n
         /\ \A m \in Peer : m = n \/ m = Other(n)
<1>1. IsFiniteSet(Peer \ {n}) /\ Cardinality(Peer \ {n}) = 1
  <2>1. IsFiniteSet(Peer) /\ Cardinality(Peer) = 2
    BY PairAssumption
  <2>2. IsFiniteSet(Peer \ {n}) /\ Cardinality(Peer \ {n}) = 2 - 1
    BY <2>1, FS_RemoveElement
  <2> QED
    BY <2>2
<1>2. PICK m : Peer \ {n} = {m}
  BY <1>1, FS_Singleton
<1> QED
  BY <1>2 DEF Other

\* One of them leads.
LEMMA OneLeader ==
  ASSUME NEW n \in Peer, NEW m \in Peer, Other(n) \in Leads, Other(m) \in Leads
  PROVE  n = m
<1>1. IsFiniteSet(Leads)
  BY PairAssumption, LeadsAssumption, FS_Subset
<1>2. PICK f : Leads = {f}
  BY <1>1, PairAssumption, FS_Singleton
<1> QED
  BY <1>2, OtherIs

----------------------------------------------------------------------------
(* The inductive invariant *)

\* Connection c counts at node n, for its address a.
Counts(n, a, c) == Holds(view[n], Other(n), a, c)

\* The views are sound and no address has failed in them; a link is free when it is
\* nowhere, and only a link can be dead.
PairType ==
  /\ view = [n \in Peer |-> view[n]]
  /\ \A n \in Peer : SoundView(view[n]) /\ Rested(view[n])
  /\ end \in [ConnId -> [Peer -> {"none", "coming", "up"}]]
  /\ link \in [ConnId -> [to : Addr, from : Addr] \cup {Free}]
  /\ \A c \in ConnId : link[c] = Free <=> end[c] = Nowhere
  /\ dead \subseteq Links
  /\ breaks \in Nat

\* A view counts the links that are up at its end, and no other.
Agrees == \A n \in Peer, c \in ConnId : end[c][n] = "up" <=> \E a : Counts(n, a, c)

\* Node n has told no link to close that it has not heard of or that is its best, and
\* if it has told any, it has another one.
Pruned(n) ==
  /\ \A c \in dead : end[c][n] # "coming" /\ ~Counts(n, Best(view[n], Other(n)), c)
  /\ dead # {} => \E a, c : Counts(n, a, c) /\ c \notin dead

Prunes == breaks = 0 => \A n \in Peer : Other(n) \in Leads => Pruned(n)

PairInv == PairType /\ Agrees /\ Prunes

----------------------------------------------------------------------------
(* The steps *)

\* Node n goes from its view to v, in which nothing has failed, and reconciles: what it
\* closes is neither lost from v nor of its best address, and only a leader closes.
LEMMA Closes ==
  ASSUME NEW n \in Peer, NEW v, SoundView(v)
  PROVE  LET o == Reconcile(v, Other(n), {}) IN
         /\ o.peers = v
         /\ \A c \in o.close :
              /\ Other(n) \in Leads
              /\ ~Holds(v, Other(n), Best(v, Other(n)), c)
              /\ \E a : Holds(v, Other(n), a, c)
              /\ \E d : Holds(v, Other(n), Best(v, Other(n)), d)
  BY ReconcileDials, ReconcilePrunes

\* What is at the best address afterwards is new there, or was at it before.
LEMMA BestBefore ==
  ASSUME NEW v, SoundView(v), Rested(v), NEW w, SoundView(w), Rested(w), NEW p,
         \A b : Has(v, p, b) => Has(w, p, b), NEW c, Holds(v, p, Best(w, p), c)
  PROVE  Holds(v, p, Best(v, p), c)
<1>1. Has(v, p, Best(w, p))
  BY DEF Holds, Has
<1> QED
  BY <1>1, BestStays

\* A node that reconciles after an event in which it loses only dead links, and hears
\* only of links that are not.
LEMMA ReconciledPrunes ==
  ASSUME PairInv, breaks = 0, NEW n \in Peer, Other(n) \in Leads,
         NEW v, SoundView(v), Rested(v),
         \A b : Has(view[n], Other(n), b) => Has(v, Other(n), b),
         \A a, c : Holds(v, Other(n), a, c) => Counts(n, a, c) \/ c \notin dead,
         \A a, c : Counts(n, a, c) /\ c \notin dead => Holds(v, Other(n), a, c),
         NEW o, o = Reconcile(v, Other(n), {}), view'[n] = v,
         NEW d, dead' = (dead \cup o.close) \ d,
         \A c \in o.close \cup dead : end'[c][n] # "coming"
  PROVE  Pruned(n)'
<1> DEFINE p == Other(n)
           best == Best(v, p)
<1>1. \A c \in o.close : /\ ~Holds(v, p, best, c) /\ \E e : Holds(v, p, best, e)
  BY Closes
<1>2. Pruned(n)
  BY DEF PairInv, Prunes
<1>3. \A c : Holds(v, p, best, c) => c \notin dead
  <2> SUFFICES ASSUME NEW c, Holds(v, p, best, c), c \in dead PROVE FALSE
    OBVIOUS
  <2>1. Holds(view[n], p, best, c)
    BY DEF Counts
  <2>2. Holds(view[n], p, Best(view[n], p), c)
    BY <2>1, BestBefore DEF PairInv, PairType
  <2> QED
    BY <1>2, <2>2 DEF Pruned, Counts
<1>4. \A c \in dead' : end'[c][n] # "coming" /\ ~Holds(v, p, best, c)
  BY <1>1, <1>3
<1>5. ASSUME dead' # {} PROVE \E a, c : Holds(v, p, a, c) /\ c \notin dead'
  <2>1. CASE o.close = {}
    <3>1. PICK a, c : Counts(n, a, c) /\ c \notin dead
      BY <1>2, <1>5, <2>1 DEF Pruned
    <3> QED
      BY <2>1, <3>1
  <2>2. CASE o.close # {}
    BY <1>1, <1>3, <2>2
  <2> QED
    BY <2>1, <2>2
<1> QED
  BY <1>4, <1>5 DEF Pruned, Counts

\* A step in which node n keeps its view and hears of no dead link.
LEMMA QuietPrunes ==
  ASSUME NEW n \in Peer, Pruned(n), view'[n] = view[n], dead' \subseteq dead,
         \A c \in dead' : end'[c][n] # "coming"
  PROVE  Pruned(n)'
  BY DEF Pruned, Counts

\* Every connection of an end that is up belongs to a link.
LEMMA EndsAreLinks ==
  ASSUME PairInv, NEW n \in Peer, NEW c \in ConnId, end[c][n] # "none"
  PROVE  link[c] # Free /\ RemoteAt(n, c) \in Addr
<1>1. link[c] # Free
  BY DEF PairInv, PairType, Nowhere
<1> QED
  BY <1>1 DEF PairInv, PairType, RemoteAt

LEMMA CountsAreUp ==
  ASSUME PairInv, NEW n \in Peer, NEW a, NEW c, Counts(n, a, c)
  PROVE  c \in ConnId /\ end[c][n] = "up"
<1>1. c \in ConnId
  BY HoldsTyped DEF PairInv, PairType, Counts
<1> QED
  BY <1>1 DEF PairInv, Agrees

\* ConnectionEstablished and ConnectionClosed: n's end of c becomes s.
LEMMA Handled ==
  ASSUME PairInv, NEW n \in Peer, NEW v, SoundView(v), Rested(v), NEW c \in ConnId,
         NEW s \in {"up", "none"}, React(n, v, c, [end[c] EXCEPT ![n] = s]), end[c][n] # "none",
         \A b : Has(view[n], Other(n), b) => Has(v, Other(n), b),
         \A a, d : d # c => (Holds(v, Other(n), a, d) <=> Counts(n, a, d)),
         s = "up" => end[c][n] = "coming" /\ \E a : Holds(v, Other(n), a, c),
         s = "none" => c \in dead /\ \A a : ~Holds(v, Other(n), a, c)
  PROVE  PairInv'
<1> DEFINE p == Other(n)
           o == Reconcile(v, p, {})
           ends == [end[c] EXCEPT ![n] = s]
           gone == {d \in {c} : ends = Nowhere}
<1>1. /\ view' = [view EXCEPT ![n] = o.peers] /\ end' = [end EXCEPT ![c] = ends]
      /\ link' = [link EXCEPT ![c] = IF ends = Nowhere THEN Free ELSE @]
      /\ dead' = (dead \cup o.close) \ gone /\ breaks' = breaks
  BY DEF React, Takes, Becomes
<1>2. /\ o.peers = v
      /\ \A d \in o.close : p \in Leads /\ \E a : Holds(v, p, a, d)
  BY Closes
<1> HIDE DEF o
<1>3. /\ ends \in [Peer -> {"none", "coming", "up"}] /\ ends[n] = s
      /\ \A m \in Peer : m # n => ends[m] = end[c][m]
      /\ link[c] # Free
  BY EndsAreLinks DEF PairInv, PairType
<1>4. \A d : d \in gone <=> d = c /\ ends = Nowhere
  OBVIOUS
<1> HIDE DEF ends, gone
<1>5. view'[n] = v /\ \A m \in Peer : m # n => view'[m] = view[m]
  BY <1>1, <1>2 DEF PairInv, PairType
<1>6. \A d \in ConnId : end'[d] = IF d = c THEN ends ELSE end[d]
  BY <1>1 DEF PairInv, PairType
<1>7. \A d \in ConnId : link'[d] = IF d # c THEN link[d] ELSE IF ends = Nowhere THEN Free ELSE link[c]
  BY <1>1 DEF PairInv, PairType
<1>8. \A d \in o.close : d \in ConnId /\ link[d] # Free /\ (d # c => end[d][n] = "up")
  <2> SUFFICES ASSUME NEW d \in o.close PROVE d \in ConnId /\ link[d] # Free /\ (d # c => end[d][n] = "up")
    OBVIOUS
  <2>1. CASE d = c
    BY <1>3, <2>1
  <2>2. CASE d # c
    BY <1>2, <2>2, CountsAreUp, EndsAreLinks
  <2> QED
    BY <2>1, <2>2
<1>9. PairType'
  <2>1. view' = [m \in Peer |-> view'[m]] /\ \A m \in Peer : SoundView(view'[m]) /\ Rested(view'[m])
    BY <1>1, <1>5 DEF PairInv, PairType
  <2>2. end' \in [ConnId -> [Peer -> {"none", "coming", "up"}]]
    BY <1>1, <1>3 DEF PairInv, PairType
  <2>3. link' \in [ConnId -> [to : Addr, from : Addr] \cup {Free}]
    BY <1>1, <1>7 DEF PairInv, PairType
  <2>4. \A d \in ConnId : link'[d] = Free <=> end'[d] = Nowhere
    BY <1>3, <1>6, <1>7 DEF PairInv, PairType
  <2>5. dead' \subseteq Links'
    BY <1>1, <1>4, <1>7, <1>8 DEF PairInv, PairType, Links
  <2> QED
    BY <1>1, <2>1, <2>2, <2>3, <2>4, <2>5 DEF PairType, PairInv
<1>10. Agrees'
  <2> SUFFICES ASSUME NEW m \in Peer, NEW d \in ConnId
               PROVE  end'[d][m] = "up" <=> \E a : Holds(view'[m], Other(m), a, d)
    BY DEF Agrees, Counts
  <2>1. CASE m # n
    BY <1>3, <1>5, <1>6, <2>1 DEF PairInv, Agrees, Counts
  <2>2. CASE m = n /\ d # c
    BY <1>5, <1>6, <2>2 DEF PairInv, Agrees
  <2>3. CASE m = n /\ d = c
    BY <1>3, <1>5, <1>6, <2>3
  <2> QED
    BY <2>1, <2>2, <2>3
<1>11. Prunes'
  <2> SUFFICES ASSUME breaks = 0, NEW m \in Peer, Other(m) \in Leads PROVE Pruned(m)'
    BY <1>1 DEF Prunes
  <2>1. Pruned(m)
    BY DEF PairInv, Prunes
  <2>2. CASE m # n
    <3>1. o.close = {}
      BY <1>2, <2>2, OneLeader
    <3>2. dead' \subseteq dead
      BY <1>1, <3>1
    <3>3. \A d \in dead' : end'[d][m] # "coming"
      BY <1>3, <1>6, <2>1, <2>2, <3>2 DEF Pruned, PairInv, PairType, Links
    <3> QED
      BY <1>5, <2>1, <2>2, <3>2, <3>3, QuietPrunes
  <2>3. CASE m = n
    <3>1. \A a, d : Holds(v, p, a, d) => Counts(n, a, d) \/ d \notin dead
      BY <2>1, <2>3 DEF Pruned
    <3>2. \A a, d : Counts(n, a, d) /\ d \notin dead => Holds(v, p, a, d)
      BY CountsAreUp
    <3>3. \A d \in o.close \cup dead : end'[d][n] # "coming"
      BY <1>3, <1>6, <1>8, <2>1, <2>3 DEF Pruned, PairInv, PairType, Links
    <3> QED
      BY <1>1, <1>5, <2>3, <3>1, <3>2, <3>3, ReconciledPrunes DEF o
  <2> QED
    BY <2>2, <2>3
<1> QED
  BY <1>9, <1>10, <1>11 DEF PairInv

LEMMA OpenedKeepsInv ==
  ASSUME PairInv, NEW n \in Peer, NEW c \in ConnId, Opened(n, c) PROVE PairInv'
<1> DEFINE p == Other(n)
           r == RemoteAt(n, c)
           v == AddConnection(view[n], p, c, r)
<1>1. end[c][n] = "coming" /\ React(n, v, c, [end[c] EXCEPT ![n] = "up"])
  BY DEF Opened
<1>2. SoundView(view[n]) /\ Rested(view[n]) /\ p \in Peer /\ r \in Addr
  BY <1>1, OtherIs, EndsAreLinks DEF PairInv, PairType
<1>3. \A a : ~Counts(n, a, c)
  BY <1>1, CountsAreUp
<1> HIDE DEF r
<1>4. SoundView(v) /\ Rested(v) /\ \A b : Has(view[n], p, b) => Has(v, p, b)
  BY <1>2, AddConnectionSound, AddConnectionRested, AddConnectionAdds
<1>5. \A a, d : Holds(v, p, a, d) => Holds(view[n], p, a, d) \/ (a = r /\ d = c)
  BY <1>2, AddConnectionAdds
<1>6. Holds(v, p, r, c) /\ \A a, d : Counts(n, a, d) => Holds(v, p, a, d)
  BY <1>2, <1>3, AddConnectionKeeps DEF Keeps, Counts
<1> HIDE DEF v, p
<1>7. \A a, d : d # c => (Holds(v, Other(n), a, d) <=> Counts(n, a, d))
  BY <1>5, <1>6 DEF Counts, p
<1> QED
  BY <1>1, <1>4, <1>6, <1>7, Handled DEF p

LEMMA ClosedKeepsInv ==
  ASSUME PairInv, NEW n \in Peer, NEW c \in ConnId, Closed(n, c) PROVE PairInv'
<1> DEFINE p == Other(n)
           v == RemoveConnection(view[n], p, c)
<1>1. end[c][n] = "up" /\ c \in dead /\ React(n, v, c, [end[c] EXCEPT ![n] = "none"])
  BY DEF Closed
<1>2. SoundView(view[n]) /\ Rested(view[n])
  BY DEF PairInv, PairType
<1>3. SoundView(v) /\ Rested(v) /\ \A b : Has(view[n], p, b) => Has(v, p, b)
  BY <1>2, RemoveConnectionSound, RemoveConnectionRested, RemoveConnectionRemoves
<1>4. Inherits(v, view[n]) /\ (\A a : ~Holds(v, p, a, c)) /\ Keeps(v, view[n], {c})
  BY <1>2, RemoveConnectionRemoves, RemoveConnectionKeeps
<1> HIDE DEF v, p
<1>5. \A a, d : d # c => (Holds(v, Other(n), a, d) <=> Counts(n, a, d))
  BY <1>4 DEF Inherits, Keeps, Counts, p
<1> QED
  BY <1>1, <1>3, <1>4, <1>5, Handled DEF p

\* A link that dies before n hears of it takes nothing from any view.
LEMMA MissedKeepsInv ==
  ASSUME PairInv, NEW n \in Peer, NEW c \in ConnId, Missed(n, c) PROVE PairInv'
<1> DEFINE ends == [end[c] EXCEPT ![n] = "none"]
           gone == {d \in {c} : ends = Nowhere}
<1>1. /\ end[c][n] = "coming" /\ c \in dead
      /\ end' = [end EXCEPT ![c] = ends]
      /\ link' = [link EXCEPT ![c] = IF ends = Nowhere THEN Free ELSE @]
      /\ dead' = dead \ gone
      /\ view' = view /\ breaks' = breaks
  BY DEF Missed, Becomes
<1>2. /\ ends \in [Peer -> {"none", "coming", "up"}] /\ ends[n] = "none"
      /\ \A m \in Peer : m # n => ends[m] = end[c][m]
      /\ link[c] # Free
  BY <1>1, EndsAreLinks DEF PairInv, PairType
<1>3. \A d : d \in gone <=> d = c /\ ends = Nowhere
  OBVIOUS
<1> HIDE DEF ends, gone
<1>4. \A d \in ConnId : end'[d] = IF d = c THEN ends ELSE end[d]
  BY <1>1 DEF PairInv, PairType
<1>5. \A d \in ConnId : link'[d] = IF d # c THEN link[d] ELSE IF ends = Nowhere THEN Free ELSE link[c]
  BY <1>1 DEF PairInv, PairType
<1>6. PairType'
  <2>1. end' \in [ConnId -> [Peer -> {"none", "coming", "up"}]]
    BY <1>1, <1>2 DEF PairInv, PairType
  <2>2. link' \in [ConnId -> [to : Addr, from : Addr] \cup {Free}]
    BY <1>1, <1>5 DEF PairInv, PairType
  <2>3. \A d \in ConnId : link'[d] = Free <=> end'[d] = Nowhere
    BY <1>2, <1>4, <1>5 DEF PairInv, PairType
  <2>4. dead' \subseteq Links'
    BY <1>1, <1>3, <1>5 DEF PairInv, PairType, Links
  <2> QED
    BY <1>1, <2>1, <2>2, <2>3, <2>4 DEF PairType, PairInv
<1>7. Agrees'
  BY <1>1, <1>2, <1>4 DEF PairInv, Agrees, Counts
<1>8. Prunes'
  <2> SUFFICES ASSUME breaks = 0, NEW m \in Peer, Other(m) \in Leads PROVE Pruned(m)'
    BY <1>1 DEF Prunes
  <2>1. Pruned(m) /\ dead' \subseteq dead
    BY <1>1 DEF PairInv, Prunes
  <2>2. \A d \in dead' : end'[d][m] # "coming"
    BY <1>2, <1>4, <2>1 DEF Pruned, PairInv, PairType, Links
  <2> QED
    BY <1>1, <2>1, <2>2, QuietPrunes
<1> QED
  BY <1>6, <1>7, <1>8 DEF PairInv

LEMMA LearnKeepsInv == ASSUME PairInv, NEW n \in Peer, Learn(n) PROVE PairInv'
<1> DEFINE p == Other(n)
<1>1. PICK x \in Told :
        LET o == Reconcile(AddAddress(view[n], p, x), p, {})
        IN  view' = [view EXCEPT ![n] = o.peers] /\ dead' = dead \cup o.close
  BY DEF Learn, Takes
<1> DEFINE v == AddAddress(view[n], p, x)
           o == Reconcile(v, p, {})
<1>2. link' = link /\ end' = end /\ breaks' = breaks
  BY DEF Learn
<1>3. SoundView(view[n]) /\ Rested(view[n]) /\ p \in Peer /\ x \in Addr
  BY OtherIs, PairAssumption DEF PairInv, PairType
<1>4. /\ SoundView(v) /\ Rested(v) /\ \A b : Has(view[n], p, b) => Has(v, p, b)
      /\ Inherits(v, view[n]) /\ Keeps(v, view[n], {})
  BY <1>3, AddAddressSound, AddAddressRested, AddAddressInherits, AddAddressKeeps
<1> HIDE DEF v
<1>5. \A a, c : Holds(v, p, a, c) <=> Counts(n, a, c)
  BY <1>4 DEF Inherits, Keeps, Counts
<1>6. /\ o.peers = v
      /\ \A c \in o.close : p \in Leads /\ \E a : Holds(v, p, a, c)
  BY <1>4, Closes
<1>7. view' = [view EXCEPT ![n] = o.peers] /\ dead' = (dead \cup o.close) \ {}
  BY <1>1 DEF v
<1> HIDE DEF o, p
<1>8. view'[n] = v /\ \A m \in Peer : m # n => view'[m] = view[m]
  BY <1>6, <1>7 DEF PairInv, PairType
<1>9. \A c \in o.close : c \in ConnId /\ link[c] # Free /\ end[c][n] = "up"
  BY <1>5, <1>6, CountsAreUp, EndsAreLinks
<1>10. PairType'
  <2>1. view' = [m \in Peer |-> view'[m]] /\ \A m \in Peer : SoundView(view'[m]) /\ Rested(view'[m])
    BY <1>4, <1>7, <1>8 DEF PairInv, PairType
  <2>2. dead' \subseteq Links'
    BY <1>2, <1>7, <1>9 DEF PairInv, PairType, Links
  <2> QED
    BY <1>2, <2>1, <2>2 DEF PairType, PairInv
<1>11. Agrees'
  BY <1>2, <1>5, <1>8 DEF PairInv, Agrees, Counts, p
<1>12. Prunes'
  <2> SUFFICES ASSUME breaks = 0, NEW m \in Peer, Other(m) \in Leads PROVE Pruned(m)'
    BY <1>2 DEF Prunes
  <2>1. Pruned(m)
    BY DEF PairInv, Prunes
  <2>2. CASE m # n
    <3>1. o.close = {}
      BY <1>6, <2>2, OneLeader DEF p
    <3> QED
      BY <1>2, <1>7, <1>8, <2>1, <2>2, <3>1, QuietPrunes DEF Pruned
  <2>3. CASE m = n
    <3>1. \A c \in o.close \cup dead : end'[c][n] # "coming"
      BY <1>2, <1>9, <2>1, <2>3 DEF Pruned
    <3> QED
      BY <1>4, <1>5, <1>7, <1>8, <2>3, <3>1, ReconciledPrunes DEF o, p
  <2> QED
    BY <2>2, <2>3
<1> QED
  BY <1>10, <1>11, <1>12 DEF PairInv

LEMMA ConnectKeepsInv == ASSUME PairInv, NEW x \in Addr, Connect(x) PROVE PairInv'
<1>1. PICK c \in ConnId, y \in Origins[x] :
        /\ link[c] = Free
        /\ link' = [link EXCEPT ![c] = [to |-> x, from |-> y]]
        /\ end' = [end EXCEPT ![c] = [n \in Peer |-> "coming"]]
  BY DEF Connect
<1>2. UNCHANGED <<view, dead, breaks>>
  BY DEF Connect
<1>3. y \in Addr /\ c \notin dead /\ [to |-> x, from |-> y] # Free
  BY <1>1, PairAssumption, ViewAssumption DEF PairInv, PairType, Links, Free
<1>4. \A d \in ConnId : /\ end'[d] = IF d = c THEN [n \in Peer |-> "coming"] ELSE end[d]
                        /\ link'[d] = IF d = c THEN [to |-> x, from |-> y] ELSE link[d]
  BY <1>1 DEF PairInv, PairType
<1>5. [n \in Peer |-> "coming"] # Nowhere
  <2>1. PICK n : n \in Peer
    BY PairAssumption, FS_EmptySet
  <2> QED
    BY <2>1 DEF Nowhere
<1>6. \A n \in Peer : end[c][n] = "none"
  BY <1>1 DEF PairInv, PairType, Nowhere
<1>7. PairType'
  <2>1. end' \in [ConnId -> [Peer -> {"none", "coming", "up"}]]
    BY <1>1 DEF PairInv, PairType
  <2>2. link' \in [ConnId -> [to : Addr, from : Addr] \cup {Free}]
    BY <1>1, <1>3 DEF PairInv, PairType
  <2>3. \A d \in ConnId : link'[d] = Free <=> end'[d] = Nowhere
    BY <1>3, <1>4, <1>5 DEF PairInv, PairType
  <2>4. dead' \subseteq Links'
    BY <1>2, <1>3, <1>4 DEF PairInv, PairType, Links
  <2> QED
    BY <1>2, <2>1, <2>2, <2>3, <2>4 DEF PairType, PairInv
<1>8. Agrees'
  BY <1>2, <1>4, <1>6 DEF PairInv, Agrees, Counts
<1>9. Prunes'
  <2> SUFFICES ASSUME breaks = 0, NEW m \in Peer, Other(m) \in Leads PROVE Pruned(m)'
    BY <1>2 DEF Prunes
  <2>1. Pruned(m)
    BY DEF PairInv, Prunes
  <2>2. \A d \in dead' : end'[d][m] # "coming"
    BY <1>2, <1>3, <1>4, <2>1 DEF Pruned, PairInv, PairType, Links
  <2> QED
    BY <1>2, <2>1, <2>2, QuietPrunes
<1> QED
  BY <1>7, <1>8, <1>9 DEF PairInv

LEMMA BreakKeepsInv == ASSUME PairInv, Break PROVE PairInv'
<1>1. PICK c \in ConnId : link[c] # Free /\ dead' = dead \cup {c}
  BY DEF Break
<1>2. UNCHANGED <<view, link, end>> /\ breaks' = breaks + 1
  BY DEF Break
<1>3. PairType' /\ Agrees'
  BY <1>1, <1>2 DEF PairInv, PairType, Agrees, Counts, Links
<1>4. breaks' # 0
  BY <1>2 DEF PairInv, PairType
<1> QED
  BY <1>3, <1>4 DEF PairInv, Prunes

LEMMA PairAtFirst == ASSUME Init PROVE PairInv
<1>1. \A n \in Peer : view[n] = [p \in {} |-> NewPeer]
  BY DEF Init
<1>2. \A n \in Peer : \A a, c : ~Counts(n, a, c)
  BY <1>1 DEF Counts, Holds
<1>3. PairType
  <2>1. \A n \in Peer : SoundView(view[n]) /\ Rested(view[n])
    BY <1>1 DEF SoundView, IsView, Rested, Has
  <2> QED
    BY <2>1 DEF Init, PairType, Nowhere, Links
<1> QED
  BY <1>2, <1>3 DEF Init, PairInv, Agrees, Prunes, Pruned, Nowhere

LEMMA PairStep == ASSUME PairInv, [Next]_vars PROVE PairInv'
<1>1. ASSUME UNCHANGED <<view, link, end, dead, breaks>> PROVE PairInv'
  BY <1>1 DEF PairInv, PairType, Agrees, Prunes, Pruned, Counts, Links
<1> QED
  BY <1>1, LearnKeepsInv, OpenedKeepsInv, ClosedKeepsInv, MissedKeepsInv, ConnectKeepsInv,
     BreakKeepsInv DEF Next, vars, DialFails

LEMMA PairInvariant == Spec => []PairInv
  BY PairAtFirst, PairStep, PTL DEF Spec

\* While the leader prunes and either node takes up and loses links, one link that
\* neither of them closes is left, as long as none broke by itself (mod.rs:324-428).
THEOREM NeverPrunedApart == Spec => []KeepsALink
<1>1. PairInv => KeepsALink
  <2> SUFFICES ASSUME PairInv, breaks = 0, NEW n \in Peer, Together(n) PROVE Links \ dead # {}
    BY DEF KeepsALink
  <2>1. PICK a, c : Counts(n, a, c)
    BY KnownAreOwn DEF Together, IsConnected, IsConnectedOver, IsUp, Counts
  <2>2. \A m \in Peer : \A b, d : Counts(m, b, d) => d \in Links
    BY CountsAreUp, EndsAreLinks DEF Links
  <2>3. CASE dead = {}
    BY <2>1, <2>2, <2>3
  <2>4. CASE dead # {}
    <3>1. PICK m \in Peer : Other(m) \in Leads
      <4>1. IsFiniteSet(Leads)
        BY PairAssumption, LeadsAssumption, FS_Subset
      <4>2. PICK f : Leads = {f}
        BY <4>1, PairAssumption, FS_Singleton
      <4>3. f \in Peer
        BY <4>2, LeadsAssumption
      <4> QED
        BY <4>2, <4>3, OtherIs
    <3> QED
      BY <2>2, <2>4, <3>1 DEF PairInv, Prunes, Pruned
  <2> QED
    BY <2>3, <2>4
<1> QED
  BY <1>1, PairInvariant, PTL

----------------------------------------------------------------------------
(* The pair at rest *)

\* What a view lists leads to the other node, and a link leads from one to the other.
Theirs ==
  /\ \A n \in Peer : \A a : Has(view[n], Other(n), a) => AddrPeer[a] = Other(n)
  /\ \A c \in Links : AddrPeer[link[c].from] # AddrPeer[link[c].to]

\* An end goes down only with its link.
DownIsDead == \A n \in Peer, c \in Links : end[c][n] = "none" => c \in dead

\* Node n runs everything over its best address but what is told to close, or is about
\* to have it, or nobody is there.
Aims(n) ==
  LET best == Best(view[n], Other(n))
  IN  \/ \A a : ~Has(view[n], Other(n), a)
      \/ /\ \E d : Counts(n, best, d)
         /\ \A a, c : Counts(n, a, c) /\ ~Counts(n, best, c) => c \in dead
      \/ best \in Silent
      \/ best \in Addr /\ dialing[best] > 0
      \/ \E c \in ConnId : end[c][n] = "coming" /\ RemoteAt(n, c) = best

RestInv ==
  /\ PairInv /\ Theirs /\ DownIsDead
  /\ dialing \in [Addr -> 0..MaxDials]
  /\ breaks = 0 => \A n \in Peer : Other(n) \in Leads => Aims(n)

LEMMA TakesDials ==
  ASSUME dialing \in [Addr -> 0..MaxDials], NEW n, NEW o, Takes(n, o)
  PROVE  /\ dialing' \in [Addr -> 0..MaxDials]
         /\ \A a \in Addr : dialing[a] > 0 => dialing'[a] > 0
         /\ o.dial \in Addr => dialing'[o.dial] > 0
<1>1. dialing' = [x \in Addr |-> IF x = o.dial /\ dialing[x] < MaxDials THEN dialing[x] + 1 ELSE dialing[x]]
  BY DEF Takes
<1>2. MaxDials \in Nat /\ MaxDials > 0
  BY PairAssumption
<1>3. \A x \in Addr : dialing[x] \in 0..MaxDials
  OBVIOUS
<1> QED
  BY <1>1, <1>2, <1>3

\* A leader that has reconciled aims at its best address.
LEMMA ReconciledAims ==
  ASSUME PairInv', NEW n \in Peer, Other(n) \in Leads,
         NEW v, SoundView(v), Rested(v), view'[n] = v, NEW o, o = Reconcile(v, Other(n), {}),
         o.dial \in Addr => dialing'[o.dial] > 0,
         \A c \in o.close : c \in dead' \/ end'[c][n] # "up"
  PROVE  Aims(n)'
<1> DEFINE p == Other(n)
           best == Best(v, p)
<1>1. CASE \A a : ~Has(v, p, a)
  BY <1>1 DEF Aims
<1>2. ASSUME NEW a, Has(v, p, a) PROVE best \in Addr
  BY <1>2, BestRanksFirst
<1>3. CASE Alone(v, p)
  <2>1. o.dial = best
    BY <1>3, ReconcileDialsBest
  <2> QED
    BY <1>2, <1>3, <2>1 DEF Aims, Alone
<1>4. ASSUME NEW a, NEW c, Holds(v, p, a, c) PROVE Aims(n)'
  <2>1. best \in Addr
    BY <1>2, <1>4 DEF Holds, Has
  <2>2. CASE \A d : ~Holds(v, p, best, d)
    <3>1. o.dial = best
      BY <1>4, <2>2, ReconcilePrunes
    <3> QED
      BY <2>1, <3>1 DEF Aims
  <2>3. CASE \E d : Holds(v, p, best, d)
    <3>1. ASSUME NEW b, NEW d, Holds(v, p, b, d), ~Holds(v, p, best, d) PROVE d \in dead'
      <4>1. d \in o.close
        BY <2>3, <3>1, ReconcilePrunes
      <4>2. d \in ConnId
        BY <3>1, HoldsTyped
      <4>3. end'[d][n] = "up"
        BY <3>1, <4>2 DEF PairInv, Agrees, Counts
      <4> QED
        BY <4>1, <4>3
    <3> QED
      BY <2>3, <3>1 DEF Aims, Counts
  <2> QED
    BY <2>2, <2>3
<1> QED
  BY <1>1, <1>3, <1>4 DEF Alone

\* A node that keeps its view goes on aiming, if what it waits for still comes.
LEMMA QuietAims ==
  ASSUME RestInv, PairInv', NEW n \in Peer, Aims(n), view'[n] = view[n],
         \A a \in Addr \ Silent : AddrPeer[a] = Other(n) /\ dialing[a] > 0 =>
           dialing'[a] > 0 \/ \E c \in ConnId : end'[c][n] = "coming" /\ RemoteAt(n, c)' = a,
         \A c \in ConnId : end[c][n] = "coming" => end'[c][n] = "coming" /\ link'[c] = link[c],
         \A c \in dead : c \in dead' \/ end'[c][n] # "up"
  PROVE  Aims(n)'
<1> DEFINE best == Best(view[n], Other(n))
<1>1. CASE \A a : ~Has(view[n], Other(n), a)
  BY <1>1 DEF Aims
<1>2. CASE /\ \E d : Counts(n, best, d)
           /\ \A a, c : Counts(n, a, c) /\ ~Counts(n, best, c) => c \in dead
  <2>1. \A a, c : Counts(n, a, c) => end'[c][n] = "up"
    <3> SUFFICES ASSUME NEW a, NEW c, Counts(n, a, c) PROVE end'[c][n] = "up"
      OBVIOUS
    <3>1. c \in ConnId
      BY CountsAreUp DEF RestInv
    <3> QED
      BY <3>1 DEF PairInv, Agrees, Counts
  <2> QED
    BY <1>2, <2>1 DEF Aims, Counts
<1>3. CASE best \in Silent
  BY <1>3 DEF Aims
<1>4. CASE best \in Addr /\ dialing[best] > 0 /\ best \notin Silent /\ \E a : Has(view[n], Other(n), a)
  <2>1. AddrPeer[best] = Other(n)
    BY <1>4, BestRanksFirst DEF RestInv, PairInv, PairType, Theirs
  <2> QED
    BY <1>4, <2>1 DEF Aims
<1>5. CASE \E c \in ConnId : end[c][n] = "coming" /\ RemoteAt(n, c) = best
  BY <1>5 DEF Aims, RemoteAt
<1> QED
  BY <1>1, <1>2, <1>3, <1>4, <1>5 DEF Aims

\* A link seen from one of its ends leads to the other node.
LEMMA RemoteIsTheirs ==
  ASSUME RestInv, NEW n \in Peer, NEW c \in Links
  PROVE  AddrPeer[RemoteAt(n, c)] = Other(n)
<1>1. link[c].to \in Addr /\ link[c].from \in Addr /\ AddrPeer[link[c].from] # AddrPeer[link[c].to]
  BY DEF RestInv, PairInv, PairType, Theirs, Links
<1>2. AddrPeer[link[c].to] \in Peer /\ AddrPeer[link[c].from] \in Peer
  BY <1>1, PairAssumption
<1> QED
  BY <1>1, <1>2, OtherIs DEF RemoteAt

\* ConnectionEstablished and ConnectionClosed: n's end of c becomes s.
LEMMA HandledRests ==
  ASSUME RestInv, PairInv', NEW n \in Peer, NEW v, SoundView(v), Rested(v), NEW c \in ConnId,
         NEW s \in {"up", "none"}, React(n, v, c, [end[c] EXCEPT ![n] = s]), end[c][n] # "none",
         \A b : Has(v, Other(n), b) => Has(view[n], Other(n), b) \/ AddrPeer[b] = Other(n),
         s = "none" => c \in dead
  PROVE  RestInv'
<1> DEFINE p == Other(n)
           o == Reconcile(v, p, {})
           ends == [end[c] EXCEPT ![n] = s]
           gone == {d \in {c} : ends = Nowhere}
<1>1. /\ view' = [view EXCEPT ![n] = o.peers] /\ end' = [end EXCEPT ![c] = ends]
      /\ link' = [link EXCEPT ![c] = IF ends = Nowhere THEN Free ELSE @]
      /\ dead' = (dead \cup o.close) \ gone /\ breaks' = breaks /\ Takes(n, o)
  BY DEF React, Takes, Becomes
<1>2. o.peers = v
  BY Closes
<1>3. /\ dialing' \in [Addr -> 0..MaxDials]
      /\ \A a \in Addr : dialing[a] > 0 => dialing'[a] > 0
      /\ o.dial \in Addr => dialing'[o.dial] > 0
  BY <1>1, TakesDials DEF RestInv
<1> HIDE DEF o
<1>4. /\ ends[n] = s /\ \A m \in Peer : m # n => ends[m] = end[c][m]
      /\ c \in Links
  BY EndsAreLinks DEF RestInv, PairInv, PairType, Links
<1>5. \A d : d \in gone <=> d = c /\ ends = Nowhere
  OBVIOUS
<1> HIDE DEF ends, gone
<1>6. view'[n] = v /\ \A m \in Peer : m # n => view'[m] = view[m]
  BY <1>1, <1>2 DEF RestInv, PairInv, PairType
<1>7. \A d \in ConnId : end'[d] = IF d = c THEN ends ELSE end[d]
  BY <1>1 DEF RestInv, PairInv, PairType
<1>8. \A d \in ConnId : link'[d] = IF d = c /\ ends = Nowhere THEN Free ELSE link[d]
  BY <1>1 DEF RestInv, PairInv, PairType
<1>9. Theirs'
  <2>1. ASSUME NEW m \in Peer, NEW a, Has(view'[m], Other(m), a) PROVE AddrPeer[a] = Other(m)
    BY <1>6, <2>1 DEF RestInv, Theirs
  <2>2. \A d \in Links' : d \in Links /\ link'[d] = link[d]
    BY <1>8 DEF Links
  <2> QED
    BY <2>1, <2>2 DEF RestInv, Theirs
<1>10. DownIsDead'
  <2> SUFFICES ASSUME NEW m \in Peer, NEW d \in Links', end'[d][m] = "none" PROVE d \in dead'
    BY DEF DownIsDead
  <2>1. d \in Links /\ d \notin gone
    BY <1>5, <1>8 DEF Links
  <2>2. d \in dead
    BY <1>4, <1>7, <2>1 DEF RestInv, DownIsDead, Links
  <2> QED
    BY <1>1, <2>1, <2>2
<1>11. ASSUME breaks = 0, NEW m \in Peer, Other(m) \in Leads PROVE Aims(m)'
  <2>1. \A d \in gone : end'[d][m] # "up"
    BY <1>5, <1>7, <1>11 DEF Nowhere
  <2>2. CASE m = n
    <3>1. \A d \in o.close : d \in dead' \/ end'[d][n] # "up"
      BY <1>1, <2>1, <2>2
    <3> QED
      BY <1>3, <1>6, <1>11, <2>2, <3>1, ReconciledAims DEF o
  <2>3. CASE m # n
    <3>1. \A d \in ConnId : end[d][m] = "coming" => end'[d][m] = "coming" /\ link'[d] = link[d]
      BY <1>4, <1>7, <1>8, <1>11, <2>3 DEF Nowhere
    <3>2. \A d \in dead : d \in dead' \/ end'[d][m] # "up"
      BY <1>1, <2>1
    <3>3. Aims(m)
      BY <1>11 DEF RestInv
    <3> QED
      BY <1>3, <1>6, <1>11, <2>3, <3>1, <3>2, <3>3, QuietAims
  <2> QED
    BY <2>2, <2>3
<1> QED
  BY <1>1, <1>3, <1>9, <1>10, <1>11 DEF RestInv

LEMMA OpenedRests ==
  ASSUME RestInv, PairInv', NEW n \in Peer, NEW c \in ConnId, Opened(n, c) PROVE RestInv'
<1> DEFINE p == Other(n)
           r == RemoteAt(n, c)
           v == AddConnection(view[n], p, c, r)
<1>1. end[c][n] = "coming" /\ React(n, v, c, [end[c] EXCEPT ![n] = "up"])
  BY DEF Opened
<1>2. SoundView(view[n]) /\ Rested(view[n]) /\ p \in Peer /\ r \in Addr
  BY <1>1, OtherIs, EndsAreLinks DEF RestInv, PairInv, PairType
<1>3. AddrPeer[r] = Other(n)
  BY <1>1, EndsAreLinks, RemoteIsTheirs DEF RestInv, Links
<1> HIDE DEF r
<1>4. SoundView(v) /\ Rested(v) /\ \A b : Has(v, p, b) => Has(view[n], p, b) \/ b = r
  BY <1>2, AddConnectionSound, AddConnectionRested, AddConnectionNew
<1> HIDE DEF v
<1> QED
  BY <1>1, <1>3, <1>4, HandledRests

LEMMA ClosedRests ==
  ASSUME RestInv, PairInv', NEW n \in Peer, NEW c \in ConnId, Closed(n, c) PROVE RestInv'
<1> DEFINE p == Other(n)
           v == RemoveConnection(view[n], p, c)
<1>1. end[c][n] = "up" /\ c \in dead /\ React(n, v, c, [end[c] EXCEPT ![n] = "none"])
  BY DEF Closed
<1>2. SoundView(view[n]) /\ Rested(view[n])
  BY DEF RestInv, PairInv, PairType
<1>3. SoundView(v) /\ Rested(v) /\ \A b : Has(v, p, b) => Has(view[n], p, b)
  BY <1>2, RemoveConnectionSound, RemoveConnectionRested, RemoveConnectionNew DEF NoneNew
<1> HIDE DEF v
<1> QED
  BY <1>1, <1>3, HandledRests

LEMMA MissedRests ==
  ASSUME RestInv, PairInv', NEW n \in Peer, NEW c \in ConnId, Missed(n, c) PROVE RestInv'
<1> DEFINE ends == [end[c] EXCEPT ![n] = "none"]
           gone == {d \in {c} : ends = Nowhere}
<1>1. /\ end[c][n] = "coming" /\ c \in dead
      /\ end' = [end EXCEPT ![c] = ends]
      /\ link' = [link EXCEPT ![c] = IF ends = Nowhere THEN Free ELSE @]
      /\ dead' = dead \ gone
      /\ UNCHANGED <<view, dialing, breaks>>
  BY DEF Missed, Becomes
<1>2. ends[n] = "none" /\ \A m \in Peer : m # n => ends[m] = end[c][m]
  BY <1>1 DEF RestInv, PairInv, PairType
<1>3. \A d : d \in gone <=> d = c /\ ends = Nowhere
  OBVIOUS
<1> HIDE DEF ends, gone
<1>4. \A d \in ConnId : end'[d] = IF d = c THEN ends ELSE end[d]
  BY <1>1 DEF RestInv, PairInv, PairType
<1>5. \A d \in ConnId : link'[d] = IF d = c /\ ends = Nowhere THEN Free ELSE link[d]
  BY <1>1 DEF RestInv, PairInv, PairType
<1>6. Theirs'
  <2>1. \A d \in Links' : d \in Links /\ link'[d] = link[d]
    BY <1>5 DEF Links
  <2> QED
    BY <1>1, <2>1 DEF RestInv, Theirs
<1>7. DownIsDead'
  <2> SUFFICES ASSUME NEW m \in Peer, NEW d \in Links', end'[d][m] = "none" PROVE d \in dead'
    BY DEF DownIsDead
  <2>1. d \in Links /\ d \notin gone
    BY <1>3, <1>5 DEF Links
  <2>2. d \in dead
    BY <1>1, <1>2, <1>4, <2>1 DEF RestInv, DownIsDead, Links
  <2> QED
    BY <1>1, <2>1, <2>2
<1>8. ASSUME breaks = 0, NEW m \in Peer, Other(m) \in Leads PROVE Aims(m)'
  <2>1. Aims(m) /\ Pruned(m)
    BY <1>8 DEF RestInv, PairInv, Prunes
  <2>2. m # n
    BY <1>1, <2>1 DEF Pruned
  <2>3. \A d \in ConnId : end[d][m] = "coming" => end'[d][m] = "coming" /\ link'[d] = link[d]
    BY <1>2, <1>4, <1>5, <1>8, <2>2 DEF Nowhere
  <2>4. \A d \in dead : d \in dead' \/ end'[d][m] # "up"
    BY <1>1, <1>3, <1>4, <1>8 DEF Nowhere
  <2> QED
    BY <1>1, <1>8, <2>1, <2>3, <2>4, QuietAims
<1> QED
  BY <1>1, <1>6, <1>7, <1>8 DEF RestInv

LEMMA LearnRests == ASSUME RestInv, PairInv', NEW n \in Peer, Learn(n) PROVE RestInv'
<1> DEFINE p == Other(n)
<1>1. PICK x \in Told :
        /\ AddrPeer[x] = p
        /\ LET o == Reconcile(AddAddress(view[n], p, x), p, {})
           IN  Takes(n, o) /\ dead' = dead \cup o.close
  BY DEF Learn
<1> DEFINE v == AddAddress(view[n], p, x)
           o == Reconcile(v, p, {})
<1>2. link' = link /\ end' = end /\ breaks' = breaks
  BY DEF Learn
<1>3. SoundView(view[n]) /\ Rested(view[n]) /\ p \in Peer /\ x \in Addr
  BY OtherIs, PairAssumption DEF RestInv, PairInv, PairType
<1>4. SoundView(v) /\ Rested(v) /\ \A b : Has(v, p, b) => Has(view[n], p, b) \/ b = x
  BY <1>3, AddAddressSound, AddAddressRested, AddAddressNew
<1>5. Takes(n, o) /\ dead' = dead \cup o.close
  BY <1>1
<1> HIDE DEF v
<1>6. o.peers = v
  BY <1>4, Closes
<1> HIDE DEF o
<1>7. /\ dialing' \in [Addr -> 0..MaxDials]
      /\ \A a \in Addr : dialing[a] > 0 => dialing'[a] > 0
      /\ o.dial \in Addr => dialing'[o.dial] > 0
  BY <1>5, TakesDials DEF RestInv
<1>8. view'[n] = v /\ \A m \in Peer : m # n => view'[m] = view[m]
  BY <1>5, <1>6 DEF Takes, RestInv, PairInv, PairType
<1>9. Theirs'
  <2>1. ASSUME NEW m \in Peer, NEW a, Has(view'[m], Other(m), a) PROVE AddrPeer[a] = Other(m)
    BY <1>1, <1>4, <1>8, <2>1 DEF RestInv, Theirs
  <2> QED
    BY <1>2, <2>1 DEF RestInv, Theirs, Links
<1>10. DownIsDead'
  BY <1>2, <1>5 DEF RestInv, DownIsDead, Links
<1>11. ASSUME breaks = 0, NEW m \in Peer, Other(m) \in Leads PROVE Aims(m)'
  <2>1. CASE m = n
    BY <1>4, <1>5, <1>7, <1>8, <1>11, <2>1, ReconciledAims DEF o
  <2>2. CASE m # n
    <3>1. Aims(m)
      BY <1>11 DEF RestInv
    <3> QED
      BY <1>2, <1>5, <1>7, <1>8, <1>11, <2>2, <3>1, QuietAims
  <2> QED
    BY <2>1, <2>2
<1> QED
  BY <1>2, <1>7, <1>9, <1>10, <1>11 DEF RestInv

\* An attempt that succeeds is a link that comes, one that fails was for nobody.
LEMMA ConnectRests == ASSUME RestInv, PairInv', NEW x \in Addr, Connect(x) PROVE RestInv'
<1>1. PICK c \in ConnId, y \in Origins[x] :
        /\ link[c] = Free
        /\ link' = [link EXCEPT ![c] = [to |-> x, from |-> y]]
        /\ end' = [end EXCEPT ![c] = [n \in Peer |-> "coming"]]
  BY DEF Connect
<1>2. /\ dialing[x] > 0 /\ dialing' = [dialing EXCEPT ![x] = @ - 1]
      /\ UNCHANGED <<view, dead, breaks>>
  BY DEF Connect
<1>3. \A d \in ConnId : /\ end'[d] = IF d = c THEN [n \in Peer |-> "coming"] ELSE end[d]
                        /\ link'[d] = IF d = c THEN [to |-> x, from |-> y] ELSE link[d]
  BY <1>1 DEF RestInv, PairInv, PairType
<1>4. AddrPeer[y] # AddrPeer[x]
  BY PairAssumption
<1>5. dialing' \in [Addr -> 0..MaxDials] /\ \A a \in Addr : a # x => dialing'[a] = dialing[a]
  <2>1. dialing[x] \in 0..MaxDials /\ MaxDials \in Nat
    BY PairAssumption DEF RestInv
  <2>2. dialing[x] - 1 \in 0..MaxDials
    BY <1>2, <2>1
  <2> QED
    BY <1>2, <2>2 DEF RestInv
<1>6. Theirs'
  BY <1>2, <1>3, <1>4 DEF RestInv, Theirs, Links
<1>7. DownIsDead'
  BY <1>2, <1>3 DEF RestInv, DownIsDead, Links
<1>8. ASSUME breaks = 0, NEW m \in Peer, Other(m) \in Leads PROVE Aims(m)'
  <2>1. Aims(m)
    BY <1>8 DEF RestInv
  <2>2. \A d \in ConnId : end[d][m] = "coming" => end'[d][m] = "coming" /\ link'[d] = link[d]
    BY <1>1, <1>3, <1>8 DEF RestInv, PairInv, PairType, Nowhere
  <2>3. AddrPeer[x] = Other(m) => end'[c][m] = "coming" /\ RemoteAt(m, c)' = x
    BY <1>3, <1>8, OtherIs DEF RemoteAt
  <2> QED
    BY <1>2, <1>5, <1>8, <2>1, <2>2, <2>3, QuietAims
<1> QED
  BY <1>2, <1>5, <1>6, <1>7, <1>8 DEF RestInv

LEMMA DialFailsRests == ASSUME RestInv, PairInv', NEW x \in Addr, DialFails(x) PROVE RestInv'
<1>1. /\ dialing[x] > 0 /\ x \in Silent /\ dialing' = [dialing EXCEPT ![x] = @ - 1]
      /\ UNCHANGED <<view, link, end, dead, breaks>>
  BY DEF DialFails
<1>2. dialing' \in [Addr -> 0..MaxDials] /\ \A a \in Addr : a # x => dialing'[a] = dialing[a]
  <2>1. dialing[x] \in 0..MaxDials /\ MaxDials \in Nat
    BY PairAssumption DEF RestInv
  <2>2. dialing[x] - 1 \in 0..MaxDials
    BY <1>1, <2>1
  <2> QED
    BY <1>1, <2>2 DEF RestInv
<1>3. ASSUME breaks = 0, NEW m \in Peer, Other(m) \in Leads PROVE Aims(m)'
  <2>1. Aims(m)
    BY <1>3 DEF RestInv
  <2> QED
    BY <1>1, <1>2, <1>3, <2>1, QuietAims
<1> QED
  BY <1>1, <1>2, <1>3 DEF RestInv, Theirs, DownIsDead, Links

LEMMA RestInvariant == Spec => []RestInv
<1>1. Init => RestInv
  <2> SUFFICES ASSUME Init PROVE RestInv
    OBVIOUS
  <2>1. PairInv
    BY PairAtFirst
  <2>2. \A n \in Peer : \A a : ~Has(view[n], Other(n), a)
    BY DEF Init, Has
  <2>3. Links = {}
    BY DEF Init, Links
  <2>4. dialing \in [Addr -> 0..MaxDials]
    BY PairAssumption DEF Init
  <2> QED
    BY <2>1, <2>2, <2>3, <2>4 DEF RestInv, Theirs, DownIsDead, Aims
<1>2. RestInv /\ [Next]_vars => RestInv'
  <2> SUFFICES ASSUME RestInv, [Next]_vars PROVE RestInv'
    OBVIOUS
  <2>1. PairInv'
    BY PairStep DEF RestInv
  <2>2. CASE Break
    <3>1. /\ dead \subseteq dead' /\ breaks' = breaks + 1
          /\ UNCHANGED <<view, dialing, link, end>>
      BY <2>2 DEF Break
    <3>2. breaks' # 0
      BY <3>1 DEF RestInv, PairInv, PairType
    <3> QED
      BY <2>1, <3>1, <3>2 DEF RestInv, Theirs, DownIsDead, Links
  <2>3. CASE UNCHANGED vars
    BY <2>1, <2>3 DEF vars, RestInv, Theirs, DownIsDead, Aims, Counts, Links, RemoteAt
  <2> QED
    BY <2>1, <2>2, <2>3, LearnRests, OpenedRests, ClosedRests, MissedRests, ConnectRests,
       DialFailsRests DEF Next
<1> QED
  BY <1>1, <1>2, PTL DEF Spec

\* Both ends have heard of all that became of their links.
AllHeard == \A n \in Peer, c \in ConnId : ~Due(n, c)

LEMMA HeardIsUp ==
  ASSUME RestInv, AllHeard
  PROVE  dead = {} /\ \A n \in Peer, c \in Links : end[c][n] = "up"
<1>1. \A n \in Peer, c \in ConnId : end[c][n] = "none" \/ (end[c][n] = "up" /\ c \notin dead)
  BY DEF AllHeard, Due, RestInv, PairInv, PairType
<1>2. \A c \in Links : \E n \in Peer : end[c][n] # "none"
  BY DEF RestInv, PairInv, PairType, Links, Nowhere
<1>3. dead = {}
  BY <1>1, <1>2 DEF RestInv, PairInv, PairType, Links
<1> QED
  BY <1>1, <1>3 DEF RestInv, DownIsDead, Links

\* Once both ends have heard of all that became of their links, the two views count the
\* same ones, which are all there are, also when links broke in between: neither node
\* keeps a connection that the other one believes closed (mod.rs:295-322).
THEOREM BothCountTheSame ==
  Spec => [](AllHeard => dead = {} /\ \A n \in Peer : ConnsOf(view[n], Other(n)) = Links)
<1>1. RestInv /\ AllHeard => dead = {} /\ \A n \in Peer : ConnsOf(view[n], Other(n)) = Links
  <2> SUFFICES ASSUME RestInv, AllHeard, NEW n \in Peer
               PROVE  ConnsOf(view[n], Other(n)) = Links
    BY HeardIsUp
  <2>1. \A c : c \in ConnsOf(view[n], Other(n)) <=> \E a : Counts(n, a, c)
    BY KnownAreOwn, HeldAreKnown DEF ConnsOf, Counts
  <2>2. \A c : (\E a : Counts(n, a, c)) => c \in Links
    BY CountsAreUp, EndsAreLinks DEF RestInv, Links
  <2>3. \A c \in Links : \E a : Counts(n, a, c)
    BY HeardIsUp DEF RestInv, PairInv, Agrees, Links
  <2> QED
    BY <2>1, <2>2, <2>3
<1> QED
  BY <1>1, RestInvariant, PTL

\* Until a link breaks by itself, a pair that has heard of everything and has no attempt
\* under way runs all its links over the address that the leader prefers: there is one,
\* unless the leader knows no address or nobody listens at the best (mod.rs:329-428).
THEOREM RestsOnTheLeadersBest ==
  Spec => [](AllHeard /\ breaks = 0 /\ (\A x \in Addr : dialing[x] = 0) =>
       \A n \in Peer : LET v == view[n] p == Other(n) IN
         p \in Leads => \/ DOMAIN AddressesOf(v, p) = {} \/ Best(v, p) \in Silent
                        \/ /\ IsConnectedOver(v, p, Best(v, p))
                           /\ AddressesOf(v, p)[Best(v, p)].active_connections = Links)
<1> DEFINE Rests(n) == LET v == view[n] p == Other(n) IN
             p \in Leads => \/ DOMAIN AddressesOf(v, p) = {} \/ Best(v, p) \in Silent
                            \/ /\ IsConnectedOver(v, p, Best(v, p))
                               /\ AddressesOf(v, p)[Best(v, p)].active_connections = Links
<1>1. RestInv /\ AllHeard /\ breaks = 0 /\ (\A x \in Addr : dialing[x] = 0) => \A n \in Peer : Rests(n)
  <2> SUFFICES ASSUME RestInv, AllHeard, breaks = 0, \A x \in Addr : dialing[x] = 0,
                      NEW n \in Peer, Other(n) \in Leads
               PROVE  Rests(n)
    OBVIOUS
  <2> DEFINE v == view[n]
             p == Other(n)
             best == Best(v, p)
  <2>1. Aims(n)
    BY DEF RestInv
  <2>2. /\ dead = {} /\ \A c \in Links : end[c][n] = "up"
        /\ \A c \in ConnId : end[c][n] # "coming"
    BY HeardIsUp DEF AllHeard, Due
  <2>3. ~(best \in Addr /\ dialing[best] > 0)
    OBVIOUS
  <2>4. CASE \A a : ~Has(v, p, a)
    <3>1. DOMAIN AddressesOf(v, p) = {}
      BY <2>4, KnownAreOwn DEF Has
    <3> QED
      BY <3>1
  <2>5. CASE /\ \E d : Counts(n, best, d)
             /\ \A a, c : Counts(n, a, c) /\ ~Counts(n, best, c) => c \in dead
    <3>1. \A c : Counts(n, best, c) <=> c \in Links
      <4>1. \A c : Counts(n, best, c) => c \in Links
        BY CountsAreUp, EndsAreLinks DEF RestInv, Links
      <4>2. \A c \in Links : \E a : Counts(n, a, c)
        BY <2>2 DEF RestInv, PairInv, Agrees, Links
      <4> QED
        BY <2>2, <2>5, <4>1, <4>2
    <3>2. best \in DOMAIN AddressesOf(v, p)
      BY <2>5, HeldAreKnown DEF Counts
    <3>3. \A c : Counts(n, best, c) <=> c \in AddressesOf(v, p)[best].active_connections
      BY <3>2, KnownAreOwn, HeldAreKnown DEF Counts
    <3> QED
      BY <2>5, <3>1, <3>2, <3>3 DEF IsConnectedOver, IsUp
  <2> QED
    BY <2>1, <2>2, <2>3, <2>4, <2>5 DEF Aims
<1> QED
  BY <1>1, RestInvariant, PTL
===============================================================================
