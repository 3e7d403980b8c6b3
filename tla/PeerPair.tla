-------------------------------- MODULE PeerPair --------------------------------
(***************************************************************************)
(* Two nodes that run src/network/mod.rs against each other: each has its  *)
(* own view and reconciles it, over links they share.  A link comes up and *)
(* goes down at its two ends at different times, and each end tells its    *)
(* node in an event of its own; the node that was dialled sees the address *)
(* the dialer comes from, which may be a port where nobody listens.        *)
(*                                                                         *)
(* Relays, modes and cooldowns are the subject of SavedNetwork: here no    *)
(* dial is refused at once, and addresses do not expire.                   *)
(***************************************************************************)
EXTENDS Reconcile

CONSTANTS
  AddrPeer,    \* Addr -> the peer it leads to
  Origins,     \* address dialled -> the addresses the dialer may be seen at
  Told,        \* addresses that discovery reports
  Silent,      \* addresses where nobody listens
  MaxDials,    \* bound on the attempts under way for one address
  MaxBreaks    \* bound on the links that break by themselves

ASSUME PairAssumption ==
  /\ IsFiniteSet(Peer) /\ Cardinality(Peer) = 2 /\ Cardinality(Leads) = 1
  /\ AddrPeer \in [Addr -> Peer] /\ Told \subseteq Addr /\ Silent \subseteq Addr
  /\ Origins \in [Addr -> SUBSET Addr]
  /\ \A x \in Addr : \A y \in Origins[x] : AddrPeer[y] # AddrPeer[x]
  /\ MaxDials \in Nat \ {0} /\ MaxBreaks \in Nat

VARIABLES
  view,      \* Peer -> its view, of the other one
  dialing,   \* Addr -> attempts under way
  link,      \* ConnId -> [to: address dialled, from: where the dialer was seen]
  end,       \* ConnId -> Peer -> "none", "coming" (not yet reported) or "up"
  dead,      \* links that broke or were told to close
  breaks     \* links that broke by themselves so far

vars == <<view, dialing, link, end, dead, breaks>>

Free == [to |-> NoAddr, from |-> NoAddr]
Nowhere == [n \in Peer |-> "none"]

Init ==
  /\ view = [n \in Peer |-> [p \in {} |-> NewPeer]]
  /\ dialing = [x \in Addr |-> 0]
  /\ link = [c \in ConnId |-> Free] /\ end = [c \in ConnId |-> Nowhere]
  /\ dead = {} /\ breaks = 0

Other(n) == CHOOSE m \in Peer : m # n

\* The remote address of link c as node n has it: endpoint.get_remote_address().
RemoteAt(n, c) == IF AddrPeer[link[c].to] = n THEN link[c].from ELSE link[c].to

\* Node n takes what its reconciling comes to.
Takes(n, o) ==
  /\ view' = [view EXCEPT ![n] = o.peers]
  /\ dialing' = [x \in Addr |-> IF x = o.dial /\ dialing[x] < MaxDials THEN dialing[x] + 1 ELSE dialing[x]]

\* Link c becomes ends, and free if it is nowhere; closing are told to close.
Becomes(c, ends, closing) ==
  /\ end' = [end EXCEPT ![c] = ends]
  /\ link' = [link EXCEPT ![c] = IF ends = Nowhere THEN Free ELSE @]
  /\ dead' = (dead \cup closing) \ {d \in {c} : ends = Nowhere}

\* An event of link c gave node n the view v.
React(n, v, c, ends) ==
  LET o == Reconcile(v, Other(n), {})
  IN  Takes(n, o) /\ Becomes(c, ends, o.close) /\ UNCHANGED breaks

\* on_add_address
Learn(n) ==
  \E x \in Told :
    /\ AddrPeer[x] = Other(n) /\ IsNewAddress(view[n], Other(n), x)
    /\ LET o == Reconcile(AddAddress(view[n], Other(n), x), Other(n), {})
       IN  Takes(n, o) /\ dead' = dead \cup o.close
    /\ UNCHANGED <<link, end, breaks>>

Connect(x) ==
  /\ dialing[x] > 0 /\ x \notin Silent
  /\ \E c \in ConnId, y \in Origins[x] :
       /\ link[c] = Free /\ c = CHOOSE d \in ConnId : link[d] = Free
       /\ link' = [link EXCEPT ![c] = [to |-> x, from |-> y]]
       /\ end' = [end EXCEPT ![c] = [n \in Peer |-> "coming"]]
  /\ dialing' = [dialing EXCEPT ![x] = @ - 1]
  /\ UNCHANGED <<view, dead, breaks>>

DialFails(x) ==
  /\ dialing[x] > 0 /\ x \in Silent
  /\ dialing' = [dialing EXCEPT ![x] = @ - 1]
  /\ UNCHANGED <<view, link, end, dead, breaks>>

Break ==
  /\ breaks < MaxBreaks /\ breaks' = breaks + 1
  /\ \E c \in ConnId : link[c] # Free /\ c \notin dead /\ dead' = dead \cup {c}
  /\ UNCHANGED <<view, dialing, link, end>>

\* ConnectionEstablished at node n.
Opened(n, c) ==
  /\ end[c][n] = "coming"
  /\ React(n, AddConnection(view[n], Other(n), c, RemoteAt(n, c)), c, [end[c] EXCEPT ![n] = "up"])

\* ConnectionClosed at node n.
Closed(n, c) ==
  /\ end[c][n] = "up" /\ c \in dead
  /\ React(n, RemoveConnection(view[n], Other(n), c), c, [end[c] EXCEPT ![n] = "none"])

\* A link that died before node n heard of it: an error that is only printed.
Missed(n, c) ==
  /\ end[c][n] = "coming" /\ c \in dead
  /\ Becomes(c, [end[c] EXCEPT ![n] = "none"], {})
  /\ UNCHANGED <<view, dialing, breaks>>

Next ==
  \/ \E n \in Peer : Learn(n)
  \/ \E n \in Peer, c \in ConnId : Opened(n, c) \/ Closed(n, c) \/ Missed(n, c)
  \/ \E x \in Addr : Connect(x) \/ DialFails(x)
  \/ Break

Spec == Init /\ [][Next]_vars

(***************************************************************************)
(* Attempts end, and both ends of a link hear of what becomes of it: the   *)
(* swarm is polled.  Discovery need not report anything and links need not *)
(* break.  For the handlers the enabling condition is written out, as in   *)
(* SavedNetworkChecks.                                                     *)
(***************************************************************************)
Due(n, c) == end[c][n] = "coming" \/ (end[c][n] = "up" /\ c \in dead)

Fairness ==
  /\ \A x \in Addr : WF_vars(Connect(x)) /\ WF_vars(DialFails(x))
  /\ \A n \in Peer, c \in ConnId :
       []<>~Due(n, c) \/ []<><<Opened(n, c) \/ Closed(n, c) \/ Missed(n, c)>>_vars

FairSpec == Spec /\ Fairness

----------------------------------------------------------------------------
(* Properties *)

Links == {c \in ConnId : link[c] # Free}

Together(n) == IsConnected(view[n], Other(n))

\* The leader prunes what its own view holds to be worse, which may be what the
\* follower holds to be best and includes links the follower has not heard of.  All
\* the same the two do not prune each other apart: unless a link broke by itself,
\* one that neither closes is left from the moment either is connected (mod.rs:324).
KeepsALink == breaks = 0 /\ (\E n \in Peer : Together(n)) => Links \ dead # {}

\* Dialling, taking up and pruning come to an end: they do not chase each other with
\* views that differ, each end believing another address the best.  At rest both
\* have the same links, and no attempt is under way but for want of a ConnId.
Settles ==
  <>[](/\ \A x \in Addr : dialing[x] > 0 => x \notin Silent /\ Links = ConnId
       /\ dead = {}
       /\ \A n \in Peer : ConnsOf(view[n], Other(n)) = Links)

\* Until a link breaks, the pair comes to rest over the address that the leader
\* prefers, or has tried it: where nobody listens at the leader's best, that is as
\* far as reconciling goes (mod.rs:344).
EndsOnBest ==
  <>[](\A n \in Peer : LET v == view[n] p == Other(n) IN
         p \in Leads => \/ breaks > 0 \/ AddressesOf(v, p) = <<>>
                        \/ IsConnectedOver(v, p, Best(v, p)) \/ Best(v, p) \in Silent)

\* "just maintain a connection to target nodes" (README.md:13): two nodes that have
\* been connected find each other again after a link broke, each being a target of
\* the other.  What their lookups may find then is Learn, which need not happen.
FindEachOther == \A n \in Peer : Together(n) ~> []<>Together(n)
===============================================================================
