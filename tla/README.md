# Verification of `saved`

TLA+ specifications of the peer-to-peer engine in this repository, the TLC
runs that check them on small instances, and TLAPS proofs for the parts that
have been proved for every instance. Line numbers refer to `src/src/...`
(`view.rs`, `network/mod.rs`, ...); "README" below with a line number is the
repository's own.

## 1. The system

A node is one task: an event loop (`SavedNetwork::run`, network/mod.rs) that
takes one swarm event or one RPC at a time, runs its handler to the end and
takes the next. It owns the libp2p swarm, the view and the relay manager; all
other code talks to it through channels.

| part | state | operations | what makes it correct |
|---|---|---|---|
| address rules (view.rs:28-65, 316-369, mod.rs:86-98, 632-636, relay_manager.rs:105-122) | none | `classify_addr`, ranks, sort key, `should_skip_for_dial`, `addr_is_relay`, `extract_relay_peer`, the relayed listen address | scope and transport are those of the right component; the order is total; a circuit names its relay |
| `NetworkView` (view.rs) | per peer: addresses, best first, each with connections, last error, error count; relay flag; round-trip time | add/remove address, add/remove connection, mark failure, set protocols, ping | index 0 is the best; a connection counts once; backoff follows failures; nothing survives forgetting |
| `RelayManager` (relay_manager.rs) and `prune_relays` (mod.rs:453-474) | queue of reserved relays, set in use | can_reserve, register, recompute, should_prune, worst_unused, remove | bounded; a carrying relay is never pruned; the slowest spare goes first; the loop ends |
| event loop (network/mod.rs) | targets, active/passive mode, behaviours switched on, the swarm | one handler per event; `reconcile_peer_connections`; `set_active_mode`; `update_relay_state` | the view agrees with the swarm; known peers are dialled; we settle on the best address; passive only with all targets |
| RPCs (network/mod.rs:700 on, rpc_macros.rs) | request queue | the calls of the handle | each has the effect of its handler, in order |
| RPC transport and event channel (handle.rs, rpc_macros.rs, mod.rs:153-232) | mpsc of 64, oneshot replies, broadcast of 64, the task and its JoinHandle | call, reply, subscribe, shutdown, join, abort on drop | every caller gets an answer or an error; a call takes effect at most once, and in time; handlers find a receiver |
| two nodes, prune leader (mod.rs:324-327) | two views over shared links | the smaller id prunes and migrates | the two do not prune each other apart, and come to rest on the same links |
| start-up (main.rs) | what is left to do | a fixed list of calls with delays, then join | it ends by the signal, and then it does end |
| keygen.rs, error.rs | none | library calls; conversions | - |

How they interact. A swarm event changes the view first; then the modes (only
for target peers), then `reconcile_peer_connections` (which may dial, close or
mark a failure), then the relay state: `recompute_in_use` from the view,
`prune_relays`, which disconnects whole peers, and for a circuit `register`
and the update once more. Effects on the swarm come back as later events. What
is hard about it:

* connections open and close by themselves in any order, and a close that the
  node asked for is reported later: the view is behind the swarm;
* an attempt to connect is under way for long while every event for that peer
  runs `reconcile` again; whether it failed is only printed;
* cooldowns end by the clock and nothing is sorted then;
* handlers that fail in the middle (mDNS does not start) leave the rest undone;
* relay requests are granted late and in bulk, `in_use` is a cached set;
* the modes switch behaviours on and off, and those lose what they had learned;
* the two ends of a connection hear of it at different times, and know it by
  different addresses, and each reconciles what it knows;
* callers give up, the handle is dropped or joined and the signal comes at any
  moment, with requests in the queue and in front of it.

The full list with lines is under "hazards" in `PROJECT.json`.

## 2. Modules

| module | models | kind |
|---|---|---|
| `Multiaddr` | the address rules, as loops over components | operators |
| `Multiaddrs`, `MC_Multiaddrs` | the enumeration of addresses, declarative definitions, properties | checks |
| `Multiaddrs_proofs` | what each loop computes for addresses of any length; the order of the sort key | proofs |
| `NetworkView` | view.rs as functions from views to views; `SoundView` | operators |
| `NetworkViewMachine`, `MC_NetworkView` | any sequence of calls of the view, with time; `reconcile`'s recursion call by call | state machine |
| `NetworkViewLemmas` | every operation keeps `SoundView`; what `Reconcile` asks for; its recursion call by call | proofs |
| `NetworkViewMachine_proofs` | invariants of the view | proofs |
| `Reconcile` | `reconcile_peer_connections`: what it does to the view and asks of the swarm | operators |
| `RelayManager` | relay_manager.rs; `prune_relays` in closed form | operators |
| `RelayMachine` | the pruning loop, iteration by iteration, and the handlers around it | state machine |
| `RelayPolicy` | what the relay manager promises, decisions being atomic | abstract specification |
| `RelayManagerLemmas` | what registering and pruning do to any queue | proofs |
| `RelayMachine_proofs` | invariants of the loop, its closed form, the refinement of `RelayPolicy` | proofs |
| `SavedNetwork` | the node: event loop over `NetworkView` and `RelayManager`, RPCs, swarm | state machine, composition |
| `SavedNetworkChecks` | its properties and fairness | properties |
| `SavedNetwork_proofs` | invariants of the node: its view, its attempts and modes, its reservations, its types | proofs |
| `MC_SavedNetwork` | concrete addresses | instance |
| `PeerPair`, `MC_PeerPair` | two nodes over shared links; their addresses | state machine, composition |
| `PeerPair_proofs` | what any two nodes keep | proofs |
| `AtomicCalls` | what a method of the handle promises | abstract specification |
| `Rpc` | handle, queue, reply channels, event loop, join, drop, shutdown | state machine |
| `Startup` | main.rs as a program over `Rpc`, and external programs whose tasks share the handle; fairness and liveness | state machine, composition |
| `Rpc_proofs` | the invariants of `Rpc` and `Startup`, and the refinement of `AtomicCalls` | proofs |

`SavedNetwork` EXTENDS `Reconcile` (and with it `NetworkView`) and `RelayManager`,
and `PeerPair` EXTENDS `Reconcile`, so the operators that are proved about and
checked on their own are the ones the nodes use.
`MC_SavedNetwork` gives the rank, the relay and the dial filter of its
addresses as tables, and its assumption `TablesAreTheCodes`, which TLC evaluates
in each of its runs, compares them with the operators of `Multiaddr`.

Operators whose comment begins with "Mutant of X" stand next to X. They are X
with one plausible mistake, are used by no specification, and document which
mistake each property finds: replacing X by one of them makes TLC report a
violation of the property listed beside it in `PROJECT.json` under "mutants".

### How the models correspond to the code

*View.* `peers` is `NetworkView::peers`. The vector of addresses becomes a map
from address to metadata (every push is guarded by a search) and its first
element, `best`. Only index 0 is ever read for its position. `best` is set where
the code calls `resort()` and nowhere else, so it goes stale in the model when
it does in the code. `(last_err, err_count)` becomes the seconds left to cool
and the count. The set of protocol names becomes the one flag derived from it.

*Relays.* `reserved` is the queue, `in_use` the cached set. In `RelayMachine`
the loop of `prune_relays` is a step per iteration; in `SavedNetwork` it is the
operator `prune_relays`. `LoopFollowsPlan` says they agree. `Opened` and `RegisterUsed`
are the two halves of the handler of a new circuit. `OpenedHalfway` is the `?` at
mod.rs:548: when `on_peer_connection_opened` ends with an error, because mDNS does not
start or because nobody receives events, the view has the circuit, and `in_use` is not
looked up and the relay not registered. `unregistered` is history: the relays this
happened to, until they are registered after all or are not in use any more.

*Node.* One action per handler, whole handlers at a time, because nothing else
touches the state between two events. The order of effects is that of the code: the
view, the modes, `Settle` (= reconcile, update, register, update); `GiveUp` is
the `?` on a failed mDNS start, which leaves after the view was changed and
before `Settle`. `Do` applies what reconcile asks of the swarm. An event with a
list of addresses is taken as one event per address. The recursion of
`reconcile_peer_connections` on refused dials is `DialUntilAccepted`; when every
address is refused the code does not return, and the model sets `running` to
FALSE, after which nothing happens.

Sending on the event channel fails only when it has no receiver, which would end a
handler early too. `Rpc` says when that is (`Receivers`, `cut_short`) and
`HandlersComplete` that it is not before the handle is gone, so `SavedNetwork`
leaves that path out: it is about a node whose handle is held or being joined.

*Transport.* `Call` is a set of uses of the handle's methods. A call waits in
`room` when the queue is full, is in `queue`, and has its oneshot channel in
`answer`. Room goes to the first in line, as tokio's semaphore does it; a send
that finds room is one step, because `send` completes within one poll then.
`LoopTurn` is one turn of the biased select: the signal, then a request, then a
swarm event (the heartbeat between them only prints). A handler waits for nothing
that is not ready, so an abort falls between two turns; the abort may take
effect at any time after `drop`. `Abandon` is a caller whose future is dropped, as
a timeout does; `JoinAbandoned` the same for `join`, which has taken the JoinHandle
out of the handle by then, so that nothing aborts the task. `Startup` has
main.rs step by step, with the bootstrap part or without. Instead of main it may
have a program of another user of the engine whose tasks share the handle, which
its methods allow (`&self`); that program is external, nothing in the repository
translates to `TasksInit` and `TasksStep`. `done` and `before` are history.

*Pair.* Each node has a `view` of the other and `React`s to its own events; a
link is `coming` at an end until that end's ConnectionEstablished, `up` until its
ConnectionClosed, and either may be late. The dialer knows a link by the address
it dialled, the other end by the one it sees the dialer at, which is the
listening port (TCP port reuse) or an ephemeral one where nobody listens
(`Origins`, `Silent`). A dial that ends in an error changes nothing but the count of attempts.

*Swarm and world* (external). `dialing` counts the attempts under way,
`link` has the open connections, `closing` those told to close, `kad` and
`mdns` what the behaviours know, `relay_client` the reservations asked for and
held. The constants say what the world may do: which addresses each source
reports, whether attempts fail, whether links break, whether mDNS may fail to
start, and which sets of addresses the swarm may refuse at once.

## 3. Runs

The bounds are in the `.cfg` of each run.

| run | shows | size |
|---|---|---|
| `addresses` | the loops agree with declarative definitions, and the sort key is a total order that puts IP before DNS | every address of up to three components, first and last value of each private and link-local block; 384 000 states |
| `view` | invariants of the view; nothing survives forgetting; `Reconcile`'s closed form is the recursion | 3 addresses, 2 connections, backoff cap 2; 69 000 |
| `relay_loop` | bounds, protection of carrying relays, refinement of `RelayPolicy`, termination, with handlers that leave half-way | 3 relays, 1 spare place; 354 000 |
| `churn` | the view never holds a phantom connection; a connected address is healthy; what stops the node; Kademlia's table stays within the view | 1 peer, 2 addresses, 2 connections, all failures, all RPCs; 26 000 |
| `steady` | passive only with all targets, never idle, settles on the best; `Reconnects`, `Migrates` under fairness | 2 targets, 3 addresses, 5 connections, breaking links; 4 100 |
| `relay_node` | the relay bounds and the protection of carrying relays in the whole node | 1 peer behind a circuit, 2 relays, no targets, 3 connections; 106 000 |
| `rpc` | methods are atomic calls, nothing takes effect late, handlers complete; main stays up and ends; every caller, the swarm and an abort are served | main's 11 calls, or 3 concurrent ones; a queue of 2; 77 000 |
| `pair` | the two nodes keep a link, settle, and settle on the leader's best | 2 nodes, 4 addresses, 3 links at a time, 1 break; 80 000 |

Why these bounds are enough for the cases that matter. Two connections are the
fewest that can share an address, move and migrate; three addresses are the
fewest where one of them can be neither first nor last, and where a skipped, a
refused and a working one meet. Three relays with one spare place are the fewest
where the queue overflows with one relay in use and a choice between two. A
backoff cap of 1 or 2 keeps "cooling", "recovered but counted" and "clear"
apart; the schedule itself matters to no property. `MaxDials`
bounds the attempts for one address: two suffice for a second connection to an
address that is being dialled. A queue of 2 with three
calls is the smallest where one is served, one waits in the queue and one
for room. Three links are what two simultaneous dials and one migration need; an
attempt waits for a free one, which is the only bound that delays anything, and
`Settles` names it. Each node has a listening and an ephemeral address, because
those two kinds are what the ends disagree about, and which of the two ranks first
is open (the key ends with the bytes of the address): `pair` has the listening
port first, `lost_after_break` the other. What is bounded is bounded by constants of the
specification, never by a state constraint.

Four runs are expected to find a violation. Each checks one sentence of the
documentation or of a comment that the code does not live up to:

| run | said | done |
|---|---|---|
| `unmeasured_relay` | relay_manager.rs:81, "default to max duration if unknown" | a known peer that was never pinged has 0 and counts as the fastest |
| `target_not_sought` | README:11-12, actively look on the DHT while a target is not connected | one lookup on entering active mode, none for a target added later, none after the first found nothing |
| `two_connections` | mod.rs:329, at most one connection, on the best address | each reconcile dials again while an attempt is under way; all connections on the best address are kept |
| `lost_after_break` | README:13, just maintain a connection to target nodes | after a break each side dials the source port it saw the other at; the failure is only printed, and where the other listens is never tried |

### Fairness

`FairSpec` of `SavedNetworkChecks` (runs `steady` and `target_not_sought`) assumes: an attempt that can end
does; a connection that was told to close closes; a Kademlia lookup ends;
the clock advances. The loop has no state in which it does not poll the
swarm, a handler runs to its end, and libp2p has timeouts for attempts, closes
and queries. It is weak fairness; for attempts and closes the enabling condition is written out
(`[]<>~enabled \/ []<><<A>>_vars`), which is faster for TLC. Nothing is assumed
about other peers, RPCs, discovery or the breaking of links. `Spare` keeps places
in the finite table of connections free for our own attempts, so that the
finiteness of `ConnId` starves none. Only a stream of
RPCs that never ends can starve the swarm, because the select is biased
(mod.rs:198); `SwarmServed` says that finitely many do not.

`RelayMachine` assumes that a handler that has begun runs to its end.

`Startup` assumes that the runtime polls the network task, that an abort takes
effect, that main and a caller who can go on do, and that timers run out. No
caller has to begin, abandon or join anything, and neither the signal nor a
swarm event has to come. `PeerPair` assumes that attempts end and that both ends
of a link hear of what becomes of it; not that discovery reports anything.

These runs switch the deadlock check off, because they really stop: `churn` when
the stack has overflowed, `addresses` when the addresses have their full length,
`rpc` when the program has ended, and the runs of `PeerPair` when the pair is at rest.

## 4. Proofs

`tlapm` checks these for every value of the constants, with the assumptions
`ViewAssumption`, `ConnPeerAssumption`, `LeadsAssumption`, `NetworkAssumption`,
`RpcAssumption`, `ProgramAssumption`, `PairAssumption`, `ComponentAssumption` and the
ones of `RelayManager` and `RelayMachine`, which are: ranks are natural numbers and
tell addresses apart (proved of the code's key, see *Addresses*), round-trip times are
naturals and include 0, the backoff cap is between 1 and 6, `MaxRelays` is a natural
number, peers are finitely many, a pair has two of which one leads, and the sentinels
are none of the values they stand beside.

*Addresses.* `Multiaddrs_proofs`: `AddressesAreClassified`, `CircuitsAreCharged`,
`KeysSeparate`, `SortKeyIsTotal`. The loops of the code are `Loop`, whose value after
each component is a function on `0..Len(addr)`. `LoopRuns` says that it exists and
steps as its body does; `LoopInvariant` is the rule of the loop: a set that has the
start, and into which the body leads from each place to the next, has the end. For
`classify_addr` that set says which component decided last (`ClassifyIs`), for the
dial filter which flags were seen (`SkipMeans`), for `extract_relay_peer` whether a
circuit was met and which peer stood last before it (`ExtractIs`). The blocks of
addresses, which the code tests by octets and masks, are ranges (`ScopesAreBlocks`).
`SortKeyIsTotal` compares two addresses at the first place where they differ
(`LeastNat`): the key is irreflexive, transitive and total on addresses of any length,
so the ranks by which `NetworkView` stands for it exist for any finite set of addresses.

*View.* `NetworkViewMachine_proofs`: `TypeCorrect`, `Healthy`, `HeldByOne`,
`PastIsForgotten`, `RecursionIsClosed`. The inductive invariant is `SoundView`: the
type and, per peer, `HeadListed`, `HeadSound`, `OnlyFailedCool` and
`HeldOnce`. "`best` is the first of the order" is not invariant, because a cooldown
ends without a sort. What survives time is weaker, namely that an address *without a
failure* has nothing worse before it. It is inductive only with
`OnlyFailedCool`: such an address does not cool, so when it was sorted it did
not wait for its cooldown. `NetworkViewLemmas` proves, per operation, that a sound
view stays sound; the existence of a first address (needed for the CHOOSE in
`First`) goes through a lemma that every non-empty set of naturals has a least
element, itself proved without the library's induction schemes.
`RecursionIsClosed` assumes finitely many addresses. It follows the calls of
`reconcile_peer_connections` one by one: as long as the best address is refused the
call marks it and the next begins, with one address more that cools (`Trying`,
`TryingStep`), until the best is not refused, where the view is the one of
`DialUntilAccepted` (`TryingStops`), or all cool and every further call only
raises a count (`Exhausted`, `ExhaustedDiverges`).

*Relays.* `RelayMachine_proofs`: `TypeCorrect`, `ReservationsBounded`,
`CarriersKept`, `SparesBounded`, `BreakIsDead`, `OnlyTheWorstGoes`, `LoopIsThePlan`,
`PolicyHolds`. The invariant says the types, that a relay which carries a connection or is
counted as used is in the queue, about to be registered or was left unregistered by a
handler that ended half-way, that the loop works with an `in_use` that is up to date,
and that outside the loop the queue fits its capacity. `CarriersKept` is the part about
carrying relays: once in the queue, none is pruned. `SparesBounded` counts: what is used
and has no place is unregistered, so between two events at most `MaxRelays` reservations
and one for each unregistered relay are spare, and without a handler that left half-way
at most `MaxRelays`. The break of the loop is dead because a queue without repetition
that holds no unused relay is no longer than the set in use, hence within the
capacity. That is also why the bound holds after every handler.
`LoopIsThePlan` is what lets the node use `prune_relays` as one operator: the
closed form of what is left is the same after an iteration as before it
(`PruneWorstFirst`), and it is the queue itself when the loop is over
(`NothingToPrune`). `RelayManagerLemmas` gets there by ranks: a place goes
if fewer unused places are worse than it than there are places too many, the
rank of a place falls by one when the worst goes (`RanksAreAll`, `SkipCard`), and the
n-th of what stays is counted from the left (`NthCounts`). With the same lemmas
`PruneFits`, `PruneFillsTheRoom` and `PruneTakesTheWorst` say that a decision is
one of `RelayPolicy`; the loop maps to it by `Kept`, the queue that the closed form
will leave, so that the iterations stutter.

*Node.* `SavedNetwork_proofs`: `ViewIsSound`, `NothingPhantom`, `WhatIsUpIsWell`,
`TableIsKnown`, `OverflowsOnlyWhenStuck`. The invariant `NodeInv` has three parts:
the view is sound, healthy where it is up, and every connection it has is a link
of the swarm at that address (`ViewInv`); Kademlia's table is known to the view
(`KadInv`); mDNS has seen addresses only (`MdnsInv`). Most handlers only take
connections out of the view, which is what the relation `Inherits` says of
each operation; `ReconcileFine` carries it through `Reconcile`. A new connection
is one more that is a link already, a closed one leaves both. Expiry is why
`TableIsKnown` needs the order of the handler: the address leaves the table in the
step in which it leaves the view. `OverflowsOnlyWhenStuck` rests on
`MarkedAllIsStuck`: when the pick is refused there was no warm address to accept,
and all that were warm have been marked.

*Relays of the node.* `TypeCorrect`, `CarriersSpared`,
`SparesStayBounded`. `QueueInv` says that the queue has no repetition and fits
the cached `in_use`; it needs no more, because a handler either leaves both alone or
ends with `update_relay_state` (`QueueCases`). `CarriersSpared` then compares the
view before and after the step: what is pruned is not in the set computed from the
new view, and the view holds its connections at the addresses where they are
(`NodeInv`). `SparesStayBounded` is proved under the assumption `~MdnsMayFail`. Its
strengthening `CarriersQueued`, that what carries a connection is in the queue,
is lost when mDNS, which an RPC had switched off, fails to start between the view's
change and `register` (mod.rs:307): the next update then has a relay in use that
the queue does not have, and room for one spare too many (with `MdnsMayFail`,
`set_mdns_enabled` and a target that is missing TLC finds this in seven steps).
`RestInv` types what the other invariants leave out.

*Targets.* `EveryLinkIsTracked`, `PassiveOnlyWithAllTargets`, `SettlesOnBest`,
`NobodyLeftAlone`, each under assumptions about the surroundings that its statement
names. The first two want no expiry (`MdnsAddrs` empty), the second besides no late
targets; then dials may fail, be refused, and handlers give up half-way, because
the view and the mode change before that. Where `Inherits` says what an operation
does not add, `Keeps` says what it does not lose; every step is then `Still`,
`IsOpened` or `IsClosed` (`StepKinds`), and each is `Attended`: passive mode is entered
with all targets connected, and a target's last connection does not go without
active mode. The other two allow expiry and all RPCs, and want attempts that succeed
and an mDNS that starts. Every step is then `Uneventful`, which leaves the
addresses and connections of the view alone, or ends by reconciling the one peer it is about
(`StepHandled`). `AloneInv`, that an attempt is under way for whoever has no connection,
is inductive only with `Owned`, that an address is listed for the peer it belongs
to: the attempt that reconcile begins could be somebody else's otherwise.
`BestInv` says of a peer that we lead what one reconcile leaves and the events until
the next do not undo (`Improves`): no connection, or one over the best address with
all others closing, or an attempt for the best under way.

*Transport.* `Rpc_proofs`: `TypeCorrect`, `NothingLate`, `AllHandlersComplete`,
`CallsAreAtomic`, `ProgramsAreClients`, `MainIsUp`. `TypeOK` has `OnePlace`,
a request is with its caller, in line, in the queue or taken out, never in two of
these, and it is inductive. With it each step of `Rpc` is a step of `AtomicCalls`
or a stutter: a failed call was never dispatched, because an answer is
"dropped" only for what was still in the queue. `NothingLate` needs `InOrder`, that of
two requests in the queue the one begun after the other's end stands behind.
`AllHandlersComplete` needs `Attended`, that `join` returns only when the task is
over; `MainIsUp` needs `Reasons`, why tasks end and calls fail. Programs
of `Startup` only use the handle (`ProgramsAreClients`), so all of this holds of them.

*Pair.* `PeerPair_proofs`: `NeverPrunedApart`, `BothCountTheSame`,
`RestsOnTheLeadersBest`. `PairInv` has the types (`PairType`, with
views that are sound and in which nothing has failed), `Agrees`, that a view counts
exactly the links that are up at its end, and `Prunes`: until a link breaks by itself,
what the leader has told to close is neither a link it has not heard of nor one at
its best address, and it has another one when it has told any. The first half is
needed for the second: a dead link that were still to come up could become the only
one at a new best address. The follower needs no such invariant, because it closes
nothing; that it counts a link the leader does not makes no difference, because
what is up at one end is a link. The other two are the safety half of `Settles` and
`EndsOnBest`: not that the pair comes to rest, but how it stands when it has. A link
one of whose ends is down is dead (`DownIsDead`), so that when both ends have heard of
everything none is. `Aims` says of the leader, until a link breaks, that it runs all
over its best address but what it has told to close, or else waits for the best: an
attempt is under way, the link of one that succeeded has not been reported yet, or
nobody listens there. It is inductive with `PairInv`, which keeps a link that is
coming at the leader from being missed, and with `Theirs`, by which a link to the
leader's best address is one that the leader will see at that address.

*Only model-checked.* Liveness (`Reconnects`, `Migrates`, `LoopEnds`, `CallsEnd`,
`SwarmServed`, `SignalEndsMain`, `DropEndsTask`, `Settles`, `EndsOnBest`): fairness and
ENABLED are out of the prover's reach (of the last two the states of rest are proved,
see *Pair*). Every invariant and every action property
of the passing runs is the subject of a theorem.

## 5. Seen and not turned into a run

* How many reservations there may be. relay_manager.rs:9 says "keep at most N
  reservations" and relay_manager.rs:16 "Maximum number of concurrent relay
  reservations"; relay_manager.rs:67 says "Keep all in-use relays + max_relays spare
  capacity". These contradict each other, and the code does the last: `can_reserve`
  and `should_prune` (lines 39, 70) compare with the relays in use plus `max_relays`,
  so as soon as one relay is in use there may be more than N reservations. `Bounded`,
  `SparesBounded` and `RelayPolicy` state the bound of line 67; no run claims the one of
  lines 9 and 16, which the code does not keep (TLC refutes
  `~pruning => Len(reserved) <= MaxRelays` in `RelayMachine` in seven steps).
* A handler that ends half-way over a circuit (`OpenedHalfway`) leaves the relay
  carrying and neither counted as used nor registered until the next update
  and, as to its place, for as long as the circuit is open; `CarryingIsReserved` and
  `SpareBound` say what remains true.
* The backoff is 2, 4, ..., 64 seconds: `1 << err_count` after the increment
  (view.rs:98, 291). view.rs:288 says 1, 2, 4, ....
* A target that is added in passive mode leaves the node passive (mod.rs:781), so
  `ActiveWhenTargetMissing` holds in `steady`, where targets are fixed, and not in
  general; the lookup that is missing then is what `target_not_sought` shows.
* If the future of `join` is dropped, the task runs on without a receiver: its
  handlers then leave at the first event they send (handle.rs:17, mod.rs:271, 297).
* Events that are sent before the handle subscribes reach only the receiver that
  `new` keeps and then drops (mod.rs:153, 173); a slow receiver loses the oldest
  of 64 and is told so, and main and the tests go on.
* An address whose cooldown has ended stays behind until the next sort
  (view.rs:307, 317); `Healthy` is what remains true.
* mDNS expiry removes an address with its open connections (view.rs:73, 134):
  the view loses them, reconcile dials again. `TracksAll` holds in `steady`,
  which has no expiry, and not in general.
* An inbound connection's address is recorded without `should_skip_for_dial`
  (mod.rs:87, 296) and dialled after it closes.
* A known address that is reported again sorts the list but does not reconcile
  (mod.rs:242, 329), so a better address that came out of its cooldown then waits
  for the next event; `SettledOnBest` holds where nothing cools.
* An endpoint that is reported with and without its `/p2p` suffix counts as two
  addresses (view.rs:106, 405): the second one is a "better" or "worse" address
  of its own, and a migration between the two is one more connection.
* Reservations are asked for in passive mode as well (mod.rs:616); README:11-13
  speaks of them for the active mode.
* Kademlia that is switched on again starts with an empty table (mod.rs:730).
* A circuit's relay takes a place in the queue without a reservation
  (relay_manager.rs:12, mod.rs:553).
* The remote address of an inbound circuit is a bare `/p2p`, so its relay is not
  counted as used (mod.rs:543).

## 6. Not modelled

* keygen.rs: a chain of library calls without state of its own.
* error.rs: conversions. What an early return skips is modelled.
* autonat's `nat_status`: written, never read. Heartbeat, `NewListenAddr` and
  the listing of peers only print.
* `kad_bootstrap` and Kademlia's mode: their effect is inside libp2p.
* Listeners (mod.rs:638): a second request to listen through the same relay
  cannot be told from a renewal here. dcutr: inside libp2p; its result is one
  more inbound or outbound connection.
* A sort during which a cooldown ends (view.rs:318): time is discrete here and
  a sort is one step.
* Of the event channel, its contents: who receives how many events decides about
  nothing but what is printed.
* What a panic in a handler would do to `join` (handle.rs:19): no handler has one
  that is meant.
* In `PeerPair`: relays, modes, cooldowns, expiry, dials refused at once.

## 7. Plan

The order is that of importance: the view, then what decides over it, then
the node, then its surroundings.

1. *Done.* `NetworkView` with its machine and proofs; `RelayManager`,
   `RelayMachine`, `RelayPolicy` with proofs; `Multiaddr`; `SavedNetwork` with all
   its handlers and RPCs.
2. *Done.* `Rpc`, `AtomicCalls` and `Startup`, with proofs; `PeerPair`;
   `SavedNetwork_proofs`.
3. *Done.* `RelayManagerLemmas`: the loop against its closed form, the refinement
   of `RelayPolicy`, and the relays of the whole node; its targets.
4. *Done.* `Multiaddrs_proofs`, `PeerPair_proofs`, `SettlesOnBest` where nothing cools,
   and the recursion of reconcile call by call.
5. Next, models: expiry and cooldowns in `PeerPair`; a third node as the relay of a
   pair.
