------------------------------ MODULE MC_PeerPair ------------------------------
(***************************************************************************)
(* Two nodes na and nb for TLC, na with the smaller id.                    *)
(***************************************************************************)
EXTENDS PeerPair, Sequences

CONSTANTS
  na, nb,
  alan, blan,    \* where they listen
  aeph, beph     \* ports they dial from when they do not reuse the former

\* The last component of the sort key is the address itself, so that either of two
\* ports may rank first.
RankIn(order) == [x \in Addr |-> CHOOSE i \in DOMAIN order : order[i] = x]
RankRealFirst == RankIn(<<alan, blan, aeph, beph>>)
RankPortFirst == RankIn(<<aeph, beph, alan, blan>>)

PeerAt == [x \in Addr |-> IF x \in {alan, aeph} THEN na ELSE nb]

Seen == [x \in Addr |-> IF PeerAt[x] = na THEN {blan, beph} ELSE {alan, aeph}]
===============================================================================
