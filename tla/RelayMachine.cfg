SPECIFICATION Spec
CONSTANTS
  Peer = {r1, r2, r3}
  NoPeer = NoPeer
  MaxRelays = 1
  Rtts = {0, 1}
  MaxRtt = 2
INVARIANTS
  TypeOK
  Bounded
  CarryingIsReserved
PROPERTIES
  DropsOnlyTheWorst
  LoopFollowsPlan
  ImplementsPolicy
  LoopEnds
