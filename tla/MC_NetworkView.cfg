SPECIFICATION Spec
CONSTANTS
  p1 = p1
  a1 = a1
  a2 = a2
  a3 = a3
  c1 = c1
  c2 = c2
  NoAddr = NoAddr
  Rank <- RankOf
  Peer = {p1}
  Addr = {a1, a2, a3}
  ConnId = {c1, c2}
  ConnPeer <- AllAtP1
  Rtt = {0, 1}
  BackoffCap = 2
  Leads = {p1}
INVARIANTS
  TypeOK
  OneAddressPerConnection
  HealthyNeverBehind
  ReconcileIsTheRecursion
PROPERTIES
  ForgetsThePast
