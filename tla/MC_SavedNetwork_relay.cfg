SPECIFICATION Spec
CONSTANTS
  t = t
  u = u
  r = r
  s = s
  lan = lan
  wan = wan
  ll = ll
  via = via
  uwan = uwan
  rwan = rwan
  swan = swan
  NoAddr = NoAddr
  NoPeer = NoPeer
  MaxRtt = 9
  Rank <- RankOf
  RelayOf <- RelayFor
  Skipped <- SkippedAddrs
  AddrPeer <- PeerAt
  Peer = {t, r, s}
  Addr = {via, rwan, swan}
  ConnId = {c1, c2, c3}
  Rtt = {0, 1}
  BackoffCap = 1
  MaxRelays = 1
  Leads = {t}
  MdnsAddrs = {}
  HeardAddrs = {via}
  KadAddrs = {}
  InboundAddrs = {rwan, swan}
  HopPeers = {r, s}
  DialsMayFail = FALSE
  LinksBreak = TRUE
  Refusals = {{}}
  MdnsMayFail = FALSE
  Calls = {}
  StartTargets = {}
  MaxDials = 1
  Spare = 0
INVARIANTS
  SparesBounded
PROPERTIES
  PruneSparesCarriers
