SPECIFICATION Spec
CONSTANTS
  t = t
  u = u
  r = r
  s = s
  lan = lan
  wan = wan
  ll = ll
  via = via
  uwan = uwan
  rwan = rwan
  swan = swan
  NoAddr = NoAddr
  NoPeer = NoPeer
  MaxRtt = 9
  Rank <- RankOf
  RelayOf <- RelayFor
  Skipped <- SkippedAddrs
  AddrPeer <- PeerAt
  Peer = {t}
  Addr = {lan, wan}
  ConnId = {c1, c2}
  Rtt = {0}
  BackoffCap = 1
  MaxRelays = 1
  Leads = {t}
  MdnsAddrs = {}
  HeardAddrs = {lan, wan}
  KadAddrs = {}
  InboundAddrs = {}
  HopPeers = {}
  DialsMayFail = FALSE
  LinksBreak = TRUE
  Refusals = {{}}
  MdnsMayFail = FALSE
  Calls = {}
  StartTargets = {t}
  MaxDials = 2
  Spare = 0
INVARIANTS
  AtMostOnePerPeer
