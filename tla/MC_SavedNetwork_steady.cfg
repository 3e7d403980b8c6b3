SPECIFICATION FairSpec
CONSTANTS
  t = t
  u = u
  r = r
  s = s
  lan = lan
  wan = wan
  ll = ll
  via = via
  uwan = uwan
  rwan = rwan
  swan = swan
  NoAddr = NoAddr
  NoPeer = NoPeer
  MaxRtt = 9
  Rank <- RankOf
  RelayOf <- RelayFor
  Skipped <- SkippedAddrs
  AddrPeer <- PeerAt
  Peer = {t, u}
  Addr = {lan, wan, uwan}
  ConnId = {c1, c2, c3, c4, c5}
  Rtt = {0}
  BackoffCap = 1
  MaxRelays = 1
  Leads = {t}
  MdnsAddrs = {}
  HeardAddrs = {lan, wan}
  KadAddrs = {uwan}
  InboundAddrs = {wan, uwan}
  HopPeers = {}
  DialsMayFail = FALSE
  LinksBreak = TRUE
  Refusals = {{}}
  MdnsMayFail = FALSE
  Calls = {}
  StartTargets = {t, u}
  MaxDials = 1
  Spare = 3
INVARIANTS
  TracksAll
  ActiveWhenTargetMissing
  NeverIdle
  SettledOnBest
PROPERTIES
  Reconnects
  Migrates
