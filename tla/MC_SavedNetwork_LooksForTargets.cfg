SPECIFICATION FairSpec
CONSTANTS
  t = t
  u = u
  r = r
  s = s
  lan = lan
  wan = wan
  ll = ll
  via = via
  uwan = uwan
  rwan = rwan
  swan = swan
  NoAddr = NoAddr
  NoPeer = NoPeer
  MaxRtt = 9
  Rank <- RankOf
  RelayOf <- RelayFor
  Skipped <- SkippedAddrs
  AddrPeer <- PeerAt
  Peer = {t}
  Addr = {wan}
  ConnId = {c1}
  Rtt = {0}
  BackoffCap = 1
  MaxRelays = 1
  Leads = {t}
  MdnsAddrs = {}
  HeardAddrs = {wan}
  KadAddrs = {}
  InboundAddrs = {}
  HopPeers = {}
  DialsMayFail = FALSE
  LinksBreak = TRUE
  Refusals = {{}}
  MdnsMayFail = FALSE
  Calls = {"add_target_peer"}
  StartTargets = {}
  MaxDials = 1
  Spare = 0
PROPERTIES
  LooksForTargets
