SPECIFICATION Spec
CONSTANTS
  t = t
  u = u
  r = r
  s = s
  lan = lan
  wan = wan
  ll = ll
  via = via
  uwan = uwan
  rwan = rwan
  swan = swan
  NoAddr = NoAddr
  NoPeer = NoPeer
  MaxRtt = 9
  Rank <- RankOf
  RelayOf <- RelayFor
  Skipped <- SkippedAddrs
  AddrPeer <- PeerAt
  Peer = {t}
  Addr = {lan, ll}
  ConnId = {c1, c2}
  Rtt = {0}
  BackoffCap = 1
  MaxRelays = 1
  Leads = {t}
  MdnsAddrs = {lan}
  HeardAddrs = {lan}
  KadAddrs = {lan}
  InboundAddrs = {lan, ll}
  HopPeers = {}
  DialsMayFail = TRUE
  LinksBreak = TRUE
  Refusals = {{}, {lan}, {lan, ll}}
  MdnsMayFail = TRUE
  Calls = {"set_mdns_enabled", "set_kad_enabled", "kad_find_peer", "dial", "add_target_peer", "remove_target_peer"}
  StartTargets = {}
  MaxDials = 1
  Spare = 0
INVARIANTS
  TypeOK
  NoPhantom
  ConnectedIsHealthy
  StopsOnlyWithNothingLeft
  TableWithinView
CHECK_DEADLOCK FALSE
