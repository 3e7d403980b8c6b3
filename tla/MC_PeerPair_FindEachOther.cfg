SPECIFICATION FairSpec
CONSTANTS
  na = na
  nb = nb
  alan = alan
  blan = blan
  aeph = aeph
  beph = beph
  NoAddr = NoAddr
  Rank <- RankPortFirst
  AddrPeer <- PeerAt
  Origins <- Seen
  Peer = {na, nb}
  Leads = {nb}
  Addr = {alan, blan, aeph, beph}
  ConnId = {c1, c2, c3}
  Rtt = {0}
  BackoffCap = 1
  Told = {alan, blan}
  Silent = {aeph, beph}
  MaxDials = 1
  MaxBreaks = 1
PROPERTY
  FindEachOther
CHECK_DEADLOCK FALSE
