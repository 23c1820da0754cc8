SPECIFICATION FairSpec
CONSTANTS
  Conns = {"web", "next", "mail", "dns", "peer", "isp2", "far", "six"}
  Lasting = {"mail", "dns", "peer", "isp2", "far", "six"}
  Flow <- MCFlow
  Updated = {"six"}
  MaxSkew = 0
  QueueLen = 1
  MaxClock = 1
  MaxWifiQueue = 2
INVARIANTS  WifiFresh
PROPERTIES EventLogged StopEnds
CHECK_DEADLOCK FALSE
