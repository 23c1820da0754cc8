SPECIFICATION FairSpec
CONSTANTS
  Distance = 2
  MaxTtl = 3
  PerHop = 2
  Sockets = {"dgram", "raw"}
  UdpWorks = TRUE
  Patience = 2
  SeqMod = 2
  Late = 1
  RxMax = 1
  MaxSent = 2
INVARIANTS SampleTrue TraceTrue
PROPERTY ProbeReturns
CHECK_DEADLOCK FALSE
