SPECIFICATION FairSpec
CONSTANTS
  ctl = ctl
  peer = peer
  idle = idle
  Clients = {ctl, peer, idle}
  Ctl = {ctl}
  Ops = {"info"}
  SlotsMax = 2
  Backlog = 2
  BufMax = 2
  ReplyRoom = 1
  MaxUnits <- MCUnits
  MaxStarts = 1
INVARIANTS StreamIntact RepliesInOrder RecvHasRoom NoneStranded
PROPERTIES CtlServed CtlReturns
CHECK_DEADLOCK FALSE
