SPECIFICATION Spec
CONSTANTS
  c1 = c1
  c2 = c2
  c3 = c3
  Conns = {c1, c2}
  TupleOf <- MCTupleOf
  MaxFlows = 2
  PollLimit = 2
  EmitDestroy = TRUE
  EmitNew = FALSE
  Lossy = FALSE
  SplitDump = TRUE
  UpdateCounts = {TRUE}
  NoSpool = FALSE
  DumpBuf = 2
  MaxBytes = 1
  MaxClock = 0
INVARIANT FlowListLive
