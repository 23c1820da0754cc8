SPECIFICATION Spec
CONSTANTS
  c1 = c1
  c2 = c2
  c3 = c3
  Conns = {c1, c2, c3}
  TupleOf <- MCTupleOf
  MaxFlows = 2
  PollLimit = 2
  EmitDestroy = TRUE
  EmitNew = TRUE
  Lossy = FALSE
  SplitDump = FALSE
  UpdateCounts = {FALSE}
  NoSpool = FALSE
  DumpBuf = 1
  MaxBytes = 1
  MaxClock = 0
INVARIANTS NoDoubleEntry FlowListLive FlowListComplete BytesOwn
