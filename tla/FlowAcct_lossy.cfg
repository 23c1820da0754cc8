SPECIFICATION FairSpec
CONSTANTS
  c1 = c1
  c2 = c2
  c3 = c3
  Conns = {c1, c2}
  TupleOf <- MCTupleOf
  MaxFlows = 1
  PollLimit = 1
  EmitDestroy = TRUE
  EmitNew = FALSE
  Lossy = TRUE
  SplitDump = TRUE
  UpdateCounts = {TRUE}
  NoSpool = TRUE
  DumpBuf = 1
  MaxBytes = 1
  MaxClock = 1
INVARIANTS DestroyIsFinal TeardownKept
PROPERTY TeardownReported
