SPECIFICATION PostFairSpec
CONSTANTS
  Schemes = {"http", "https"}
  Parts = 2
  MaxTries = 3
INVARIANT OkMeansStored
PROPERTY PostReturns
CHECK_DEADLOCK FALSE
