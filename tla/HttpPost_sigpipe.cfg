SPECIFICATION PostSpec
CONSTANTS
  Schemes = {"http"}
  Parts = 2
  MaxTries = 1
INVARIANT ReturnsOnFailure
CHECK_DEADLOCK FALSE
