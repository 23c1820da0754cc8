SPECIFICATION FairSpec
CONSTANTS
  Bodies <- MCBodies
  FirstBody <- MCFirst
  ForceDemo = TRUE
  MaxEdits = 2
  Loops = {"uv", "poll"}
INVARIANTS HupNotLost LoopFollowsConfig
PROPERTIES HupHonoured StopExits
CHECK_DEADLOCK FALSE
