SPECIFICATION FairSpec
CONSTANTS
  HardLines = 3
  DefaultLines = 2
  EventQ = 1
  BatchMin = 2
  Requests = {0, 3, 4}
  MaxPush = 3
  MaxGen = 2
  MaxFailed = 1
INVARIANTS RingShape Window LossAccounted SinkInOrder DropsTold CapMatchesConfig
PROPERTY SpoolSpec EveryLineSettles
