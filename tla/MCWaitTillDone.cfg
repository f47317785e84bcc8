SPECIFICATION FairSpec
CONSTANTS
  NumHosts = 3
  Rounds = 3
  Waits <- AllWaits
  MaxFaults = 2
INVARIANTS
  TypeOK
  ProceedsWhenDone
  InTime
PROPERTIES
  Detects
  WaitEnds
