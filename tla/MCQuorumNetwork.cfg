SPECIFICATION FairSpec
CONSTANTS
  NumNodes = 3
  Retries = 3
  Rounds = 3
  MaxFaults = 3
  MaxRestarts = 1
INVARIANTS
  TypeOK
  IdsAgree
  RunningConnected
  RestartHeals
PROPERTY QuorumStartEnds
