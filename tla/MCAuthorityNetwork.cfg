SPECIFICATION FairSpec
CONSTANTS
  NumNodes = 3
  Shares <- SomeShares
  Installs = 3
  Watches = 2
  MaxFaults = 1
  MaxRestarts = 1
INVARIANTS
  TypeOK
  SealersAreSigners
  SignersSpread
  Undisturbed
PROPERTY RestartEnds
