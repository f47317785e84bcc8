CONSTANTS
  NumRegions = 2
  MaxCount = 2
  Distributions <- MCDistributions
  VmCounts = {2, 3}
  Starter = starter
  Terminators = {t1}
  MaxFaults = 2
  NoRecord = NoRecord
  Torn = Torn
  NoHost = NoHost
SPECIFICATION FairSpec
INVARIANT TypeOK
INVARIANT LaunchRecorded
INVARIANT PlacementExact
INVARIANT StoppedAndBilled
INVARIANT ShutdownComplete
PROPERTY BilledBeforeTerminated
PROPERTY TerminateCompletes
PROPERTY StartEnds
