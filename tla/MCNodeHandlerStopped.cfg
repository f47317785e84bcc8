CONSTANTS
  NumRegions = 2
  MaxCount = 2
  Distributions <- MCEvenDistribution
  VmCounts = {2}
  Starter = starter
  Terminators = {t1, t2}
  MaxFaults = 1
  NoRecord = NoRecord
  Torn = Torn
  NoHost = NoHost
SPECIFICATION FairSpec
PROPERTY StoppedAreTerminated
