CONSTANTS
  NumRegions = 2
  MaxCount = 2
  Distributions <- MCDistributions
  VmCounts = {2, 3}
  Starter = starter
  Terminators = {t1}
  MaxFaults = 0
  NoRecord = NoRecord
  Torn = Torn
  NoHost = NoHost
SPECIFICATION Spec
INVARIANT VmCountLaunched
