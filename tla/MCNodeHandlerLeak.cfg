CONSTANTS
  NumRegions = 2
  MaxCount = 2
  Distributions <- MCDistributions
  VmCounts = {2, 3}
  Starter = starter
  Terminators = {t1}
  MaxFaults = 1
  NoRecord = NoRecord
  Torn = Torn
  NoHost = NoHost
SPECIFICATION Spec
PROPERTY RequestStartsShutdown
