SPECIFICATION FairSpec
CONSTANTS
  p1 = p1
  p2 = p2
  o1 = o1
  Peers <- TwoPeers
  Polled <- TwoPeersPolled
  Orderer1 = o1
  Channels = 2
  Retries = 2
  MaxRetry = 2
  MaxFaults = 2
  MaxStarts = 2
INVARIANTS
  TypeOK
  SingleRun
  FormedIsComplete
PROPERTIES
  RunningKept
  DeployEnds
