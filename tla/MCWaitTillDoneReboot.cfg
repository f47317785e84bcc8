SPECIFICATION Spec
CONSTANTS
  NumHosts = 2
  Rounds = 3
  Waits <- StaleWaits
  MaxFaults = 0
INVARIANT RebootsAwaited
