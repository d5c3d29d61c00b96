SPECIFICATION FairSpec
CONSTANTS
  Nodes = {n1, n2}
  MaxRounds = 3
  MaxFaults = 2
PROPERTIES ImplementsBarrier SyncReturns
CHECK_DEADLOCK FALSE
