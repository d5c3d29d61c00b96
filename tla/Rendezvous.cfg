SPECIFICATION FairSpec
CONSTANTS
  Requests <- MixedRequests
  WorldSize = 3
  MaxCalls = 2
  MaxTimeouts = 1
  MaxLosses = 1
  Aborts = TRUE
  Retry = FALSE
  ElementCounts = {0, 1, 3, 6}
  ShardCounts = {0, 1, 2}
INVARIANTS RoutesAsDefined OwnResponse ReadyMeansSame AbortNamesRound
PROPERTIES FaultReleasesWaiters DeadlineReleasesWaiters
CHECK_DEADLOCK FALSE
