SPECIFICATION FairSpec
CONSTANTS
  r0 = r0
  r1 = r1
  a0 = a0
  b0 = b0
  a1 = a1
  Ranks <- Rank01
  Threads <- Thread3
  RankOf <- Rank3
  Script <- RailScript
  Rails = {0, 1}
  MaxCalls = 1
  MaxFaults = 0
  MayAbort = {r1}
  MayLeave = {}
  Heartbeats = FALSE
PROPERTIES AbortInterrupts
CHECK_DEADLOCK FALSE
