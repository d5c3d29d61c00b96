SPECIFICATION Spec
CONSTANTS
  r0 = r0
  r1 = r1
  a0 = a0
  b0 = b0
  a1 = a1
  Ranks <- Rank01
  Threads <- Thread3
  RankOf <- Rank3
  Script <- MixedScript
  Rails = {0}
  MaxCalls = 2
  MaxFaults = 1
  MayAbort = {}
  MayLeave = {r1}
  Heartbeats = TRUE
INVARIANTS AtMostOneStranded NothingLeftToMatch NoOvertaking OwnReply
CHECK_DEADLOCK FALSE
