SPECIFICATION Spec
CONSTANTS
  p1 = p1
  p2 = p2
  p3 = p3
  t1 = t1
  t2 = t2
  t3 = t3
  Threads = {t1, t2, t3}
  Peers <- MCPeers
  Configs <- MCConfigs
  Shapes = {"s", "s2"}
  Ops = {"Sum", "Mean"}
  ChannelCapacity = 2
  Script <- FreeScript
INVARIANTS CallbackHeldOnce PendingCallsAgree
PROPERTIES ResultsForAll
CHECK_DEADLOCK FALSE
