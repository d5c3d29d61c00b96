SPECIFICATION PlaneSpec
CONSTANTS
  s1 = s1
  s2 = s2
  p1 = p1
  p2 = p2
  Sessions = {s1, s2}
  Addresses = {"a", "b"}
  Peers = {p1, p2}
  Strategies = {"Tree2"}
  Params = {"sum"}
  Registers <- PlaneRegisters
  Specs <- PlaneSpecs
  Plans <- AllPlans
  QueueCapacity = 64
  MaxRequests = 0
  MaxBegins = 2
  MaxFaults = 1
INVARIANTS NothingSkipped
PROPERTIES LossReleasesWaiters LeaverForgotten
CHECK_DEADLOCK FALSE
