SPECIFICATION Spec
CONSTANTS
  s1 = s1
  s2 = s2
  s3 = s3
  p1 = p1
  p2 = p2
  p3 = p3
  Sessions = {s1, s2}
  Addresses = {"a", "b"}
  Peers = {p1, p2, p3}
  Strategies = {"Tree2", "Tree0"}
  Params = {"sum"}
  Registers <- PairRegisters
  Specs <- AnySpecs
  QueueCapacity = 1
  MaxRequests = 3
SYMMETRY SessionSymmetry
INVARIANTS Counted GroupConsistent NoStalePeers CollectivesAgree
CHECK_DEADLOCK FALSE
