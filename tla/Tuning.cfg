SPECIFICATION Spec
CONSTANTS
  ExactRingSearchMaxRanks = 4
  MaxRingChannels = 2
  MaxP2pRails = 2
  Payloads = {1, 8}
  Scenarios <- AllScenarios
INVARIANTS TuningValid TopologySound PlansSound ProfileFresh FingerprintCoversEstimates
CHECK_DEADLOCK FALSE
