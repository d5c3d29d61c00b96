CONSTANTS
  OperationTags = 1
  ChannelTags = 256
  StepTags = 1
  Jobs <- AllJobs
SPECIFICATION FairSpec
INVARIANTS Consistent ResultsCorrect NothingLeftOver NoErrorWithoutFault
PROPERTIES AllReturn
CHECK_DEADLOCK FALSE
