SPECIFICATION Spec
CONSTANTS
  Cases <- AllCases
  Room = 1
INVARIANTS Consistent AckedIsQueued
PROPERTIES ImplementsMailboxes AllReturn
CHECK_DEADLOCK FALSE
