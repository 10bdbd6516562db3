SPECIFICATION Spec
CONSTANTS
  PoolCount = 1
  MaxSequence = 3
  Revolution = 3
  MaxPositions = 2
  Requests <- MCRequests
  KeyQueue = 1
  KeyBudget = 1
  MaxTests = 2
INVARIANTS
  SlotOwned
  StoppedIsDiscarded
  EachPositionOnce
  ScanInStep
  NeverMoveWhileRecording
  OneOutputAfterStop
  OutputsMatchState
PROPERTY
  FreshTest
