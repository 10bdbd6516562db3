SPECIFICATION Spec
CONSTANTS
  PoolCount = 1
  MaxSequence = 1
  Revolution = 3
  MaxPositions = 2
  Requests <- MCOnePosition
  KeyQueue = 1
  KeyBudget = 1
  MaxTests = 1
INVARIANT
  StopDiscards
