SPECIFICATION FairSpec
CONSTANTS
  PoolCount = 1
  MaxSequence = 2
  Revolution = 3
  MaxPositions = 2
  Requests <- MCTwoPositions
  KeyQueue = 1
  KeyBudget = 1
  MaxTests = 1
PROPERTIES
  StopEnds
  InhibitEnds
  RunEnds
