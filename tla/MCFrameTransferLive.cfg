SPECIFICATION FairSpec
CONSTANTS
  PoolCount = 2
  MaxSequence = 3
  MaxBoot = 2
  MaxFaults = 1
PROPERTIES
  EventuallyStored
  BufferComesBack
