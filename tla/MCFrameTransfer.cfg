SPECIFICATION Spec
CONSTANTS
  PoolCount = 2
  MaxSequence = 3
  MaxBoot = 2
  MaxFaults = 2
INVARIANTS
  TypeOK
  NoCaptureLost
  StoredIntact
  StoredInOrder
  NeverRefused
PROPERTY
  DeliverySpec
