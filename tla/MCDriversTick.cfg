SPECIFICATION DriversSpec
CONSTANTS
  Writes = 3
  VmidBefore = 2
  PowerTicks = 1
  VmidTicks = 2
  WriteTicks = 2
  Buffers = {1, 2}
  MaxCaptures = 2
  Words = 2
  CaptureTicks = 3
  MaxLag = 1
  KeepaliveTicks = 3
  WatchdogTicks = 10
  MoveTicks = 4
  BusTicks = 1
  MaxPosition = 2
  Deltas = {2}
INVARIANTS TimeoutIsLate
CHECK_DEADLOCK FALSE
