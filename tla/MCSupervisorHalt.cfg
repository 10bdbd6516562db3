SPECIFICATION FairSpec
CONSTANTS
  Ticks = 12
  Numbers = 3
  Heartbeat = 2
  Timeout = 6
  Watchdog = 5
  QueueLength = 2
  MaxLag = 1
PROPERTY
  HaltResets
CHECK_DEADLOCK FALSE
