SPECIFICATION FairSpec
CONSTANTS
  Ticks = 12
  Numbers = 3
  Heartbeat = 2
  Timeout = 6
  Watchdog = 5
  QueueLength = 2
  MaxLag = 1
INVARIANTS
  TypeOK
  NoFalseAlarm
  StallDetected
  OnlyHaltResets
PROPERTY
  WatchedHaltResets
CHECK_DEADLOCK FALSE
