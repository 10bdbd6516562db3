SPECIFICATION ServerSpec
CONSTANTS
  Capacity = 4
  MinFile = 8
  MaxFile = 20
  MaxWaveform = 1
  Sessions = {1, 2, 3}
  AudioHz = 16
  Second = 10
  PhaseRange = 64
  CaptureTime = 7
  StartMargin = 1
  MaxConfig = 1
  Boots = {1}
  Tests = {1}
  MaxSamples = 8
  Requests <- MCRequests
  RpcTicks = 1
  QueueLength = 2
  MaxToken = 2
INVARIANTS
  AnswerIsOwn
  NothingInherited
PROPERTIES
  NotAfterTimeout
  Released
CHECK_DEADLOCK FALSE
