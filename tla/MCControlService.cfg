SPECIFICATION Spec
CONSTANTS
  Capacity = 4
  MinFile = 8
  MaxFile = 20
  MaxWaveform = 2
  Sessions = {s1, s2}
  AudioHz = 16
  Second = 10
  PhaseRange = 64
  CaptureTime = 7
  StartMargin = 1
  MaxConfig = 2
  Boots = {1, 2}
  Tests = {1}
  MaxSamples = 8
  Requests <- MCRequests
SYMMETRY MCSymmetry
INVARIANTS
  CommittedIsFile
  PlaysWhatWasApplied
  TestMatchesConfiguration
