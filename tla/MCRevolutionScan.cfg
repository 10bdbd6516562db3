SPECIFICATION Spec
CONSTANTS
  Revolution = 88000
  MaxPositions = 1000
  Requests <- MCRequests
INVARIANTS
  OnTarget
  FullTurn
  NextMoveIsReal
