SPECIFICATION Spec
CONSTANTS
  Response <- ResponseBytes
  Lengths = {1, 3}
  MaxFrames = 2
  MaxRead = 16
  CutFrames = TRUE
INVARIANTS
  LeftoverCompleted
CHECK_DEADLOCK FALSE
