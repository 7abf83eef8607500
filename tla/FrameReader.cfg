SPECIFICATION FairSpec
CONSTANTS
  Response <- ResponseBytes
  Lengths = {0, 1, 126}
  MaxFrames = 3
  MaxRead = 160
  CutFrames = FALSE
INVARIANTS
  TypeOK
  ResponseFound
  LeftoverCompleted
PROPERTIES
  HearsWhatIsSaid
\* The connection ends, or the gateway stops speaking.
CHECK_DEADLOCK FALSE
