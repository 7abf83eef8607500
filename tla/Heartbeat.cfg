SPECIFICATION TimedSpec
CONSTANTS
  Intervals = {2, 5, 7}
  Slack = 3
  MaxBusy = 1
  MaxHellos = 3
  MaxTime = 10
INVARIANTS
  TypeOK
  HeartbeatInTime
  HeartbeatsSpaced
  HeapHoldsWaits
\* Time is bounded, and a close frame before HELLO ends the process.
CHECK_DEADLOCK FALSE
