SPECIFICATION FairSpec
CONSTANT MaxHellos = 2
INVARIANTS
  TypeOK
  HeartbeatChain
  WhyRunReturned
PROPERTIES
  HeartbeatsContinue
  LateQuitEnds
  CloseEndsRun
\* The process exits, crashes, or waits for the user for ever.
CHECK_DEADLOCK FALSE
