SPECIFICATION FairSpec
CONSTANTS
  Threads = {Console, Io}
  IoThread = Io
  NoThread = NoThread
  Chunks = 2
  MaxSends = 2
INVARIANTS
  TypeOK
  FrontIsInFlight
PROPERTIES
  ImplementsStream
  EveryFrameLeaves
\* Every send done, the socket lost and the queue empty: nothing is left to do.
CHECK_DEADLOCK FALSE
