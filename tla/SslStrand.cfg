SPECIFICATION Spec
CONSTANTS
  Threads = {Console, Io}
  IoThread = Io
  NoThread = NoThread
  Chunks = 2
  MaxSends = 2
INVARIANTS
  OneThreadInStream
\* Every send done, the socket lost and the queue empty: nothing is left to do.
CHECK_DEADLOCK FALSE
