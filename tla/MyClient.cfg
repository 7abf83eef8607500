SPECIFICATION FairSpec
CONSTANTS
  Threads = {t1, t2}
  Io = Io
  Console = Console
  Posters = {Io, Console}
  NoTask = NoTask
  Empty = Empty
  Garbage = Garbage
  Events <- AllEvents
  MaxEvents = 1
  MaxCommands = 1
INVARIANTS
  TypeOK
  NoLostWakeup
  OpenWhileClientRuns
  LoadedAsSent
  GreetsTextChannels
PROPERTIES
  ImplementsExecutor
  QuitEnds
\* The process exits, or waits for the user for ever.
CHECK_DEADLOCK FALSE
