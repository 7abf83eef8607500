SPECIFICATION Spec
CONSTANTS
  Threads = {t1}
  Io = Io
  Console = Console
  Posters = {Io, Console}
  NoTask = NoTask
  Empty = Empty
  Garbage = Garbage
  Events <- GuildEvents
  MaxEvents = 2
  MaxCommands = 1
INVARIANTS
  PrintsTheGuilds
CHECK_DEADLOCK FALSE
