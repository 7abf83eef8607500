SPECIFICATION Spec
CONSTANTS
  Sessions = {s1, s2}
  MaxSeq = 3
  MaxPipe = 1
  Io = Io
  Console = Console
  Torn = Torn
  NoId = NoId
  Radix = 2
SYMMETRY Perms
PROPERTIES
  QuitKeepsNumber
