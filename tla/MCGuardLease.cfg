CONSTANTS
  a1 = a1
  a2 = a2
  d1 = d1
  d2 = d2
  Attempts = {a1, a2}
  Operators = {}
  Foreign = {}
  Dirs = {d1, d2}
  StateDir <- OwnDirs
  Signals = {15}
  ExitCodes = {0, 1}
  MaxWatch = 0
  None = None
  Blank = Blank
  Garbled = Garbled
SPECIFICATION Spec
INVARIANTS
  RunningIsRecorded
  LeaseCoversServer
  DriftNeverServed
