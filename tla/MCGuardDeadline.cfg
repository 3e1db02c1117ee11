CONSTANTS
  a1 = a1
  a2 = a2
  d1 = d1
  d2 = d2
  Attempts = {a1, a2}
  Operators = {o1}
  Foreign = {}
  Dirs = {d1}
  StateDir <- SameDir
  Signals = {}
  ExitCodes = {0, 1}
  MaxWatch = 2
  None = None
  Blank = Blank
  Garbled = Garbled
SPECIFICATION FairSpec
PROPERTIES
  DeadlineEndsLaunch
  EvidenceKept
  LaunchIsOwned
