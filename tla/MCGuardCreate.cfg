CONSTANTS
  a1 = a1
  a2 = a2
  d1 = d1
  d2 = d2
  Attempts = {a1}
  Operators = {o1}
  Foreign = {}
  Dirs = {d1}
  StateDir <- OneDir
  Signals = {15}
  ExitCodes = {0, 1}
  MaxWatch = 0
  None = None
  Blank = Blank
  Garbled = Garbled
SPECIFICATION Spec
INVARIANTS
  UncertainCreateResolved
