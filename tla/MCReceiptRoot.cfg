CONSTANTS
  Files = {f1, f2}
  MaxChanges = 1
  MaxVerifies = 1
  NoFile = NoFile
  MaxLen = 0
  Kinds = {}
  Budget = 0
  ReadSize = 2
  MaxSent = 0
  MaxClock = 1
  Never = Never
SPECIFICATION MCSpec
CHECK_DEADLOCK FALSE
INVARIANTS
  RootCompared
