CONSTANTS
  Kinds = {"done", "content", "usage", "scalar"}
  Budget = 4
  ReadSize = 2
  MaxSent = 4
  MaxClock = 1
  Never = Never
SPECIFICATION ClientSpec
INVARIANTS
  NothingDiscarded
