CONSTANTS
  Kinds = {"done", "content", "stop", "usage"}
  Budget = 4
  ReadSize = 2
  MaxSent = 4
  MaxClock = 1
  Never = Never
SPECIFICATION ClientSpec
INVARIANTS
  TtftIsFirstFragment
