CONSTANTS
  Files = {f1, f2}
  MaxChanges = 2
  MaxVerifies = 2
  NoFile = NoFile
  MaxLen = 6
  Kinds = {"done", "content", "stop", "length", "usage", "badusage", "raises", "junk", "scalar", "empty", "bytes"}
  Budget = 6
  ReadSize = 2
  MaxSent = 5
  MaxClock = 1
  Never = Never
SPECIFICATION MCSpec
CHECK_DEADLOCK FALSE
INVARIANTS
  ReceiptTruthful
  ChunkingIrrelevant
  EventsPrompt
  ErrorIsExact
  ValidRowIsEarned
  TokenClock
  PayloadsKept
PROPERTIES
  CheckIsAttest
