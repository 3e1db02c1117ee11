CONSTANTS
  MaxForks = 2
  Proc = Proc
  Driver = Driver
  MaxChunks = 1
  Outputs = {"plain", "wide"}
  Inputs <- MCInputs
  Workers = {w1, w2}
  Rows = {r1, r2, r3}
  NoOne = NoOne
  Codes <- MCCodes
  CaseOrder <- MCCaseOrder
  Needle <- MCNeedle
  PromptSize = 8
  Window = 13
  Reserve = 4
  MtpReserve = 1
  MaxTokens = 4
  Commands <- MCCommands
  Answers <- MCAnswers
  Runners = {"r1", "r2"}
  NoRunner = "none"
  Paths = {"m1", "m2"}
  Slot = "slot"
  MaxEffort = 2
SPECIFICATION MCSpec
CHECK_DEADLOCK FALSE
INVARIANTS
  PassIsEarned
  SampledAreKilled
  ScoreIsCovered
  LateRowsBounded
  CaseExact
  ScoredOnce
  OkIsEarned
PROPERTIES
  DriverEnds
