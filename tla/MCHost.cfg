CONSTANTS
  TableSize = 2
  DiskReserve = 2
  PrepReserve = 1
  MaxFree = 8
  MaxLaunches = 3
  MaxTaken = 2
  MountTables <- MCMounts
  PleDir <- MCPleDir
  Main = {"main0"}
  Mtp = {"mtp0"}
  Ple = {"ple0"}
  Scale = "scale"
  Plain = {"norm"}
  MtpPlain = {"mtp_norm"}
  Strays <- MCStrays
  MtpShard = "mtp"
  OtherShard = "main"
  ExtraShard = "extra"
  MaxEdits = 2
  Floor = 8
  LowLimit = 5
  Samples = {3, 4, 7, 8}
  Unknown = Unknown
  MaxWatch = 6
  Delays = {1, 2}
  MaxRounds = 7
  ProseCases = {"a"}
  VisionCases = {"v1", "v2"}
  RoundLanes = {"short"}
  Repeats = 3
  Servers <- MCServers
  Levers = {"default", "vision"}
  Wires <- MCWires
  Requests = 2
  LaneOrder <- MCLaneOrder
  MaxEpochs = 2
  MaxUpsets = 1
SPECIFICATION MCSpec
CHECK_DEADLOCK FALSE
INVARIANTS
  NoBreachIgnored
  NoFalseTrip
  PassIsSafe
  SpaceAgreed
  AdmittedIsWhole
  PassIsOneEpoch
  PassIsFair
