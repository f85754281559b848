SPECIFICATION PSpec
CONSTANTS
  Task = {"high", "mid1", "mid2", "low"}
  None = None
  BasePrio <- MCPrio
  MaxNest = 2
  Handler = {"ip", "coarse", "fine"}
  Period <- MCPeriod
  InitOrder <- MCInitOrder
  TickMs = 5
  MaxNow = 65
  MaxMsgs = 2
  NumBlocks = 7
  BlockSize = 32
  Sizes = {0, 32, 33, 96, 128}
  MaxTexts = 3
  MaxLinks = 2
  Addr = {a1, a2}
  NoAddr = NoAddr
  Static = static
  Leases <- MCLeases
  ServersAgree = TRUE
  MaxTries = 4
  MaxRefusals = 2
  MaxCoarse = 2
INVARIANTS
  OwnerInherits
  WaitersSorted
  MapMatchesRegions
  FailsOnlyWhenFull
  RelaySurvivesClose
  STypeOK
  BoundAsRequested
  AddressAfterQueues
  ShownIsFinal
PROPERTIES
  LeaseNotOverwritten
  TasksAreCreated
  TimersIndependent
  NotTooEarly
  TextsInOrder
  TextsDrain
CHECK_DEADLOCK FALSE
