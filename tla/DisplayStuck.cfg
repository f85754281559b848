SPECIFICATION Spec
CONSTANTS
  None = None
  Task = {"boot", "order", "send", "udp", "cap", "check", "display"}
  Queue = {"DATA", "ORDER"}
  Sem = {"SYN"}
  Msg = {"capBuf", "recvBuf", "OVER", "RECO"}
  Prio <- TaskPrio
  QSize <- QueueSize
  SemMax = 7
  IntQSize = 10
  NestMod = 256
  IsrPosts <- MCPosts
  Temps <- MCTemps
  Limits <- MCLimits
  Orders <- MCSleepOrders
  InitLimits <- MCInitLimits
  SendMayFail = FALSE
  MaxOrders = 3
  MaxKeys = 0
  MaxTicks = 0
  MaxFlips = 0
  MaxEvents = 14
INVARIANTS
  AwakeMeansDisplaying
