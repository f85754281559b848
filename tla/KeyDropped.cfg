SPECIFICATION Spec
CONSTANTS
  None = None
  Task = {"boot", "order", "send", "udp", "cap", "check", "display"}
  Queue = {"DATA", "ORDER"}
  Sem = {"SYN"}
  Msg = {"capBuf", "recvBuf", "OVER", "RECO"}
  Prio <- TaskPrio
  QSize <- QueueSize
  SemMax = 7
  IntQSize = 10
  NestMod = 256
  IsrPosts <- MCPosts
  Temps <- MCTemps
  Limits <- MCLimits
  Orders <- MCOrders
  InitLimits <- MCInitLimits
  SendMayFail = FALSE
  MaxOrders = 1
  MaxKeys = 1
  MaxTicks = 10
  MaxFlips = 0
  MaxEvents = 14
INVARIANTS
  DormantMeansSuspended
