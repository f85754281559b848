SPECIFICATION FairSpec
CONSTANTS
  None = None
  Task = {"boot", "order", "send", "udp", "cap", "check", "display"}
  Queue = {"DATA", "ORDER"}
  Sem = {"SYN"}
  Msg = {"capBuf", "recvBuf", "OVER", "RECO"}
  Prio <- TaskPrio
  QSize <- QueueSize
  SemMax = 7
  IntQSize = 10
  NestMod = 256
  IsrPosts <- MCPosts
  Temps <- MCTemps
  Limits <- MCLimits
  Orders <- MCTestOrders
  InitLimits <- MCInitLimits
  SendMayFail = FALSE
  MaxOrders = 1
  MaxKeys = 1
  MaxTicks = 0
  MaxFlips = 1
  MaxEvents = 2
PROPERTIES
  KeepsSampling
  HotSleeps
  CoolRecovers
  CommandHandled
