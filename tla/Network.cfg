SPECIFICATION NSpec
CONSTANTS
  None = None
  Task = {"tcpip", "dhcp", "input", "udp"}
  BasePrio <- NetPrio
  MaxNest = 4
  Kinds = {"order", "arp", "bad", "junk"}
  MaxChain = 2
  NumPbuf = 2
  NumInpkt = 2
  NumNetbuf = 2
  MboxSize = 2
  PostMayDrop = TRUE
  SendMayFail = TRUE
  MaxFrames = 3
  MaxSends = 1
  MaxTimers = 0
  MaxDhcps = 1
  MaxEvents = 4
INVARIANTS
  NTypeOK
  ChipIsLocked
  DeafOnlyWhileSending
  PollEnds
  BuffersConserved
PROPERTIES
  OrdersInOrder
CHECK_DEADLOCK FALSE
