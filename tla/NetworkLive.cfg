SPECIFICATION NSpec
CONSTANTS
  None = None
  Task = {"tcpip", "dhcp", "input", "udp"}
  BasePrio <- NetPrio
  MaxNest = 4
  Kinds = {"order", "arp"}
  MaxChain = 3
  NumPbuf = 9
  NumInpkt = 2
  NumNetbuf = 1
  MboxSize = 1
  PostMayDrop = FALSE
  SendMayFail = FALSE
  MaxFrames = 3
  MaxSends = 1
  MaxTimers = 1
  MaxDhcps = 0
  MaxEvents = 5
INVARIANTS
  PostFindsRoom
  PbufsSuffice
PROPERTIES
  FramesAreRead
  SendReturns
CHECK_DEADLOCK FALSE
