SPECIFICATION NSpec
CONSTANTS
  None = None
  Task = {"tcpip", "dhcp", "input", "udp"}
  BasePrio <- NetPrio
  MaxNest = 4
  Kinds = {"order"}
  MaxChain = 1
  NumPbuf = 4
  NumInpkt = 2
  NumNetbuf = 2
  MboxSize = 2
  PostMayDrop = FALSE
  SendMayFail = FALSE
  MaxFrames = 3
  MaxSends = 1
  MaxTimers = 0
  MaxDhcps = 1
  MaxEvents = 5
INVARIANTS
  SendHasBuffer
