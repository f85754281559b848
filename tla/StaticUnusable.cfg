SPECIFICATION SSpec
CONSTANTS
  Addr = {a1, a2}
  Static = static
  NoAddr = NoAddr
  Leases <- MCLeases
  ServersAgree = FALSE
  MaxTries = 4
  MaxRefusals = 1
  MaxCoarse = 1
INVARIANTS
  AddressUsable
CHECK_DEADLOCK FALSE
