SPECIFICATION Spec
CONSTANTS
  sta = sta
  Broadcast = Broadcast
  NULL = NULL
  Freed = Freed
  NoNeighbor = NoNeighbor
  Addrs = {sta}
  Ifaces = {0}
  Rssis <- FarFrames
  RssiKeys <- NoKeys
  SummaryKeys <- TwoCaptures
  Limits = {0}
  Ids = {1, 2}
  SmaPeriod = 2
  MaxSilent = 1
  MaxPackets = 1
  MaxFrames = 1
  MaxTriggers = 3
  MaxSent = 1
  MaxWindows = 1
  MaxSessions = 1
CHECK_DEADLOCK FALSE
INVARIANTS
  InstalledArmed
