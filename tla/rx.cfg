SPECIFICATION FairSpec
CONSTANTS
  sta = sta
  Broadcast = Broadcast
  NULL = NULL
  Freed = Freed
  NoNeighbor = NoNeighbor
  Addrs = {sta}
  Ifaces = {0}
  Rssis <- FarFrames
  RssiKeys <- TwoConditions
  SummaryKeys <- TwoCaptures
  Limits = {0, 2}
  Ids = {1, 2}
  SmaPeriod = 2
  MaxSilent = 1
  MaxPackets = 1
  MaxFrames = 1
  MaxTriggers = 2
  MaxSent = 1
  MaxWindows = 2
  MaxSessions = 1
CHECK_DEADLOCK FALSE
INVARIANTS
  ArmedInstalled
  OnlyCurrentSession
  SummaryWithinLimit
PROPERTIES
  MatchReported
