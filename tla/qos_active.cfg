SPECIFICATION FairSpec
CONSTANTS
  tenant = tenant
  f1 = f1
  f2 = f2
  NoRule = NoRule
  NoPacket = NoPacket
  Ssids <- OneTenant
  Dscps = {0, 1}
  Flows <- TwoFlows
  Quanta = {0}
  DefaultQuantum = 2
  Costs = {1, 3}
  Capacity = 2
  SLEEPINESS_TRIGGER = 2
  EncapMayFail = FALSE
  Deletable <- NoRules
  MaxPackets = 3
  MaxActive = 3
CHECK_DEADLOCK FALSE
INVARIANTS
  ActiveOnce
