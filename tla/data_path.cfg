SPECIFICATION DataSpec
CONSTANTS
  b1 = b1
  b2 = b2
  b3 = b3
  b4 = b4
  s1 = s1
  s2 = s2
  Stas = {s1, s2}
  Ssids = {"A", "B"}
  Group = Group
  Slots = {1, 2}
  Dscps = {0}
  Ifaces = {0, 1}
  NoIface = NoIface
  NoBlock = NoBlock
  NoLvap = NoLvap
  NoVap = NoVap
  Bits <- MCBits
  VapBssids <- MCVapBssids
  Blocks <- MCBlocks
  ChannelOf <- MCChannelOf
  HwAddr <- MCHwAddr
  Element <- MCElement
  NetBssid <- TwoNet
  AddMsgs <- TwoAdd
  DelMsgs <- TwoDel
  VapMsgs <- TwoVap
  RuleMsgs <- TwoRule
  PortMsgs <- None
  MaxRequests = 4
INVARIANTS VapsAcked KeptIdsOpen GroupReachesOnce EncapReachesOnce CopiesQueued
CHECK_DEADLOCK FALSE
