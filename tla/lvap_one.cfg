SPECIFICATION FairSpec
CONSTANTS
  b1 = b1
  b2 = b2
  b3 = b3
  b4 = b4
  s1 = s1
  s2 = s2
  Stas = {s1}
  Ssids = {"B"}
  Dscps = {0}
  Ifaces = {0, 1}
  NoIface = NoIface
  NoBlock = NoBlock
  NoLvap = NoLvap
  NoVap = NoVap
  Bits <- MCBits
  VapBssids <- MCVapBssids
  Blocks <- MCBlocks
  ChannelOf <- MCChannelOf
  HwAddr <- MCHwAddr
  Element <- MCElement
  NetBssid <- OneNet
  AddMsgs <- OneAdd
  DelMsgs <- OneDel
  VapMsgs <- OneVap
  RuleMsgs <- OneRule
  PortMsgs <- OnePort
  MaxRequests = 3
INVARIANTS TypeOK CsaInv IfaceMatchesBlock AnsweredOnce
PROPERTIES SwitchOnlyAfterCountdown PolicyOutlivesOthers CsaTerminates KeptIdAnswered
CHECK_DEADLOCK FALSE
