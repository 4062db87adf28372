SPECIFICATION RingsSpec
CONSTANTS
  p1 = p1
  p2 = p2
  NoPacket = NoPacket
  Packets <- TwoPackets
  Capacity = 4
  NULL = NULL
  Period = 3
  Vals <- MixedVals
  MaxAdds = 7
INVARIANTS
  OnlyQueuedSlotsFilled
  AverageOfRecent
PROPERTIES
  FifoSpec
