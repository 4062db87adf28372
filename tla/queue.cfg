SPECIFICATION Spec
CONSTANTS
  Capacity = 2
  Burst = 3
  Limit = 7
  Trigger = 2
  NoPacket <- MCNoPacket
INVARIANTS PullerAwake PusherAwake
PROPERTIES FifoSpec Drained
CHECK_DEADLOCK FALSE
