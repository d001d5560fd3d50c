SPECIFICATION Spec
CONSTANTS
  Objects = {o1, o2, o3}
  Null = null
  MayFail = {"net_dev", "rx_buf"}
  Shared = FALSE
  A = 8
  B = 4
  Pad = 8
  W = 64
  Byte = 8
  Gap = 4
  PktSizes = {2, 5}
INVARIANTS IsrMemoryHeld DmaTargetHeld CleanWhenStopped  HeadersInBuffer
