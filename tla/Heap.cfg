SPECIFICATION Spec
CONSTANTS
  Start = 8
  Size = 44
  HDR = 4
  PAGE = 16
  M = 128
  Sizes = {0, 1, 4, 7}
  PageSizes = {4, 16}
  Counts = {2}
INVARIANTS Tiled NoFreeNeighbours WholeWhenEmpty PayloadFits
PROPERTY LiveBlocksKept
CHECK_DEADLOCK FALSE
