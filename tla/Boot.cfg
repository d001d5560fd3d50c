SPECIFICATION Spec
CONSTANTS
  FRAME_SIZE = 4
  Frames = 4
  M = 16
  Maps <- PCMaps
  KERNEL_PMA = 4
  KERNEL_SIZE = 4
  KERNEL_VMA = 8
  BigPage = 8
  KernelEnd = 5
  mbt = 1
  Base = 8
  Buses = 2
  Devs = 2
  Funcs = 3
  Machines <- PCMachines
  Driven <- NetworkCard
  PciValues = {2}
  MaxLost = 1
  Working = {{}, {1, 2}}
INVARIANTS EveryAccessMapped InterruptsReady HeldOnce ScanFindsAll
PROPERTIES ShellStarts WritesInPlace
CHECK_DEADLOCK FALSE
