SPECIFICATION Spec
CONSTANTS
  Callers = {task}
  Start = 8
  Size = 32
  HDR = 4
  PAGE = 16
  M = 128
  Sizes = {0, 4, 7}
PROPERTY ImplementsHeap
