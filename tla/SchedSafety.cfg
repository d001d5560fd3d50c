SPECIFICATION Spec
CONSTANTS
  Tasks = {idle, a, b, c}
  Idle = idle
  NoTask = none
  Killable = {idle, a, b, c}
  Seconds = {2}
  Millis = {4}
  HZ = 2
  MS = 4
  M = 16
SYMMETRY Symm
INVARIANTS TypeOK OneQueue NeverEarly
PROPERTY OthersUndisturbed
CHECK_DEADLOCK FALSE
