SPECIFICATION Spec
CONSTANTS
  Tasks = {idle, a, b}
  Idle = idle
  NoTask = none
  Killable = {}
  Seconds = {}
  Millis = {}
  HZ = 2
  MS = 4
  M = 16
INVARIANT NeverEmpty
CHECK_DEADLOCK FALSE
