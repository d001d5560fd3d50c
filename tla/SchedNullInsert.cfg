SPECIFICATION Spec
CONSTANTS
  Tasks = {idle, a, b, c}
  Idle = idle
  NoTask = none
  Killable = {a}
  Seconds = {1, 2}
  Millis = {1}
  HZ = 2
  MS = 4
  M = 16
INVARIANT NoNullInsert
CHECK_DEADLOCK FALSE
