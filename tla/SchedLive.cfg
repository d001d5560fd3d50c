SPECIFICATION FairSpec
CONSTANTS
  Tasks = {idle, a, b, c}
  Idle = idle
  NoTask = none
  Killable = {a}
  Seconds = {1, 2}
  Millis = {}
  HZ = 1
  MS = 4
  M = 4
CONSTRAINT Whole
INVARIANT ReadyNeverEmpty
PROPERTIES FreedStackNotInUse ReadyRuns SleeperWakes
CHECK_DEADLOCK FALSE
