SPECIFICATION Spec
CONSTANTS
  Tasks = {idle, a}
  Idle = idle
  Values = {"x", "y"}
  Vectors = {0, 1, 2, 3, 4, 5, 6, 7, 8, 10, 11, 12, 13, 14, 16, 17, 18, 19, 20, 30, 32, 33}
  MaxNest = 2
CHECK_DEADLOCK FALSE
INVARIANT ReportsFault
PROPERTY ResumesWhereLeft
