SPECIFICATION Spec
CONSTANTS
  Slots = 3
  Parts = {p0, p1}
  M = 4
INVARIANTS ListedHeld StoppedHoldsNothing
PROPERTY StopsWhenRegistered
CHECK_DEADLOCK FALSE
