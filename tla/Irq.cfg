SPECIFICATION FairSpec
CONSTANTS
  Lines = {0, 7, 11, 15}
  Ids = {pit, rtl}
  Glitches = {0, 7, 11, 15}
INVARIANTS StuckOnlyBy15 NoUncaught MaskFollowsHandlers
PROPERTY TimerServed
