SPECIFICATION Spec
CHECK_DEADLOCK FALSE
CONSTANTS
  Periods = {0, 2, 3}
  MaxNow = 10
  MaxTicks = 6
  None = None
INVARIANT CatchesUp
