SPECIFICATION Spec
CHECK_DEADLOCK FALSE
CONSTANTS
  Children = {c1}
  Reapers = {r1}
  Kinds = {"poll"}
  None = None
INVARIANT WaitResolvesToStatus
