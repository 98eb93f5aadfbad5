SPECIFICATION Spec
CONSTANTS
  Handles = {h1}
  Uses <- BothDirections
  Tasks = {t1, t2}
  None = None
  Gone = Gone
  Tokens = {k1}
  MaxPolls = 3
PROPERTY
  ReadyWaiterIsWoken
