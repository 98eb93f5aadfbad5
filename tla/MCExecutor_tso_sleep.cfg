SPECIFICATION Spec
CONSTANTS
  Tasks = {t1, t2}
  Joinable = {}
  Root = Root
  NoOne = NoOne
  Remotes = {r1}
  BatchSize = 2
  InlineCap = 1
  StoreBuffering = TRUE
  MaxRemoteWakes = 1
INVARIANT NoSleepThroughWake
CHECK_DEADLOCK FALSE
