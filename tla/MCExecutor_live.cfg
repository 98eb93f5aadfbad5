SPECIFICATION FairSpec
CONSTANTS
  Tasks = {t1, t2}
  Joinable = {}
  Root = Root
  NoOne = NoOne
  Remotes = {r1}
  BatchSize = 2
  InlineCap = 1
  StoreBuffering = FALSE
  MaxRemoteWakes = 2
INVARIANTS
  TypeOK
  NoSleepThroughWake
PROPERTY WokenIsPolled
CHECK_DEADLOCK FALSE
