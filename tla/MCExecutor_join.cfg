SPECIFICATION Spec
CONSTANTS
  Tasks = {t1, t2}
  Joinable = {t1, t2}
  Root = Root
  NoOne = NoOne
  Remotes = {r1}
  BatchSize = 2
  InlineCap = 1
  StoreBuffering = TRUE
  MaxRemoteWakes = 1
SYMMETRY Symmetry
INVARIANTS
  QueuedFlagIsExact
  NoLostWake
PROPERTIES
  JoinerIsWoken
  CanceledNotResumed
CHECK_DEADLOCK FALSE
