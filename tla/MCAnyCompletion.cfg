SPECIFICATION Spec
CHECK_DEADLOCK FALSE
CONSTANTS
  Slots = {o1, o2}
  Tasks = {t1, t2}
  None = None
  Tokens = {k1, k2}
  Fds = {f1}
  RingSizes = {1, 2}
  MaxFiles = 2
  MaxRequests = 2
SYMMETRY Symmetry
INVARIANTS
  TypeOK
  ResultIsOwn
  MemoryIsOwned
  PendingWillWake
  QueueIsAnnounced
  ActsOnOwnFile
