SPECIFICATION Spec
CONSTANTS
  None = None
  Children = {c1, c2}
  Reapers = {r1, r2}
  Kinds = {"completion", "poll", "signal", "blocking", "windows"}
  Objects = {o1, o2}
  Fds = {f1, f2}
  Files = {d1, d2}
  Tokens = {k1, k2}
  Token0 = k1
  Jobs = {j1, j2}
  MaxPos = 3
  BUFFER_SIZE = 3
  MaxBytes = 4
  MaxChunk = 2
  MaxCopied = 2
  BufferSize = 2
INVARIANTS
  OneWaiter
  LostOnlyByCancelling
  RegistrationIsOwn
  DescriptorHasOneOwner
  NonblockingFitsMode
  TakenOnce
  ReadsInOrder
  ObjectIsSomewhere
  BytesAreKept
  NothingLost
PROPERTIES
  ExitedIsReaped
  EndsWhenClosed
CHECK_DEADLOCK FALSE
