SPECIFICATION Spec
CONSTANTS
  None = None
  NUM_LEVELS = 2
  SLOTS_PER_LEVEL = 2
  Keys = {0, 1}
  LEVELS = 3
  SLOTS = 4
  MaxTick = 18
  MaxTimers = 2
  MaxGeneration = 3
  Sleeps = {s1, s2}
  Yielding = {s1, s2}
  Res = 2
  MaxClock = 4
  Durations = {1, 3}
  Periods = {0, 2, 3}
  MaxNow = 10
  MaxTicks = 6
  Listeners = {a, b}
  States = {p, q}
  NoState = NoState
  PipeCap = 1
  MaxRaised = 2
SYMMETRY Symmetry
INVARIANTS
  PendingSleepHasTimer
  EarlyByLessThanATick
  WheelNeverAhead
  FiledWhereRecorded
  HoldsWhatIsDue
  NeverEarly
  MinimumIsExact
  LateByLessThanATurn
  KeepsCadence
  RegistryCountsListeners
  WaiterIsListed
  NoInventedSignal
CHECK_DEADLOCK FALSE
