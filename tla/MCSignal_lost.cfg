SPECIFICATION Spec
CONSTANTS
  Listeners = {a, b}
  States = {p}
  NoState = NoState
  PipeCap = 1
  MaxRaised = 1
SYMMETRY Symmetry
INVARIANT ReceivedSignalWakes
CHECK_DEADLOCK FALSE
