SPECIFICATION Spec
CHECK_DEADLOCK FALSE
CONSTANTS
  MaxBytes = 2
  BufferSize = 2
  None = None
PROPERTY ReadIsWritten
