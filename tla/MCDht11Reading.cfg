CONSTANTS
  p1 = p1
  p2 = p2
  NONE = NONE
  Procs = {p1}
  BYTE = 1
  MAX_RETRY = 1
  Widths = {26, 70}
  MaxLows = 7
  MaxDone = 1
  MaxReads = 1
SPECIFICATION SafetySpec
INVARIANT MessageIsOwnReading
