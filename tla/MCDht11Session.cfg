CONSTANTS
  p1 = p1
  p2 = p2
  NONE = NONE
  Procs = {p1, p2}
  BYTE = 1
  MAX_RETRY = 3
  Widths = {43}
  MaxLows = 7
  MaxDone = 2
  MaxReads = 1
SPECIFICATION Spec
INVARIANTS SessionLock FirstWakeHasFrame
PROPERTIES QuietOutsideWait ImplementsSession OpenReturns
