CONSTANTS
  p1 = p1
  p2 = p2
  NONE = NONE
  Procs = {p1, p2}
  BYTE = 1
  MAX_RETRY = 2
  Widths = {26, 70}
  MaxFalls = 5
  Spaced = FALSE
SPECIFICATION SafetySpec
INVARIANT OneUser
