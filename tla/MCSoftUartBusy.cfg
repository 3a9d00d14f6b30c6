CONSTANTS
  w1 = w1
  r1 = r1
  Writers = {w1}
  Readers = {}
  BITS = 3
  SIZE = 2
  Messages <- PairAndOne
  MaxWrites = 2
  MaxReads = 0
  MaxToggles = 0
  Quiet = FALSE
  InitialLevels = {0, 1}
SPECIFICATION Spec
INVARIANTS StoresInside NothingDropped LineIdlesHigh
PROPERTIES Drains
