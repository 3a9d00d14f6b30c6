CONSTANTS
  w1 = w1
  r1 = r1
  Writers = {w1}
  Readers = {}
  BITS = 2
  SIZE = 4
  Messages <- PairAndOne
  MaxWrites = 2
  MaxReads = 0
  MaxToggles = 0
  Quiet = FALSE
  InitialLevels = {1}
SPECIFICATION SafetySpec
INVARIANT SentInOrder
