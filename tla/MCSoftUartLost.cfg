CONSTANTS
  w1 = w1
  r1 = r1
  Writers = {w1}
  Readers = {r1}
  BITS = 2
  SIZE = 4
  Messages <- PairAndOne
  MaxWrites = 2
  MaxReads = 1
  MaxToggles = 0
  Quiet = TRUE
  InitialLevels = {1}
SPECIFICATION SafetySpec
INVARIANT NoDataLost
