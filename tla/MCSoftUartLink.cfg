CONSTANTS
  w1 = w1
  r1 = r1
  Writers = {w1}
  Readers = {r1}
  BITS = 3
  SIZE = 2
  Messages <- PairAndOne
  MaxWrites = 3
  MaxReads = 2
  MaxToggles = 2
  Quiet = TRUE
  InitialLevels = {1}
SPECIFICATION Spec
INVARIANTS ReceivedAsWritten ReadsInOrder
PROPERTIES AllReceived
