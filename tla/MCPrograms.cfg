CONSTANTS
  BYTE = 2
  THRESHOLD = 1
  LIMIT = 3
  Frames <- SomeFrames
  MaxStalls = 2
  LENGTH = 5
  DELAY = 2
  SLOTS = 2
  MAX_STR_LEN = 2
  TTY = 2
  LEN = 3
  Errnos = {1, 2}
  UINT = 8
  CPUS = {1, 2}
  FirstTicks <- SomeTicks
  Intervals <- SomeIntervals
  Samples = 3
  c1 = c1
  c2 = c2
  Callers = {c1, c2}
  Pins = {0, 1, 2}
  TxPins = {0, 1}
  RxPins = {2}
  WORD = 3
  Rates = {1199, 4800}
  p1 = p1
  p2 = p2
  p3 = p3
  Openers = {p1, p2, p3}
  OldUsers = {p1, p2}
SPECIFICATION ProgramsSpec
INVARIANTS FrameDecoded SilenceIsNoReading IndexInBounds
INVARIANTS LossIsLateness LoadIsTrue
INVARIANTS TxPinDriven UnloadIsClean
INVARIANTS ExclusiveUnlessRaced SessionKeepsModule NothingLeftBehind RegistersMapped
PROPERTIES LoopIsChannel KeepsPrinting LabIsChannel
PROPERTIES SerialIsChannel SilenceIsNoticed
