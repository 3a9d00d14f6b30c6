CONSTANTS
  LEN = 3
  Errnos = {1, 2}
SPECIFICATION UuSpec
INVARIANT FailureIsReported
