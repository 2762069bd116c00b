SPECIFICATION FairSpec
CONSTANTS
  Limit = 1
  Chunk = 1
  Slots = 1
  PipeSize = 1
  MaxOutput = 1
  Timeout = 2
  RetryDelay = 1
PROPERTIES ProbeReturns NothingLeftBehind
\* The probe is over when it has returned and its threads have ended.
CHECK_DEADLOCK FALSE
