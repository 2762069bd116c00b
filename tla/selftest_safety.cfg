SPECIFICATION Spec
CONSTANTS
  Limit = 3
  Chunk = 2
  Slots = 1
  PipeSize = 2
  MaxOutput = 2
  Timeout = 2
  RetryDelay = 1
INVARIANTS TypeOK BudgetExact OutputComplete VerdictRight
\* The probe is over when it has returned and its threads have ended.
CHECK_DEADLOCK FALSE
