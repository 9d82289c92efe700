CONSTANTS
  MaxBytes = 4
  MaxReads = 2
  Chunks = {1, 2}
  Requests = {0, 1, 2}
SPECIFICATION Spec
INVARIANT NothingLost
CHECK_DEADLOCK FALSE
