CONSTANTS
  MaxBytes = 4
  MaxReads = 3
  Chunks = {1, 2}
  Requests = {0, 1, 2}
SPECIFICATION FairSpec
INVARIANTS TypeOK OnceInOrder ParkedIsTold
PROPERTY EndIsReported
CHECK_DEADLOCK FALSE
