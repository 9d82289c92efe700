CONSTANTS
  MaxTime = 2
  MaxTimers = 2
  Intervals = {0, 1}
SPECIFICATION FairSpec
INVARIANTS TypeOK OneOffOnce NeverEarly
PROPERTIES CancelIsLast QuietAfterShutdown EveryTimerCalled ShutdownReturns
CHECK_DEADLOCK FALSE
