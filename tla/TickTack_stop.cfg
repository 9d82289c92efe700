CONSTANTS
  MaxTime = 2
  MaxTimers = 1
  Intervals = {0, 1}
SPECIFICATION Spec
PROPERTY StopStops
CHECK_DEADLOCK FALSE
