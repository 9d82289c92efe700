CONSTANTS
  Scenarios = {"reader"}
  Kinds = {"regular"}
  MaxCancels = 0
  InSize = 3
  BufferSize = 2
  Capacity = 1
  Content <- MCContent
  Pattern <- MCPattern
  Requests <- MCRequests
  LastRequests <- MCLastRequests
  Sizes = {2}
  MaxCalls = 2
  MaxWritten = 2
  MaxFlushes = 2
  MaxConnections = 2
  MaxErrors = 1
  MaxOns = 2
  MaxSignals = 3
SPECIFICATION Spec
INVARIANTS RegularSucceeds
CHECK_DEADLOCK FALSE
