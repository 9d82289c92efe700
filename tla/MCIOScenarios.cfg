CONSTANTS
  Scenarios = {"reader", "writer", "listener", "connection", "interrupt"}
  Kinds = {"regular", "socket", "accepted", "pipe"}
  MaxCancels = 1
  InSize = 3
  BufferSize = 2
  Capacity = 1
  Content <- MCContent
  Pattern <- MCPattern
  Requests <- MCRequests
  LastRequests <- MCLastRequests
  Sizes = {2}
  MaxCalls = 2
  MaxWritten = 2
  MaxFlushes = 2
  MaxConnections = 2
  MaxErrors = 1
  MaxOns = 2
  MaxSignals = 3
SPECIFICATION FairSpec
INVARIANTS TypeOK BytesAccounted RepliesAsAsked OutcomesAreTrue EodMeansWritten QuietBetweenOperations WioeWaits
PROPERTIES WioeReturns WaitsEnd
CHECK_DEADLOCK FALSE
