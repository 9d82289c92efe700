CONSTANTS
  Values <- MCValues
  Nothing = Nothing
  Map <- MCMap
  Filter <- MCFilter
  Inner <- MCInner
  Ready <- MCReady
  Explosion <- MCExplosion
  Empty = 0
  Step <- MCStep
  Pipelines <- MCPipelines
  Sources <- MCTwoItems
  MaxOperations = 1
  MaxItems = 3
  MaxSize = 5
SPECIFICATION IteratingSpec
INVARIANT YieldsWhatIsPromised
CHECK_DEADLOCK FALSE
