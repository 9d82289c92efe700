CONSTANTS
  Values <- MCValues
  Nothing = Nothing
  Map <- MCMap
  Filter <- MCFilter
  Inner <- MCInner
  Ready <- MCReady
  Explosion <- MCExplosion
  Empty = 0
  Step <- MCStep
  Pipelines <- MCPipelines
  Sources <- MCSources
  MaxOperations = 3
  MaxItems = 3
  MaxSize = 6
SPECIFICATION FairSpec
INVARIANTS YieldsWhatIsPromised NothingOnlyEnds NeverResumedWhenDone Lazy
PROPERTIES EveryDemandIsMet
CHECK_DEADLOCK FALSE
