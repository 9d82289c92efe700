CONSTANTS
  src = src
  map1 = map1
  map2 = map2
  rcv = rcv
  evt = evt
  None = None
  Workers = {w1, w2}
  Gens = {src, map1, map2, rcv}
  Outs = {evt}
  Awa <- AwaPipelines
  Yields <- TwoYields
SPECIFICATION Spec
INVARIANTS TypeOK SingleOwner ParkedAwaits
PROPERTIES ImplementsStreams
CHECK_DEADLOCK FALSE
