CONSTANTS
  src = src
  map1 = map1
  map2 = map2
  rcv = rcv
  evt = evt
  None = None
  Workers = {w1, w2}
  Gens = {rcv}
  Outs = {evt}
  Awa <- AwaPipelines
  Yields <- TwoYields
SPECIFICATION FairSpec
PROPERTY SubmittedYields
CHECK_DEADLOCK FALSE
