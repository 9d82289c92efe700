CONSTANTS
  src = src
  map1 = map1
  map2 = map2
  rcv = rcv
  evt = evt
  None = None
  Workers = {w1, w2}
  Gens = {src}
  Outs = {}
  Awa <- AwaPipelines
  Yields <- TwoYields
SPECIFICATION OneClientSpec
PROPERTY LeavesEmptyQueue
CHECK_DEADLOCK FALSE
