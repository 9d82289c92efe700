CONSTANTS
  m1 = m1
  m2 = m2
  src = src
  evt = evt
  agg = agg
  blocked = blocked
  None = None
  Workers = {w1, w2}
  Gens = {m1, m2, src, blocked}
  Outs = {evt, agg}
  Members = {m1, m2}
  Awa <- AwaMembers
  Yields <- TwoYields
SPECIFICATION ClientsSpec
INVARIANT BlawaitWaitsForAll
CHECK_DEADLOCK FALSE
