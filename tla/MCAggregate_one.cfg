CONSTANTS
  m1 = m1
  m2 = m2
  src = src
  evt = evt
  agg = agg
  blocked = blocked
  None = None
  Workers = {w1}
  Gens = {m1, m2, src, blocked}
  Outs = {evt, agg}
  Members = {m1, m2}
  Awa <- AwaMembers
  Yields <- TwoYields
SPECIFICATION FairClientsSpec
INVARIANTS NoLostAwaiter BlawaitWaitsForAll
PROPERTIES SubmittedYields WleReturns BlawaitReturns
CHECK_DEADLOCK FALSE
