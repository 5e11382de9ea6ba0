SPECIFICATION FairSpec
CONSTANTS
  Peers = {p1, p2}
  Workers = {w1, w2}
  Stoppers = {s1, s2}
  PoolUp = TRUE
  MaxEnqueues = 4
  MaxStarts = 2
INVARIANTS DispatchOrder StopIsFinal
PROPERTIES ImplementsDispatcher AcceptedIsHandedOver
