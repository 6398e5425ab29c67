SPECIFICATION StreamSpec
CONSTANTS
  Goroutine = {g1, g2}
  Waiters = {g1}
  MaxWork = 3
INVARIANTS
  ClosedMeansDestroyed
PROPERTIES
  CloseSeesTheTruth
  EveryCallReturns
