SPECIFICATION Spec
CONSTANTS
  Goroutine = {g1, g2}
  Ctx = {c1, c2}
  Nobody = nobody
  Key = {k}
  MaxModules = 2
CHECK_DEADLOCK FALSE
INVARIANTS
  NothingOutlivesItsContext
  NoStaleHandle
  CacheServesLoadedModules
  HoldersMoveOn
