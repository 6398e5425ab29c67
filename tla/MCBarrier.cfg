SPECIFICATION Spec
CONSTANTS
  Thread = {t1, t2, t3, t4}
  MaxCalls = 3
SYMMETRY Symmetry
CHECK_DEADLOCK FALSE
INVARIANTS
  CountersExact
  NoLostRelease
  InStep
PROPERTY
  KeepsPromise
