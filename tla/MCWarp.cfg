SPECIFICATION Spec
CONSTANTS
  Lane = {0, 1, 2}
  Calls <- TwoCalls
  MaxCalls = 2
  MaxTimers = 2
CHECK_DEADLOCK FALSE
INVARIANTS
  MaskExact
  PhasesApart
  SilenceMeansLockstep
PROPERTY
  SlotsStable
