SPECIFICATION Spec
CONSTANTS
  Thread = {1, 2, 3}
  Warp = {0, 1}
  WarpOf <- TwoWarps
  Calls <- MCCalls
  DynSized = TRUE
  May <- MCMay
  MaxEarly = 1
CHECK_DEADLOCK FALSE
INVARIANTS
  NoFalseAlarm
  NoMissedAlarm
  PartOnlyGivesUpEarly
PROPERTIES
  Terminates
