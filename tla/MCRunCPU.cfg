SPECIFICATION Spec
CONSTANTS
  Worker = {w1, w2, w3}
  MaxGrid = 4
CHECK_DEADLOCK FALSE
INVARIANTS
  ReturnMeansAllClean
  PanicMeansDiagnosed
PROPERTIES
  DrainIsPrompt
  ComesBack
