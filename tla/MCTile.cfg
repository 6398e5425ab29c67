SPECIFICATION Spec
CONSTANTS
  Junk = 100019
  BlockSize = 2
  MaxTaps = 2
  Signals <- TwoAndAnEmptyOne
  Filters <- SomeFilters
  Factor = 3
  MaxTensors = 4
CHECK_DEADLOCK FALSE
INVARIANTS
  SameNumbers
  BuffersComeHome
