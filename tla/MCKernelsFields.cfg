SPECIFICATION Spec
CONSTANTS
  Lower <- MCLower
  Execute <- MCExecute
  Themes <- MCBelow
  NarrowBits = 3
  DeviceBits = 5
  WideBits = 7
  IntMax = 15
  LongMax = 63
  MaxInt32 = 15
  Width <- MCWidth
  GoAlign <- MCAlign
  Fuel = 12
CHECK_DEADLOCK FALSE
INVARIANT SameMeaning
