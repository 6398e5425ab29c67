SPECIFICATION Spec
CONSTANTS
  Lower <- MCLower
  Execute <- MCExecute
  Themes <- MCThemes
  NarrowBits = 3
  DeviceBits = 5
  WideBits = 7
  IntMax = 15
  LongMax = 63
  MaxInt32 = 15
  Width <- MCWidth
  GoAlign <- MCAlign
  Fuel = 12
CHECK_DEADLOCK FALSE
INVARIANTS
  SameMeaning
  ChecksCatch
  BarriersMeet
  PointersKeepTheirPromise
  TileFits
  BlameIsFair
  LayoutsAgree
  Compiles
