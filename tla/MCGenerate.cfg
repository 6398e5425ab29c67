SPECIFICATION Spec
CONSTANTS
  Kernel <- TwoKernels
  v1 = v1
  v2 = v2
  Version = {v1, v2}
  Arch <- Compute
  MaxCrashes = 1
SYMMETRY Alike
INVARIANTS
  ExitTellsTheTree
PROPERTIES
  NoPTXDestroysNothing
