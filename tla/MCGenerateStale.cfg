SPECIFICATION Spec
CONSTANTS
  Kernel <- OneKernel
  v1 = v1
  v2 = v2
  Version = {v1, v2}
  Arch <- Compute
  MaxCrashes = 0
INVARIANTS
  NothingStaleIsServed
