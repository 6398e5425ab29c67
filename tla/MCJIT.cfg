SPECIFICATION Spec
CONSTANTS
  Caller = {p1, p2}
  Ctx = {c1, c2}
  Nobody = nobody
  MaxMishaps = 1
SYMMETRY Alike
INVARIANTS
  LoadedOncePerContext
  MetadataIsThere
  NoDiskMeansNoFile
  RefusedFileSinksNothing
PROPERTIES
  LogIsKept
