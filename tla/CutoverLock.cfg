CONSTANTS
  Private = {a1, a2}
  Public = {b1}
  Recoverers = {r1, r2}
  None = None
  Overlap = FALSE
SPECIFICATION Spec
CHECK_DEADLOCK FALSE
SYMMETRY Symmetry
INVARIANTS
  MutualExclusion
  ReleaseFindsItsLock
PROPERTIES
  ImplementsClaim
  CaptureIsACas
