CONSTANTS
  Private = {a1}
  Public = {b1}
  Recoverers = {r1, r2}
  None = None
  Overlap = TRUE
SPECIFICATION Spec
CHECK_DEADLOCK FALSE
SYMMETRY Symmetry
INVARIANT MutualExclusion
