CONSTANTS
  Keys = {k1, k2, k3}
  Intents = {i1, i2}
  Amounts = {a1, a2}
  DefaultTtl = 2
  MaxTtl = 3
  MaxEntries = 2
  Horizon = 4
  None = None
SPECIFICATION Spec
SYMMETRY Symmetry
INVARIANTS
  FetchFollowsChecks
  RecordsAreBounded
PROPERTY ChecksRunTheirCourse
