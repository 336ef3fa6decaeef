CONSTANTS
  Calls = {c1, c2}
  Ids = {i1, i2}
  None = None
SPECIFICATION Spec
CHECK_DEADLOCK FALSE
SYMMETRY Symmetry
INVARIANTS
  OneLiveRequestPerId
  LiveRequestKeepsItsId
  AnswersGoHome
  OwnersAreWaitedFor
PROPERTIES
  ImplementsOwnership
