CONSTANTS
  Calls = {c1, c2, c3}
  Ids = {i1}
  None = None
SPECIFICATION FairSpec
CHECK_DEADLOCK FALSE
PROPERTIES
  ReleasedOnlyWhenOver
  IdsComeBack
