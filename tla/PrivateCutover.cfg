CONSTANTS
  Releases = {v1, v2}
  Rests = {others, none}
  NoRest = none
  None = None
  Torn = Torn
  MaxFaults = 3
SPECIFICATION FairSpec
CHECK_DEADLOCK FALSE
INVARIANT ServiceIsRecoverable
PROPERTIES
  ImplementsAtomicCutover
  NeighboursStay
  JournalIsResolved
