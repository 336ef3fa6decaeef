CONSTANTS
  None = None
  Jobs = {j1, j2}
  Cancels = {x1, x2}
SPECIFICATION TalkingSpec
INVARIANTS
  OutcomesAgree
  FinishedJobsAreFinal
PROPERTIES
  OutcomesAreSettled
  JobsLeave
