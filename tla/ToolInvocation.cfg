CONSTANTS
  Tools = {t1}
  RequestIds = {q1, q2}
  WidgetSessions = {w1, w2}
  MaxRecords = 2
  None = None
SPECIFICATION Spec
SYMMETRY Symmetry
INVARIANTS
  TypeOK
  OutputsBelong
  OneUnboundOutput
  WaitsHaveADeadline
PROPERTY OutcomesStay

