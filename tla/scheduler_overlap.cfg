SPECIFICATION Spec
CONSTANTS
  r1 = r1
  r2 = r2
  e1 = e1
  e2 = e2
  d1 = d1
  Ids = {r1, r2}
  EscalationJobs = {e1, e2}
  DispatchJobs = {}
  Escalation = 1
  SingleWriter = FALSE
  MaxNow = 2
  MaxRollbacks = 1
  DispatchTimes = {1}
  NoRow = NoRow
  Gone = Gone
  None = None
CHECK_DEADLOCK FALSE
SYMMETRY Symmetry
INVARIANT PagedWhileWaiting
INVARIANT RepeatsOnlyAfterRollback
PROPERTY EveryTicket
