SPECIFICATION Spec
CONSTANTS
  w1 = w1
  w2 = w2
  d1 = d1
  d2 = d2
  Workers = {w1, w2}
  Dispatchers = {d1, d2}
  Day = 4
  Opening = 1
  SaturdayClosing = 2
  Closing = 3
  LastDay = 7
  DaySets <- MCDaySets
  Intervals <- MCIntervals
  ExceptionDays = {6}
  MaxEdits = 3
  None = None
SYMMETRY MCSymmetry
INVARIANTS
  PlannedIsTheWeek
  AddedUnlessCleared
  UrgentFallback
  DeferredToOpening
PROPERTIES
  OffDutyOnlyBy
CHECK_DEADLOCK FALSE
