SPECIFICATION Spec
CONSTANTS
  r1 = r1
  r2 = r2
  w1 = w1
  Requests = {r1, r2}
  Workers = {w1}
  Unnamed = {w1}
  Extreme <- MCExtreme
  Urgencies <- MCUrgencies
  Offered <- MCOffered
  LastDay = 2
  Week = 2
  ThirtyDays = 3
  Month = 2
  Year = 2
  BucketDays = 2
  MaxSpan = 1
  MaxChanges = 3
  MaxTaps = 1
  None = None
SYMMETRY MCSymmetry
INVARIANTS
  ReportAddsUp
  FailsForThreeReasons
PROPERTIES
  FiltersKept
CHECK_DEADLOCK FALSE
