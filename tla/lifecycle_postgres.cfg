SPECIFICATION Spec
CONSTANTS
  res1 = res1
  w1 = w1
  w2 = w2
  disp = disp
  chair = chair
  t1 = t1
  t2 = t2
  t3 = t3
  RequestIds <- OneId
  Residents = {res1}
  Workers = {w1, w2}
  Dispatchers = {disp}
  Chairmen = {chair}
  Tasks = {t1, t2}
  ReuseIds = FALSE
  MaxEvents = 4
  MaxRejects = 2
  NoRow = NoRow
  NoWorker = NoWorker
  Idle = Idle
CHECK_DEADLOCK FALSE
SYMMETRY Symmetry
INVARIANT WorkerGate
INVARIANT HolderMatchesStatus
PROPERTY ImplementsTicket
