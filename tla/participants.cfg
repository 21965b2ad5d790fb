SPECIFICATION Spec
CONSTANTS
  t1 = t1
  t2 = t2
  o = o
  w = w
  r = r
  f1 = f1
  Tasks = {t1, t2}
  Accounts = {o, w, r}
  Owner = o
  Applicant = w
  Flats = {f1}
  MaxDecisions = 2
  None = None
SYMMETRY Symmetry
CHECK_DEADLOCK FALSE
INVARIANT TypeOK
INVARIANT OneTenant
INVARIANT RightPerson
PROPERTY OnlyApprovalsApprove
