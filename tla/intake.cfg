SPECIFICATION Spec
CONSTANTS
  t1 = t1
  t2 = t2
  Tasks = {t1, t2}
  Others = {"plumber"}
  Guesses = {"plumber", "security"}
  MaxTexts = 2
  MaxHasty = 1
  MaxRows = 2
  None = None
SYMMETRY Symmetry
CHECK_DEADLOCK FALSE
INVARIANT TypeOK
INVARIANT FormComplete
INVARIANT FiledOnce
INVARIANT CompletedNeverBlock
PROPERTY SameForm
