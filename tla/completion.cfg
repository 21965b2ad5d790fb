SPECIFICATION FairSpec
CONSTANTS
  i1 = i1
  i2 = i2
  c1 = c1
  c2 = c2
  Assigned = {i1, i2}
  Comments = {c1, c2}
  Attempts = 2
  MaxErrors = 2
  MaxMoves = 2
  MaxSent = 3
  Nothing = Nothing
CHECK_DEADLOCK FALSE
INVARIANT AckIsStored
INVARIANT NotLost
PROPERTY CompletionFinal
PROPERTY AnswerEnds
