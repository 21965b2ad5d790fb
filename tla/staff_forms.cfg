SPECIFICATION Spec
CONSTANTS
  s1 = s1
  r1 = r1
  r2 = r2
  k1 = k1
  k2 = k2
  t1 = t1
  t2 = t2
  None = None
  Staff = {s1}
  Chairmen = {s1}
  AdminIds = {}
  Requests = {r1, r2}
  Texts = {t1, t2}
  Ids = {"7"}
  Tasks = {k1, k2}
  MaxUpdates = 5
  MaxHasty = 4
  MaxFailures = 1
CHECK_DEADLOCK FALSE
SYMMETRY Alike
INVARIANT HeardOnce
INVARIANT SuggestionWasShown
INVARIANT CommentForItsRequest
INVARIANT OneVerdict
INVARIANT CategoryHasId
