SPECIFICATION FairSpec
CONSTANTS
  s1 = s1
  j1 = j1
  kk = kk
  ru = ru
  Ids <- TwoIds
  Languages = {kk, ru}
  Screens = {s1}
  Jobs = {j1}
  Rank <- TwoOrders
  MaxTexts = 2
  MaxCalls = 2
  Databases = {TRUE, FALSE}
CHECK_DEADLOCK FALSE
INVARIANT OwnText
INVARIANT NothingLost
INVARIANT OneNeverFails
PROPERTY StoredStays
PROPERTY ScreenEnds
