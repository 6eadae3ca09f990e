SPECIFICATION FairSpec
CONSTANTS
  A = A
  B = B
  r1 = r1
  r2 = r2
  NoRun = NoRun
  Controllers = {A}
  RunIds = {r1, r2}
  NumCards = 2
  Checkouts <- OnlyClean
  AtFirst <- Clean
  Offered <- OneText
  Untracked = "normal"
  MaxTroubles = 0
  MaxTogether = 2
  StopAt <- Anywhere
PROPERTIES
  Converges
