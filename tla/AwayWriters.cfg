SPECIFICATION Spec
CONSTANTS
  A = A
  B = B
  r1 = r1
  r2 = r2
  NoRun = NoRun
  Controllers = {A, B}
  RunIds = {r1, r2}
  NumCards = 2
  Checkouts <- OnlyClean
  AtFirst <- Clean
  Offered <- OneText
  Untracked = "all"
  MaxTroubles = 0
  MaxTogether = 2
  StopAt <- Anywhere
INVARIANTS
  Readable
