SPECIFICATION FairSpec
CONSTANTS
  A = A
  B = B
  r1 = r1
  r2 = r2
  NoRun = NoRun
  Controllers = {A, B}
  RunIds = {r1, r2}
  NumCards = 2
  Checkouts <- Several
  AtFirst <- Clean
  Offered <- BothOffer
  Untracked = "all"
  MaxTroubles = 2
  MaxTogether = 2
  StopAt <- Anywhere
INVARIANTS
  TypeOK
  LedgerUsable
  OneRunPerCardId
  EffectsFollowIntents
  NoSecondPull
  CompletedHolds
PROPERTIES
  ReservesWhatIsThere
  ConvergesUnlessCut
