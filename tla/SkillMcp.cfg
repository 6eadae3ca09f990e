SPECIFICATION FairSpec
CONSTANTS
  s1 = s1
  s2 = s2
  m1 = m1
  NoKey = NoKey
  NumCalls = 3
  Keys <- OneAndOne
  Asks <- FirstFixed
  Filtered = TRUE
INVARIANT RunningIsKnown
PROPERTY CallsReturn
