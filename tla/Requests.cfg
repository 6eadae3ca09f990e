SPECIFICATION FairSpec
CONSTANTS
  MaxSessions = 1
  Homes <- OneOrBoth
  Controllers = {A, B}
  Helpers = {h1, h2}
  NoHelper = NoHelper
  A = A
  B = B
  h1 = h1
  h2 = h2
INVARIANTS
  RequestTypeOK
  MutualExclusion
  OverlapsBounded
PROPERTIES
  RequestEnds
  LockIsFreed
