SPECIFICATION Spec
CONSTANTS
  A = A
  B = B
  NoOne = NoOne
  Controllers = {A}
  MaxStops = 0
INVARIANT AuthorizedCreate
