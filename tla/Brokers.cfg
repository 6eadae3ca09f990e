SPECIFICATION Spec
CONSTANTS
  a = a
  b = b
  c = c
  P = P
  Q = Q
  None = None
  Callers = {a, b, c}
  Processes = {P, Q}
  ProcessOf <- MCProcessOf
  s1 = s1
  s2 = s2
  Seconds = {s1, s2}
  MaxListAttempts = 2
  MaxPulls = 2
INVARIANTS
  TypeOK
  RemoteIsCandidate
  ResultHolds
  NoConflictWithItself
  NobodyWaitsForNobody
SYMMETRY Symmetry
