SPECIFICATION Spec
CONSTANTS
  r1 = r1
  r2 = r2
  c1 = c1
  c2 = c2
  b1 = b1
  k1 = k1
  k2 = k2
  k3 = k3
  p1 = p1
  bad = bad
  Runs = {r1, r2}
  Cards = {c1, c2}
  Bases = {b1}
  Keys = {k1, k2, k3}
  Payloads = {p1, bad}
  Valid = {p1}
  FrameLen = 3
  MaxSegmentBytes = 6
  MaxLedgerBytes = 12
  MaxSegments = 3
  Worlds = {"both"}
SYMMETRY Symmetry
INVARIANT Reopens
