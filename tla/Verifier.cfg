SPECIFICATION FairSpec
CONSTANTS
  A = A
  B = B
  f1 = f1
  f2 = f2
  f3 = f3
  NoOne = NoOne
  NoFile = NoFile
  Absent = Absent
  Whole = Whole
  Files = {f1, f2, f3}
  Invocations = {A, B}
PROPERTIES
  ImplementsVerdict
  VerificationEnds
