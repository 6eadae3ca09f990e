SPECIFICATION FairSpec
CONSTANTS
  A = A
  B = B
  NoOne = NoOne
  Controllers = {A, B}
  MaxStops = 2
INVARIANTS
  TypeOK
  PublishedIsVerified
  CompletionHolds
  SelectionFirst
  OneSubject
  IdleLeavesNothing
PROPERTY FinishesUnlessStuck
