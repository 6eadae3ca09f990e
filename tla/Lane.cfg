SPECIFICATION Spec
CONSTANTS
  plan = plan
  todo = todo
  code = code
  x = x
  y = y
  None = None
  Prose = Prose
  Partial = Partial
  MaxCalls = 2
  MaxCandidates = 2
  Files = {plan, todo, code}
  Sentinels = {plan, todo}
  Contents = {x, y}
  Writes <- MCWrites
  Texts <- MCTexts
INVARIANTS
  TypeOK
  EvidenceIsTrue
  ReceiptIsTrue
  AllOrNothing
  LaneEndsWithCall
PROPERTY InvokeReturns
