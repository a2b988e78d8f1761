SPECIFICATION Spec
CONSTANTS
  p1 = p1
  p2 = p2
  w1 = w1
  w2 = w2
  d1 = d1
  d2 = d2
  Permits = {p1, p2}
  Perplexity = {p2}
  SpendCap = 2
  Workers = {w1, w2}
  Desks = {d1, d2}
  Outcomes <- MCOutcomes
  Disturbances = {"CRASH", "DATABASE", "LOST_ACK", "REDEPLOY", "EXPIRY"}
  MaxCopies = 1
  MaxReviews = 2
  NoCost = NoCost
  NoPermit = NoPermit
  NoOutcome = NoOutcome
SYMMETRY MCSymmetry
INVARIANTS
  TypeOK
  OrderFollowsCycle
  ProgressIsCounted
  BooksMatchRuns
PROPERTIES
  PermitsArePaidCalls
  OrderKeepsItsLife
CHECK_DEADLOCK FALSE
