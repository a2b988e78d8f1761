SPECIFICATION Spec
CONSTANTS
  r1 = r1
  r2 = r2
  s1 = s1
  s2 = s2
  Requests = {r1, r2}
  Project <- MCProject
  Submissions = {s1, s2}
  MaxPerDay = 2
  MaxPerProjectPerDay = 1
  MaxDays = 2
  Disturbances = {"CRASH", "DATABASE", "FLAG"}
  NoRequest = NoRequest
SYMMETRY MCSymmetry
INVARIANTS
  TypeOK
  OneDispatcher
  FreeOrdersHoldSlots
  InboxTellsTruth
CHECK_DEADLOCK FALSE
