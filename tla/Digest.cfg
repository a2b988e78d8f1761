SPECIFICATION Spec
CONSTANTS
  l1 = l1
  l2 = l2
  w1 = w1
  w2 = w2
  Links = {l1, l2}
  Workers = {w1, w2}
  MaxAttempts = 5
  MaxSweeps = 2
  Disturbances = {"CRASH", "DATABASE", "SLOW", "CLOCK"}
  NoLink = NoLink
INVARIANTS
  TypeOK
  BooksTellTheRow
PROPERTIES
  VerdictIsFinal
  DigestsSettle
CHECK_DEADLOCK FALSE
