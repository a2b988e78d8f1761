SPECIFICATION Spec
CONSTANTS
  p1 = p1
  p2 = p2
  w1 = w1
  w2 = w2
  Modes = {"PILOT"}
  Points = {p1, p2}
  Center = p1
  MaxAttempts = 2
  Procs = {w1, w2}
  Dispatchers = {w1}
  Caps = {2, 3}
  Replies <- MCReplies
  Disturbances = {"DATABASE", "REDEPLOY", "WINDOW"}
  NoHolder = NoHolder
  NoAttempt = NoAttempt
  NoReply = NoReply
SYMMETRY MCPoints
INVARIANTS
  SpendWithinCap
  PendingMeansLive
  AttemptsInSequence
  QuietWhenClosed
  BooksAgree
  VerdictIsSettled
  UnknownIsHeld
  EvidenceIsPaidFor
  IncidentBlocks
PROPERTIES
  OutcomesAreFinal
  StopIsFinal
CHECK_DEADLOCK FALSE
