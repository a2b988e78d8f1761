SPECIFICATION Spec
CONSTANTS
  p1 = p1
  p2 = p2
  w1 = w1
  w2 = w2
  Modes = {"CANARY", "PILOT"}
  Points = {p1}
  Center = p1
  MaxAttempts = 2
  Procs = {w1, w2}
  Dispatchers = {w1, w2}
  Caps = {2}
  Replies <- MCEndings
  Disturbances = {"CRASH", "DATABASE", "QUEUE", "SLOW", "LATE"}
  NoHolder = NoHolder
  NoAttempt = NoAttempt
  NoReply = NoReply
INVARIANTS
  JobOwnsAttempt
PROPERTIES
  AttemptsArePaidCalls
CHECK_DEADLOCK FALSE
