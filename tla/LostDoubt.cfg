SPECIFICATION FairSpec
CONSTANTS
  p1 = p1
  p2 = p2
  w1 = w1
  w2 = w2
  Modes = {"PILOT"}
  Points = {p1, p2}
  Center = p1
  MaxAttempts = 1
  Procs = {w1, w2}
  Dispatchers = {w1}
  Caps = {2}
  Replies <- MCReplies
  Disturbances = {}
  NoHolder = NoHolder
  NoAttempt = NoAttempt
  NoReply = NoReply
PROPERTIES
  CalledIsConcluded
CHECK_DEADLOCK FALSE
