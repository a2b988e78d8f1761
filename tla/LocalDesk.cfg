SPECIFICATION Spec
CONSTANTS
  h1 = h1
  h2 = h2
  Requests <- MCRequests
  Handlers = {h1, h2}
  NoRequest = NoRequest
SYMMETRY MCSymmetry
INVARIANTS
  TypeOK
  ReceiptsMatchRows
  OneLivePilot
  PublishedWasApproved
PROPERTIES
  StatusTellsTheDesk
CHECK_DEADLOCK FALSE
