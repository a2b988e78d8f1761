SPECIFICATION Spec
CONSTANTS
  c1 = c1
  c2 = c2
  k1 = k1
  k2 = k2
  k3 = k3
  Clients = {c1, c2}
  Keys = {k1, k2, k3}
  Estimate <- MCEstimate
  MaxActual = 2
  Caps = {1, 2}
  NoBudget = NoBudget
  NoClient = NoClient
  NoKey = NoKey
SYMMETRY MCSymmetry
INVARIANTS
  SpendBounded
  GrantsFitTheCap
  KeyClaimedOnce
PROPERTIES
  BooksAreFinal
