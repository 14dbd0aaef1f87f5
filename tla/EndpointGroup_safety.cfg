SPECIFICATION Spec
CONSTANTS
  n1 = n1
  n2 = n2
  n3 = n3
  a1 = a1
  None = None
  NoAdapter = NoAdapter
  Calls = {c1, c2}
  Names = {n1, n2, n3}
  Adapters = {a1}
  Counters = {k1, k2, k3, k4}
  Requests <- MCRequests
  HashOf <- MCHashOf3
  MeanLoadPercentage = 125
SYMMETRY MCSymmetry
INVARIANTS TypeOK Conservation GrantIsCurrent RingMatchesEndpoints
PROPERTY ImplementsLeases
