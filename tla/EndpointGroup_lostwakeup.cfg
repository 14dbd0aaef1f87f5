SPECIFICATION FairSpec
CONSTANTS
  n1 = n1
  n2 = n2
  n3 = n3
  a1 = a1
  None = None
  NoAdapter = NoAdapter
  Calls = {c1}
  Names = {n1}
  Adapters = {}
  Counters = {k1, k2}
  Requests <- MCLeastLoad
  HashOf <- MCHashOf1
  MeanLoadPercentage = 125
PROPERTY BlocksOnlyWithoutEndpoints
