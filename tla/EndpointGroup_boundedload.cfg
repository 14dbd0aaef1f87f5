SPECIFICATION Spec
CONSTANTS
  n1 = n1
  n2 = n2
  n3 = n3
  a1 = a1
  None = None
  NoAdapter = NoAdapter
  Calls = {c1, c2}
  Names = {n1, n2}
  Adapters = {}
  Counters = {k1, k2, k3, k4}
  Requests <- MCPrefixHash
  HashOf <- MCHashOf2
  MeanLoadPercentage = 125
PROPERTY BoundedLoad
