SPECIFICATION FairSpec
CONSTANTS
  n1 = n1
  n2 = n2
  n3 = n3
  a1 = a1
  None = None
  NoAdapter = NoAdapter
  Calls = {c1}
  Names = {n1}
  Adapters = {a1}
  Counters = {k1, k2}
  Requests <- MCAdapterRequest
  HashOf <- MCHashOf1
  MeanLoadPercentage = 125
PROPERTY AdapterCallIsServed
