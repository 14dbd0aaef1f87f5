SPECIFICATION FairSpec
CONSTANTS
  r1 = r1
  r2 = r2
  a1 = a1
  NoAdapter = NoAdapter
  None = None
  Requests = {r1, r2}
  Adapter <- MCAdapter
  MaxRetries = 1
  Names = {n1}
  Adapters = {a1}
  Counters = {k1, k2}
INVARIANTS NothingLeaks OneAnswer RetriesAreUsed
PROPERTY HandlerReturns
