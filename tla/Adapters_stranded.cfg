SPECIFICATION FairSpec
CONSTANTS
  None = None
  Pods = {p1}
  Nested = {}
  Adapters = {a1}
  URLs = {u1}
  MaxChanges = 2
  MaxFailures = 1
PROPERTY AlwaysConverge
CHECK_DEADLOCK FALSE
