SPECIFICATION Spec
CONSTANTS
  None = None
  Pods = {p1}
  Nested = {}
  Adapters = {a1}
  URLs = {u1, u2}
  MaxChanges = 2
  MaxFailures = 1
INVARIANTS LabelledIsLoaded ServedDespiteFailures
CHECK_DEADLOCK FALSE
