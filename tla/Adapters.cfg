SPECIFICATION FairSpec
CONSTANTS
  None = None
  Pods = {p1, p2}
  Nested = {p1}
  Adapters = {a1, a2}
  URLs = {u1, u2}
  MaxChanges = 3
  MaxFailures = 2
INVARIANTS QuietMeansLabelled QuietMeansServed QuietMeansClean
PROPERTY AdaptersConverge
CHECK_DEADLOCK FALSE
