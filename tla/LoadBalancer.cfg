SPECIFICATION Spec
CONSTANTS
  p1 = p1
  p2 = p2
  m1 = m1
  None = None
  Pods = {p1, p2}
  SelfPods = {s1}
  ModelOf <- MCModelOf
  Adapters = {a1}
  MaxRestarts = 1
  MaxRelabels = 1
  MaxFailures = 1
SYMMETRY MCSymmetry
INVARIANTS QuietMeansRouted QuietMeansReady QuietMeansScraped
