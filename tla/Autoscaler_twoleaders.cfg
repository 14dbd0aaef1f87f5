SPECIFICATION Spec
CONSTANTS
  i1 = i1
  i2 = i2
  r1 = r1
  r2 = r2
  None = None
  Instances = {i1, i2}
  Requests = {r1}
  Via <- MCViaTwo
  AdapterRequests = {}
  Interval = 1
  TimeWindow = 1
  ScaleDownDelay = 2
  Target = 1
  MinReplicas = 0
  MaxReplicas = 2
  Unit = 1
  MaxRestarts = 0
  MaxHandovers = 1
  MaxToggles = 0
  MaxEvents = 9
PROPERTY AlwaysDelayed
