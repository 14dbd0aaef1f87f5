SPECIFICATION Spec
CONSTANTS
  i1 = i1
  i2 = i2
  r1 = r1
  r2 = r2
  None = None
  Instances = {i1}
  Requests = {r1}
  Via <- MCViaOne
  AdapterRequests = {}
  Interval = 1
  TimeWindow = 2
  Target = 1
  ScaleDownDelay = 2
  MinReplicas = 0
  MaxReplicas = 2
  Unit = 4
  MaxRestarts = 0
  MaxHandovers = 0
  MaxToggles = 2
  MaxEvents = 9
PROPERTY AlwaysDelayed
