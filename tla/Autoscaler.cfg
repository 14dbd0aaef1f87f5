SPECIFICATION FairSpec
CONSTANTS
  i1 = i1
  i2 = i2
  r1 = r1
  r2 = r2
  None = None
  Instances = {i1, i2}
  Requests = {r1}
  Via <- MCViaTwo
  AdapterRequests = {}
  Interval = 2
  TimeWindow = 3
  ScaleDownDelay = 3
  Target = 1
  MinReplicas = 0
  MaxReplicas = 1
  Unit = 4
  MaxRestarts = 1
  MaxHandovers = 1
  MaxToggles = 1
  MaxEvents = 1
PROPERTIES HeldRequestIsServed DelayedScaleDown
