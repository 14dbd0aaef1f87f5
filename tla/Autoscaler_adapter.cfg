SPECIFICATION FairSpec
CONSTANTS
  i1 = i1
  i2 = i2
  r1 = r1
  r2 = r2
  None = None
  Instances = {i1}
  Requests = {r1}
  Via <- MCViaOne
  AdapterRequests = {r1}
  Interval = 1
  TimeWindow = 2
  Target = 1
  ScaleDownDelay = 1
  MinReplicas = 0
  MaxReplicas = 2
  Unit = 8
  MaxRestarts = 0
  MaxHandovers = 0
  MaxToggles = 0
  MaxEvents = 9
PROPERTY HeldRequestIsServed
