\* All are violated by the initial states: tlc -continue reports them.
SPECIFICATION Spec
CONSTANTS
  EnvKeys <- MCEnvKeys
  UserPaths <- MCPaths
  PullSecrets <- MCSecrets
  Patches = {q1}
  Models <- MCModels
  FirstModel <- MCFirst
  PodNames = {p1, p2, p3, p4, p5}
  Surge = 1
  MaxReplicas = 2
  MaxEvents = 0
INVARIANTS DocumentedSourcesAreFound ProbeRunsScript FilesAreMounted
CHECK_DEADLOCK FALSE
