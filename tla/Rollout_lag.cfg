SPECIFICATION Spec
CONSTANTS
  EnvKeys <- MCEnvKeys
  UserPaths <- MCPaths
  PullSecrets <- MCSecrets
  Patches = {q1}
  Models <- MCModels
  FirstModel <- MCFirst
  PodNames = {p1, p2, p3, p4, p5}
  Surge = 1
  MaxReplicas = 2
  MaxEvents = 3
PROPERTY StalePlansKeepReadyPods
CHECK_DEADLOCK FALSE
