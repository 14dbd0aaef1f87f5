SPECIFICATION Spec
CONSTANTS
  EnvKeys <- MCEnvKeys
  UserPaths <- MCPaths
  PullSecrets <- MCSecrets
  Patches = {q1}
  Models <- MCModels
  FirstModel <- MCFirst
  PodNames = {p1, p2, p3, p4, p5}
  Surge = 1
  MaxReplicas = 3
  MaxEvents = 3
PROPERTY PlansStayInSurge
CHECK_DEADLOCK FALSE
