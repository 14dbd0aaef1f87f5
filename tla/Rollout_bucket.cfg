SPECIFICATION FairSpec
CONSTANTS
  EnvKeys <- MCEnvKeys
  UserPaths <- MCPaths
  PullSecrets <- MCSecrets
  Patches = {q1}
  Models <- MCBuckets
  FirstModel <- MCBucket
  PodNames = {p1, p2, p3, p4, p5}
  Surge = 1
  MaxReplicas = 2
  MaxEvents = 3
PROPERTY RolloutCompletes
CHECK_DEADLOCK FALSE
