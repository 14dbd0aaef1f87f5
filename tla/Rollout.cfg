SPECIFICATION FairSpec
CONSTANTS
  EnvKeys <- MCEnvKeys
  UserPaths <- MCPaths
  PullSecrets <- MCSecrets
  Patches = {q1}
  Models <- MCModels
  FirstModel <- MCFirst
  PodNames = {p1, p2, p3, p4}
  Surge = 1
  MaxReplicas = 2
  MaxEvents = 3
INVARIANTS TypeOK PodsAreValid ServerFindsModel
PROPERTIES PlansKeepReadyPods PlansDoNotGrow UpToDateIsLeftAlone RolloutCompletes
CHECK_DEADLOCK FALSE
