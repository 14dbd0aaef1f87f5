SPECIFICATION Spec
CONSTANTS
  MaxModels = 1
  MaxEvents = 2
INVARIANT FilledOnItsPVC
CHECK_DEADLOCK FALSE
