SPECIFICATION Spec
CONSTANTS
  MaxModels = 1
  MaxEvents = 1
INVARIANT AlwaysFilled
CHECK_DEADLOCK FALSE
