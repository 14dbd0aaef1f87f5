SPECIFICATION FairSpec
CONSTANTS
  MaxModels = 1
  MaxEvents = 1
PROPERTY DeletedModelsGo
CHECK_DEADLOCK FALSE
