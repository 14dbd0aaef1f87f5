SPECIFICATION FairSpec
CONSTANTS
  MaxModels = 2
  MaxEvents = 2
INVARIANTS PodsHaveTheirCache FilesUpToDate
PROPERTIES EvictedBeforeGone Settles
CHECK_DEADLOCK FALSE
