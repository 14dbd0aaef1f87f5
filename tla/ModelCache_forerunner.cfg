SPECIFICATION Spec
CONSTANTS
  MaxModels = 2
  MaxEvents = 1
INVARIANTS FilesAlwaysUpToDate LeavesNoFiles FilledOnItsPVC
CHECK_DEADLOCK FALSE
