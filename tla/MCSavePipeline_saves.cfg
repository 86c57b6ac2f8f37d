CONSTANTS
  MaxSection = 1
  DrainPerTick = 1
  DrainDeadline = 2
  Alarm = 2
  FailuresMax = 2
  Autosaves = TRUE
  RollsBack = TRUE
  MaxQueued = 2
  None = None
  Restored = Restored
CHECK_DEADLOCK FALSE
SPECIFICATION Spec
INVARIANTS OneSaveAtATime FiredIsLive FinalSaveIsNewest
PROPERTIES RollbackIsLast ArmedFires
