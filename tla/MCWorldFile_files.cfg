CONSTANTS
  BackupsKept = 3
  MaxRollbacks = 1
  Failing = TRUE
  MaxVersion = 6
SPECIFICATION Spec
INVARIANTS WholeAndNewest RollbackReversible
PROPERTIES BackupsSurvive ImplementsDurableWorld
