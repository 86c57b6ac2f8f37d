SPECIFICATION Spec
CONSTANTS
  NumPlayers = 2
  NumSections = 2
  SpawnBlock <- MCSpawnBlock
  Reach = 0
  MayOutgrow <- MCSpawnBlock
  EditMax = 2
  AskMax = 1
  MaxPending = 1
INVARIANTS FollowsWorld
PROPERTIES SentIsCurrent StreamsArrive
CHECK_DEADLOCK FALSE
