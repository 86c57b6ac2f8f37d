SPECIFICATION MCSpec
CONSTANTS
  NumPlayers = 2
  MaxChests = 2
  Places <- MCPlaces
  Kinds <- MCKinds
  Key = "key"
  StackMax = 2
  Spots <- MCSpots
  EntityMax = 2
  NumItems = 2
  ReservedSlots = 1
  ReservationTicks = 2
  Patience = 0
  AgeMax = 1
  DropMax = 2
  Pillars <- MCPillars
  Strength = 2
  Countdown = 2
  Fallen = Fallen
INVARIANTS MapIsTrue
CHECK_DEADLOCK FALSE
