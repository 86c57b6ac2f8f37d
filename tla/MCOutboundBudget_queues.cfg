CONSTANTS
  Connections = 2
  Budget = 2
  QueueDepth = 2
  WriteBatch = 2
  MaxFrame = 1
SPECIFICATION QueuesSpec
CHECK_DEADLOCK FALSE
INVARIANTS BudgetExact WithinBudget BacklogAbandoned
PROPERTIES GameReturns
