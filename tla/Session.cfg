SPECIFICATION Spec
CONSTANTS
  ChunkBudget = 1
  RawTailBudget = 1
  Drafts <- Messages
  MaxEntries = 4
  MaxMoves = 1
  MaxFaults = 1
  Capacities = {0, 4, 9}
  KeepRecentTurns = 1
  None = None
INVARIANTS TypeOK AckCoversAccepted PlanIsStable ScopeOnBranch NothingForgotten NoCheckpointMissed
CHECK_DEADLOCK FALSE
