SPECIFICATION FairSpec
CONSTANTS
  a = a
  b = b
  None = None
  Archive = {a, b}
  Scopes <- Growing
  Pictured = {b}
  MaxAttempts = 2
  MaxSchedules = 3
  MaxRestarts = 1
  MaxFaults = 2
  MaxBirth = 3
INVARIANTS TypeOK ChainSound ExecutedOnce NothingLeftBehind
PROPERTIES PublishesCurrentScope Settles
CHECK_DEADLOCK FALSE
