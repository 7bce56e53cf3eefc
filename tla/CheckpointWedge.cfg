SPECIFICATION FairSpec
CONSTANTS
  a = a
  b = b
  None = None
  Archive = {a}
  Scopes <- OneBranch
  Pictured = {}
  MaxAttempts = 2
  MaxSchedules = 3
  MaxRestarts = 0
  MaxFaults = 0
  MaxBirth = 2
PROPERTY RetriesGoOn
CHECK_DEADLOCK FALSE
