SPECIFICATION Spec
CONSTANTS
  s1 = s1
  None = None
  Session = {s1}
  MaxTurns = 2
  MaxRuntimes = 2
  MaxCalls = 2
  MaxFaults = 1
INVARIANTS TypeOK StartupIsKept
PROPERTY StablePrefix
CHECK_DEADLOCK FALSE
