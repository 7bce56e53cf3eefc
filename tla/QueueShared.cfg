SPECIFICATION FairSpec
CONSTANTS
  Proc = {p1, p2}
  p1 = p1
  p2 = p2
  Session = {}
  Hook = Hook
  Policies = {{}, {Hook}}
  Redacted = {Hook}
  None = None
  WindowSize = 1
  Threshold = 1
  Heavy = {}
  MaxBytes = 1
  MaxRecords = 1
  MaxAged = 1
INVARIANTS TypeOK OneConsumer
PROPERTIES ImplementsDurableQueue Drains
CHECK_DEADLOCK FALSE
