SPECIFICATION Spec
CONSTANTS
  Proc = {p1}
  p1 = p1
  a = a
  Session = {a}
  Hook = Hook
  Policies = {{}}
  Redacted = {}
  None = None
  WindowSize = 2
  Threshold = 2
  Heavy = {}
  MaxBytes = 3
  MaxRecords = 3
  MaxAged = 0
PROPERTY DrainHonest
CHECK_DEADLOCK FALSE
