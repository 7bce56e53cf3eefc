SPECIFICATION Spec
CONSTANTS
  Proc = {p1, p2, p3}
  p1 = p1
  p2 = p2
  p3 = p3
  a = a
  Session = {a}
  Hook = Hook
  Policies = {{}}
  Redacted = {}
  None = None
  WindowSize = 1
  Threshold = 2
  Heavy = {}
  MaxBytes = 2
  MaxRecords = 1
  MaxAged = 0
SYMMETRY Symmetry
INVARIANT OneConsumer
CHECK_DEADLOCK FALSE
