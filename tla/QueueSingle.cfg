SPECIFICATION Spec
CONSTANTS
  Proc = {p1}
  p1 = p1
  a = a
  Session = {a}
  Hook = Hook
  Policies = {{}}
  Redacted = {}
  None = None
  WindowSize = 2
  Threshold = 1
  Heavy = {Hook}
  MaxBytes = 4
  MaxRecords = 3
  MaxAged = 0
INVARIANT OwnOrder
PROPERTIES ImplementsDurableQueue DrainCovers BarriersHold DisposedStaysQuiet
CHECK_DEADLOCK FALSE
