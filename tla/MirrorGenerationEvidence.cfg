SPECIFICATION Spec
CONSTANTS
  Proc = {p1, p2}
  Source = {s1}
  Digest = {d1}
  MaxBirth = 2
  MaxCommits = 0
  None = None
SYMMETRY ProcSymmetry
INVARIANTS AckSameGeneration
CHECK_DEADLOCK FALSE
