SPECIFICATION Spec
CONSTANTS
  Proc = {p1, p2}
  Source = {s1}
  Digest = {d1, d2}
  MaxBirth = 2
  MaxCommits = 1
  None = None
SYMMETRY ProcSymmetry
INVARIANTS TypeOK NoDuplicate CommitAckJustified AckSound DirectoryStaysUsable
PROPERTIES AppendsImplementOneShot CommitsImplementOneShot
CHECK_DEADLOCK FALSE
