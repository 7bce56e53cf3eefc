SPECIFICATION FairSpec
CONSTANTS
  Proc = {p1}
  Source = {s1, s2}
  Digest = {d1}
  MaxBirth = 1
  MaxCommits = 0
  None = None
PROPERTIES UncertaintyStops AppendResolves CommitResolves
