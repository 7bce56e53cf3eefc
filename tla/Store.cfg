SPECIFICATION FairSpec
CONSTANTS
  c1 = c1
  c2 = c2
  e1 = e1
  e2 = e2
  small = small
  other = other
  big = big
  None = None
  Residue = Residue
  Client = {c1, c2}
  Event = {e1, e2}
  Version = {small, other, big}
  Big = {big}
  Views <- SomeViews
  Batches <- OneBatch
  Leftovers <- SomeLeftovers
  Chunks = 2
  MaxBusy = 1
  MaxFaults = 2
INVARIANTS TypeOK AcceptedIsStored CommitMeansWhole ArchiveIsProven ExpansionIsArchive
PROPERTIES Completes
CHECK_DEADLOCK FALSE
