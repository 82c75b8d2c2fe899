SPECIFICATION FairSpec
CONSTANTS
  p1 = p1
  p2 = p2
  old = old
  Procs = {p1, p2, old}
  Nobody = Nobody
  FilesOf <- OldAndNew
  MaxStarts = 2
CHECK_DEADLOCK FALSE
INVARIANTS
  SchemaInOrder
  CheckStaysTrue
  UpMeansMigrated
PROPERTY
  StartIsDecided
