SPECIFICATION Spec
CONSTANTS
  Ids <- RowIds
  Settings <- MCSettings
  Queries <- MCQueries
  Whole = 10
  RRFK = 60
  Lanes = {"search", "searchVector"}
CHECK_DEADLOCK FALSE
INVARIANTS
  SameRanking
  SameScoreAsExhaustive
  DominanceKept
  OneSideAlone
