CONSTANTS
  Total = 5
  Tops <- MCTops
  PageSize = 2
  MaxPages = 2
SPECIFICATION FairSpec
INVARIANTS
  TypeOK
  SweepIsExact
  TruncatedIsTrue
PROPERTIES
  SweepEnds
CHECK_DEADLOCK FALSE
