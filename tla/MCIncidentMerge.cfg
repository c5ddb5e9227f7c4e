CONSTANTS
  i1 = i1
  i2 = i2
  i3 = i3
  i4 = i4
  live = live
  update = update
  merge = merge
  Incidents <- MCIncidents
  Live = live
  Writers <- MCWriters
  Updates <- MCWriters
  Mergers <- MCMergers
  MaxRedirects = 2
  MaxArguments = 2
SPECIFICATION FairSpec
INVARIANTS
  TypeOK
  WalksAreTrue
  AstrayOnlyWhenOvertaken
  MergesAreTrue
PROPERTIES
  EveryOperationEnds
CHECK_DEADLOCK FALSE
