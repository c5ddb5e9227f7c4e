CONSTANTS
  c1 = c1
  c2 = c2
  c3 = c3
  nobody = nobody
  Callers <- MCCallers
  Checks = 2
  Concurrency = 1
  Nobody = nobody
  MaxOutages = 1
SPECIFICATION FairSpec
INVARIANTS
  TypeOK
  OutagesAreNotKept
  OneProbe
PROPERTIES
  EveryCallerLeaves
CHECK_DEADLOCK FALSE
