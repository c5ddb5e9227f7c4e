CONSTANTS
  s1 = s1
  s2 = s2
  s3 = s3
  Syncs <- MCSyncs
  Overlap = FALSE
  MaxNow = 2
  MaxCrashes = 2
SPECIFICATION Spec
SYMMETRY MCSymmetry
INVARIANTS
  TypeOK
  FailureLeavesNothing
  MemoryFollowsFile
PROPERTIES
  GoodCopyKept
CHECK_DEADLOCK FALSE
