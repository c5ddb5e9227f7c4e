CONSTANTS
  s1 = s1
  s2 = s2
  s3 = s3
  Syncs <- MCSyncs
  Overlap = TRUE
  MaxNow = 2
  MaxCrashes = 2
SPECIFICATION Spec
SYMMETRY MCSymmetry
INVARIANT
  AnswersFromItsFile
CHECK_DEADLOCK FALSE
