CONSTANTS
  c1 = c1
  c2 = c2
  sync = sync
  outside = outside
  inside = inside
  Callers <- MCCallers
  Downloaders <- MCDownloaders
  Addresses <- MCAddresses
  Public <- MCPublic
  Windows <- MCWindows
  CacheSeconds = 2
  Allowance <- MCAllowance
  LastMoment = 3
  DayLength = 2
SYMMETRY Symmetry
SPECIFICATION CheckSpec
INVARIANTS
  CheckTypeOK
  RecentAnswers
  QuotaAsStated
