CONSTANTS
  a1 = a1
  a2 = a2
  process = process
  url = url
  id1 = id1
  upper = upper
  lower = lower
  other = other
  one = one
  two = two
  unknown = unknown
  Alerts <- MCAlerts
  Scoped <- MCScoped
  Unscoped <- MCUnscoped
  DeviceIds <- MCDeviceIds
  Names <- MCNames
  HostOf <- MCHostOf
  Verdicts <- MCVerdicts
  Unknown = unknown
  MaxDevices = 2
  MaxCited = 3
  MaxRows = 3
  Excess = 1
  MaxAlertPages = 1
SYMMETRY Symmetry
SPECIFICATION Spec
INVARIANTS
  TypeOK
  CountIsOrderFree
  OneHostEach
  EverythingSaid
  CutIsTold
CHECK_DEADLOCK FALSE
