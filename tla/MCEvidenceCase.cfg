CONSTANTS
  a1 = a1
  a2 = a2
  process = process
  url = url
  id1 = id1
  upper = upper
  lower = lower
  other = other
  one = one
  two = two
  unknown = unknown
  Alerts <- MCAlerts
  Scoped <- MCScoped
  Unscoped <- MCUnscoped
  DeviceIds <- MCDeviceIds
  Names <- MCNames
  HostOf <- MCHostOf
  Verdicts <- MCVerdicts
  Unknown = unknown
  Excess = 1
  MaxAlertPages = 1
  MaxDevices = 2
  MaxCited = 3
  MaxRows = 3
SPECIFICATION Spec
INVARIANT
  SeveralAreSeveral
CHECK_DEADLOCK FALSE
