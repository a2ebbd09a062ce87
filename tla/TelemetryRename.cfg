SPECIFICATION TelemetrySpec
CONSTANTS
  Device = {d1}
  Peer = {p1}
  Neighbour = {}
  Name = {nm1,nm2}
  BmpDevice = {}
  NoKey = NoKey
  Target <- MCTarget
  Writer <- MCWriter
  KeysOf <- MCKeysOf
  MaxAlerts = 3
  RetainLimit = 2
  DiskMayFail = FALSE
  MaxChecks = 2
  MaxSyslog = 0
  MaxAcks = 0
  MaxBoots = 0
  PollSlots = 1
  MaxFlaps = 2
  MaxEdits = 1
PROPERTIES
  OfflineAlertsResolve
CHECK_DEADLOCK FALSE
