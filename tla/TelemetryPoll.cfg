SPECIFICATION TelemetrySpec
CONSTANTS
  Device = {d1}
  Peer = {p1}
  Neighbour = {n1}
  Name = {nm1}
  BmpDevice = {}
  NoKey = NoKey
  Target <- MCTarget
  Writer <- MCWriter
  KeysOf <- MCKeysOf
  MaxAlerts = 5
  RetainLimit = 2
  DiskMayFail = TRUE
  MaxChecks = 2
  MaxSyslog = 0
  MaxAcks = 1
  MaxBoots = 1
  PollSlots = 1
  MaxFlaps = 3
  MaxEdits = 0
INVARIANTS
  TelemetryTypeOK
  CacheMatchesAlerts
PROPERTIES
  NeighbourAlertsResolve
  PolledDownIsReported
  OfflineAlertsResolve
CHECK_DEADLOCK FALSE
