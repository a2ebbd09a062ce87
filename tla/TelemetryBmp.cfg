SPECIFICATION TelemetrySpec
CONSTANTS
  Device = {d1}
  Peer = {p1}
  Neighbour = {}
  Name = {nm1}
  BmpDevice = {d1}
  NoKey = NoKey
  Target <- MCTarget
  Writer <- MCWriter
  KeysOf <- MCKeysOf
  MaxAlerts = 6
  RetainLimit = 2
  DiskMayFail = FALSE
  MaxChecks = 2
  MaxSyslog = 0
  MaxAcks = 1
  MaxBoots = 0
  PollSlots = 1
  MaxFlaps = 3
  MaxEdits = 0
PROPERTIES
  DetectorSpec
  SessionAlertsResolve
  PrefixAlertsResolve
CHECK_DEADLOCK FALSE
