SPECIFICATION TelemetrySpec
CONSTANTS
  Device = {d1, d2}
  Peer = {}
  Neighbour = {}
  Name = {nm1, nm2}
  BmpDevice = {}
  NoKey = NoKey
  Target <- MCTarget
  Writer <- MCWriter
  KeysOf <- MCKeysOf
  MaxAlerts = 4
  RetainLimit = 2
  DiskMayFail = FALSE
  MaxChecks = 2
  MaxSyslog = 1
  MaxAcks = 0
  MaxBoots = 0
  PollSlots = 1
  MaxFlaps = 2
  MaxEdits = 1
PROPERTIES
  OfflineIsReported
CHECK_DEADLOCK FALSE
