SPECIFICATION TelemetrySpec
CONSTANTS
  Device = {d1}
  Peer = {p1}
  Neighbour = {}
  Name = {nm1}
  BmpDevice = {d1}
  NoKey = NoKey
  Target <- MCTarget
  Writer <- MCWriter
  KeysOf <- MCKeysOf
  MaxAlerts = 8
  RetainLimit = 2
  DiskMayFail = FALSE
  MaxChecks = 2
  MaxSyslog = 0
  MaxAcks = 0
  MaxBoots = 0
  PollSlots = 1
  MaxFlaps = 4
  MaxEdits = 0
PROPERTIES
  EveryDownIsReported
CHECK_DEADLOCK FALSE
