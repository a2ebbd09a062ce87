SPECIFICATION DetectorSpec
CONSTANTS
  d1 = d1
  t1 = t1
  NoKey = NoKey
  Device = {d1}
  Target = {t1}
  Writer <- MCWriter
  KeysOf <- MCKeysOf
  MaxAlerts = 3
  RetainLimit = 2
  DiskMayFail = TRUE
  MaxChecks = 1
  MaxSyslog = 1
  MaxAcks = 1
  MaxBoots = 1
INVARIANTS
  DetectorTypeOK
  OpenBoundedByWriters
  HitStaysValid
PROPERTIES
  ResolvedIsFinal
  RestartKeepsNewest
  LifecycleHolds
CHECK_DEADLOCK FALSE
