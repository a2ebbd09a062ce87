SPECIFICATION DetectorSpec
CONSTANTS
  d1 = d1
  t1 = t1
  NoKey = NoKey
  Device = {d1}
  Target = {t1}
  Writer <- MCWriter
  KeysOf <- MCKeysOf
  MaxAlerts = 3
  RetainLimit = 2
  DiskMayFail = FALSE
  MaxChecks = 1
  MaxSyslog = 0
  MaxAcks = 0
  MaxBoots = 0
INVARIANTS
  OneAlertPerCondition
CHECK_DEADLOCK FALSE
