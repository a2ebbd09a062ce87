SPECIFICATION LicenseSpec
CONSTANTS
  k1 = k1
  k2 = k2
  tr = tr
  NoEnvKey = NoEnvKey
  Key = {k1, k2, tr}
  Generated = {k1}
  TrialKey = tr
  EnvKey = NoEnvKey
  Guess <- MCGuess
  Trial <- MCTrial
  Offer <- MCOffer
  MaxLimit = 2
  Grace = 2
  MaxDay = 2
  Admin = {a1}
  Period = {1}
  Graces = {1}
  MaxOps = 2
  Creation = {}
  MaxDevices = 2
  DiskMayFail = TRUE
  MaxActivations = 1
  MaxOutages = 1
  MaxRestarts = 1
PROPERTIES
  SuspensionBlocks
CHECK_DEADLOCK FALSE
