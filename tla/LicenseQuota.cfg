SPECIFICATION LicenseSpec
CONSTANTS
  k1 = k1
  k2 = k2
  tr = tr
  NoEnvKey = NoEnvKey
  Key = {k1, tr}
  Generated = {k1}
  TrialKey = tr
  EnvKey = NoEnvKey
  Guess <- MCGuess
  Trial <- MCTrial
  Offer <- MCOffer
  MaxLimit = 2
  Grace = 2
  MaxDay = 2
  Admin = {a1}
  Period = {1}
  Graces = {}
  MaxOps = 3
  Creation = {r1, r2}
  MaxDevices = 4
  DiskMayFail = FALSE
  MaxActivations = 1
  MaxOutages = 0
  MaxRestarts = 0
INVARIANTS
  OvershootBounded
CHECK_DEADLOCK FALSE
