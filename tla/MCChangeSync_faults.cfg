SPECIFICATION Spec
CONSTANTS
  Tabs = {t1}
  Writers = {t1}
  Elsewhere = Elsewhere
  Vaults = {v1, v2}
  Directory = Directory
  NoVault = NoVault
  FirstVault = v1
  NoTx = NoTx
  t1 = t1
  v1 = v1
  v2 = v2
  OneAtATime = FALSE
  RequestsMayFail = TRUE
  KeysMayGo = TRUE
  MaxRevision = 1
  MaxDrops = 1
  MaxSwitches = 1
  MaxFetches = 3
INVARIANTS TypeOK SignalsFollowCommits
PROPERTIES OnlyLocksStrand
