SPECIFICATION FairSpec
CONSTANTS
  Tabs = {t1}
  Writers = {}
  Elsewhere = Elsewhere
  Vaults = {v1}
  Directory = Directory
  NoVault = NoVault
  FirstVault = v1
  NoTx = NoTx
  t1 = t1
  v1 = v1
  OneAtATime = TRUE
  RequestsMayFail = FALSE
  KeysMayGo = FALSE
  MaxRevision = 2
  MaxDrops = 2
  MaxSwitches = 0
  MaxFetches = 4
INVARIANTS SettledItemsAreFresh SettledDirectoryIsFresh EverySignalIsFetched
PROPERTIES PromiseKept
