SPECIFICATION FairSpec
CONSTANTS
  Vaults = {home, v1}
  Home = home
  Damaged = {}
  Windows = {1, 2}
  home = home
  v1 = v1
  NoVault = NoVault
  MaxFetched = 1
  LateNews = FALSE
INVARIANTS ScreenMatchesStore
PROPERTIES LockHolds IdleTabLocks EveryVaultOpens
