SPECIFICATION Spec
CONSTANTS
  Browsers = {b1}
  TabsPerBrowser = 1
  Vaults = {v1, v2}
  Sessions = {s1, s2}
  Requests = {r1, r2}
  b1 = b1
  v1 = v1
  v2 = v2
  s1 = s1
  s2 = s2
  r1 = r1
  r2 = r2
  NoSession = NoSession
  NoVault = NoVault
  NoTab = NoTab
  Junk = Junk
  MaxGeneration = 3
  ResponsesMayBeLost = TRUE
SYMMETRY KeySymmetry
PROPERTIES ChangeStrandsOnlyNewcomers
