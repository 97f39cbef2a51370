SPECIFICATION Spec
CONSTANTS
  Browsers = {b1, b2}
  TabsPerBrowser = 1
  Vaults = {v1, v2}
  Sessions = {s1, s2, s3}
  Requests = {r1}
  b1 = b1
  b2 = b2
  v1 = v1
  v2 = v2
  s1 = s1
  s2 = s2
  s3 = s3
  r1 = r1
  NoSession = NoSession
  NoVault = NoVault
  NoTab = NoTab
  Junk = Junk
  MaxGeneration = 2
  ResponsesMayBeLost = FALSE
SYMMETRY KeySymmetry
INVARIANTS TypeOK NoWrapUnderOldCredentials SessionsMatchCredentials FailureMeansUnchanged
