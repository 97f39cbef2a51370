SPECIFICATION JointSpec
CONSTANTS
  Tokens = {k1, k2}
  Secrets = {x1, x2}
  Phrases = {p1, p2}
  Links = {l1, l2}
  Sections = {s1}
  k1 = k1
  k2 = k2
  x1 = x1
  x2 = x2
  p1 = p1
  p2 = p2
  l1 = l1
  l2 = l2
  s1 = s1
  None = None
  Wrong = Wrong
  Overlap = 1
  VerificationRequired = TRUE
  ChangesItsMind = FALSE
  Owners = {x1, x2}
  Chests = {l1, l2}
  Papers = {s1}
  Fragments = {k1, k2}
  Passwords = {p1, p2}
  SecretPhrases <- PhraseValues
  WORDLIST <- WordValues
  PhraseWords = 2
  DrawWidth = 2
  KeyLength = 2
  Nobody = Nobody
  MaxVersions = 2
SYMMETRY SignInSymmetry
INVARIANTS NoSpentTokenOffered EnrolledSecretIsHeld SavedKitOpensAccount SecretsOpenTheVaults LinksOpenOneThing
