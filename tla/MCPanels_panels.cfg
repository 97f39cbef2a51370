SPECIFICATION PanelsSpec
CONSTANTS
  Items = {i1, i2}
  Vaults = {v1, v2}
  Links = {l1, l2}
  Rows = {r1}
  Safes = {s1, s2}
  Words = {w1}
  i1 = i1
  i2 = i2
  v1 = v1
  v2 = v2
  l1 = l1
  l2 = l2
  r1 = r1
  s1 = s1
  s2 = s2
  w1 = w1
  MaxCalls = 2
  NoItem = NoItem
  NoLink = NoLink
  Unknown = Unknown
  Patient = TRUE
  AnswersInOrder = TRUE
  Seeds <- SeedValues
  MaxTyped = 2
  Blank = Blank
  Nothing = Nothing
  Unborn = Unborn
  Gone = Gone
  Waits = TRUE
  Unreadable = Unreadable
  Width = 16
  MinBytes = 1
  LOWER <- LowerValue
  UPPER <- UpperValue
  DIGITS <- DigitValue
  SYMBOLS <- SymbolValue
  Latin <- LatinValue
  MinLength = 5
  DrawBits = 6
SYMMETRY PanelsSymmetry
INVARIANTS ExposureIsShown ScreenShowsOneVault
PROPERTIES SavesOnlyWhatWasTyped
