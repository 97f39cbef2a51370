SPECIFICATION Spec
CONSTANTS
  Users = {a, b}
  Me = a
  Keys = {k1, k2}
  Filters = {None}
  Bootstrap = b
  None = None
  a = a
  b = b
  k1 = k1
  k2 = k2
  MaxPage = 1
  MaxActs = 2
  MaxWire = 2
  Overlap = 1
  Waits = TRUE
  InOrder = TRUE
  SelfErasure = FALSE
INVARIANTS ConsoleReachable ListIsCurrent OverviewIsCurrent
