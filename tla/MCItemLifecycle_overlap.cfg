SPECIFICATION Spec
CONSTANTS
  Items = {i1}
  Links = {l1, l2}
  Requests = {r1, r2}
  i1 = i1
  l1 = l1
  l2 = l2
  r1 = r1
  r2 = r2
  NoItem = NoItem
  NoLink = NoLink
  Never = Never
  MaxItemsPerVault = 1
  MaxActiveShareLinksPerItem = 1
  TrashRetention = 0
  SharingPurgeGrace = 0
  ShareLinkDefaultTTL = 1
  ShareLinkMaxTTL = 1
  Lifetimes = {0, 2}
  MaxViews = 2
  MaxTime = 2
SYMMETRY ItemSymmetry
INVARIANTS TypeOK EveryViewIsCounted LinkCapOvershoot
PROPERTIES DeadLinkStaysDead RetentionIsHonoured
