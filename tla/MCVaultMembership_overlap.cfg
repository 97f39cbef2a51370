SPECIFICATION Spec
CONSTANTS
  Users = {u1, u2, u3}
  Vaults = {v1, v2, v3}
  Invites = {i1, i2}
  Requests = {r1, r2}
  u1 = u1
  u2 = u2
  u3 = u3
  v1 = v1
  v2 = v2
  v3 = v3
  i1 = i1
  i2 = i2
  r1 = r1
  r2 = r2
  NoUser = NoUser
  NoVault = NoVault
  NoInvite = NoInvite
  MaxMembersPerVault = 2
  MaxVaultsPerUser = 2
  MaxActiveInvitesPerVault = 2
SYMMETRY RowSymmetry
\* A finite pool of ids: the system stops when they are spent.
CHECK_DEADLOCK FALSE
INVARIANTS TypeOK EveryVaultHasItsOwner
PROPERTIES SettledInviteStaysSettled OneMemberPerClaim
