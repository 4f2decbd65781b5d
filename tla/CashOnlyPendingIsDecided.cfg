SPECIFICATION Spec
CONSTANTS
  admin = admin
  manager = manager
  operator = operator
  foreign = foreign
  org1 = org1
  org2 = org2
  b1 = b1
  b2 = b2
  b3 = b3
  m1 = m1
  m2 = m2
  r1 = r1
  r2 = r2
  Users = {admin, manager, operator, foreign}
  Organizations = {org1, org2}
  Branches = {b1, b2, b3}
  Movements = {m1}
  Requests = {r1, r2}
  NoBranch = NoBranch
  NoUser = NoUser
  NoMovement = NoMovement
  NoRow = NoRow
  UserOrg <- MCUserOrg
  UserBranch <- MCUserBranch
  BranchOrg <- MCBranchOrg
  InitialRoles <- MCInitialRoles
  Grants <- Promotions
  Offered <- DecisionCalls
PROPERTY
  OnlyPendingIsDecided
