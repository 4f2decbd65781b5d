SPECIFICATION StatsSpec
CONSTANTS
  admin = admin
  operator = operator
  foreign = foreign
  org1 = org1
  org2 = org2
  b1 = b1
  b2 = b2
  b3 = b3
  m1 = m1
  m2 = m2
  Users = {admin, operator, foreign}
  Organizations = {org1, org2}
  Branches = {b1, b2, b3}
  Movements = {m1}
  Requests = {r1}
  Readers = {q1}
  NoBranch = NoBranch
  NoUser = NoUser
  NoMovement = NoMovement
  NoRow = NoRow
  UserOrg <- MCUserOrg
  UserBranch <- MCUserBranch
  BranchOrg <- MCBranchOrg
  InitialRoles <- MCInitialRoles
  Grants <- SameRole
  Offered <- MovementCalls
  Queries <- StatsQueries
INVARIANTS
  FiguresInScope
  FiguresAreWitnessed
PROPERTY
  LifecycleSpec
