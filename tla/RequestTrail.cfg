SPECIFICATION PipelineSpec
CONSTANTS
  admin = admin
  manager = manager
  foreign = foreign
  org1 = org1
  org2 = org2
  Users = {admin, manager, foreign}
  Organizations = {org1, org2}
  Requests = {r1, r2}
  NoUser = NoUser
  NoEntry = NoEntry
  Seeded = Seeded
  Texts <- MCTexts
  Trimmed <- MCTrimmed
  Slugged <- MCSlugged
  InitialSlugs <- MCSlugs
  UserOrg <- MCUserOrg
  UserRoles <- MCUserRoles
  Administered = {admin}
  Offered <- EveryCall
INVARIANTS
  PipelineTypeOK
  TrailIsTrue
  TrailIsComplete
  CountersMatch
  NamesStayApart
