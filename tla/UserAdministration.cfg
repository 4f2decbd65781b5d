SPECIFICATION Spec
CONSTANTS
  ana = ana
  ben = ben
  mia = mia
  oda = oda
  new = new
  o1 = o1
  o2 = o2
  eA = eA
  eB = eB
  eM = eM
  eO = eO
  eN = eN
  r1 = r1
  r2 = r2
  Accounts = {ana, ben, mia, oda, new}
  Organizations = {o1, o2}
  Emails = {eA, eB, eM, eO, eN}
  Requests = {r1, r2}
  Absent = Absent
  Keep = Keep
  InitialAccounts <- MCInitialAccounts
  InitialRoles <- MCInitialRoles
  Offered <- DirectoryCalls
SYMMETRY RequestSymmetry
INVARIANTS
  DirectoryTypeOK
  ChangedByAdmins
  RolelessOnlyIfCut
