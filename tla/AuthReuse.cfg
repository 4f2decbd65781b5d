SPECIFICATION Spec
CONSTANTS
  ada = ada
  bob = bob
  p1 = p1
  p2 = p2
  s1 = s1
  s2 = s2
  s3 = s3
  t1 = t1
  r1 = r1
  r2 = r2
  Users = {ada}
  Passwords = {p1, p2}
  Sessions = {s1, s2, s3}
  ResetTokens = {t1}
  Requests = {r1}
  NoPassword = NoPassword
  NoSession = NoSession
  NoUser = NoUser
  NoCall = NoCall
  Unused = Unused
  Deleted = Deleted
  Registered = {ada}
  InitialPassword <- MCInitialPassword
  Offered <- RotationCalls
  Administered = {}
  MaxUpdates = 1
PROPERTY
  ReuseRevokesSessions
