SPECIFICATION Spec
CONSTANTS
  k1 = k1
  r1 = r1
  r2 = r2
  r3 = r3
  r4 = r4
  Keys = {k1}
  Requests = {r1, r2, r3, r4}
  NoKey = NoKey
  RedisUrl = TRUE
  MaxFailures = 2
  Window = 1
  BaseLock = 1
  MaxLock = 4
INVARIANT
  LockFollowsFailures
PROPERTIES
  LimitLocks
  LockIsProgressive
  LockEnds
