SPECIFICATION Spec
CONSTANTS
  i1 = i1
  r1 = r1
  r2 = r2
  r3 = r3
  Instances = {i1}
  Requests = {r1, r2, r3}
  Limit = 2
  Window = 2
  WithRedis = TRUE
  Nowhere = Nowhere
INVARIANT
  AdmittedBounded
PROPERTIES
  RefusedOverLimit
  CounterResets
