SPECIFICATION Spec
CONSTANTS
  u1 = u1
  t1 = t1
  t2 = t2
  Users = {u1}
  Tokens = {t1, t2}
  Owner <- TwoTokens
  Replicas = {p1}
  Requests = {r1, r2}
  Revokers = {v1}
  NewStatuses = {}
  Ttl = 1
  MaxLag = 1
  MaxNow = 2
  MaxEntries = 1
SYMMETRY Symmetry
INVARIANT CacheBounded
