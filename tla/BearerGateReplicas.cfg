SPECIFICATION Spec
CONSTANTS
  u1 = u1
  t1 = t1
  t2 = t2
  Users = {u1}
  Tokens = {t1}
  Owner <- OneOwner
  Replicas = {p1, p2}
  Requests = {r1}
  Revokers = {v1}
  NewStatuses = {"Active", "Suspended"}
  Ttl = 1
  MaxLag = 1
  MaxNow = 3
  MaxEntries = 2
SYMMETRY Symmetry
INVARIANT TypeOK
INVARIANT StaleBound
INVARIANT SuspensionHolds
