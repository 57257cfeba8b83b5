SPECIFICATION RateSpec
CONSTANTS
  Replicas = {p1, p2}
  Requests = {q1, q2}
  Max = 1
  Period = 2
  Block = 2
  Idling = 2
  Tries = 2
  MaxTime = 3
  MaxFaults = 1
  Shared = Shared
  None = None
SYMMETRY Symmetric
INVARIANT LocalBound
INVARIANT SharedBound
INVARIANT BlockHolds
PROPERTY OneBlockAtATime
CHECK_DEADLOCK FALSE
