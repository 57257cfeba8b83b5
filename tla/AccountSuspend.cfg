SPECIFICATION Spec
CONSTANTS
  Tasks = {h1, h2}
  SessionIds = {s1}
  VTokens = {v1, v2}
  RTokens = {}
  NoToken = NoToken
  NewStatuses = {"Active", "Suspended", "Deleted"}
  VerificationEnabled = TRUE
VIEW View
SYMMETRY Symmetry
INVARIANT SuspendedGetsNoSession
