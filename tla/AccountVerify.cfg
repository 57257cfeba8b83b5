SPECIFICATION Spec
CONSTANTS
  Tasks = {h1, h2}
  SessionIds = {s1, s2}
  VTokens = {v1, v2}
  RTokens = {r1, r2}
  NoToken = NoToken
  NewStatuses = {"Suspended"}
  VerificationEnabled = TRUE
SYMMETRY Symmetry
INVARIANT VerifiedMayLogin
