SPECIFICATION Spec
CONSTANTS
  Tasks = {h1, h2}
  SessionIds = {s1, s2}
  VTokens = {v1}
  RTokens = {r1, r2}
  NoToken = NoToken
  NewStatuses = {}
  VerificationEnabled = FALSE
SYMMETRY Symmetry
INVARIANT ResetTokenOnce
INVARIANT ResetEndsSessions
INVARIANT ResetVoidsTokens
INVARIANT NewestMailOnly
PROPERTY ImplementsOneTime
