SPECIFICATION Spec
CONSTANTS
  None = None
  Actors = {a1, a2}
  Keys = {k1, k2}
  Nonces = {n1}
  Tasks = {t1, t2}
  Ops = {"register", "add", "revoke", "status", "challenge", "authenticate", "me"}
SYMMETRY Symmetric
INVARIANT ChallengeOnce
INVARIANT SessionIsProved
INVARIANT RevocationComplete
INVARIANT StoppedActorRefused
PROPERTY RetiredIsLast
PROPERTY ImplementsOneTime
CHECK_DEADLOCK FALSE
