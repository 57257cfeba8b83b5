SPECIFICATION Spec
CONSTANTS
  Codes = {c1}
  Pairs = {n1, n2, n3}
  NoCode = NoCode
  NoPair = NoPair
  Tasks = {h1, h2}
  Kinds = {"authorize", "exchange", "refresh", "userinfo", "revokeall", "status", "rplogout"}
  Expiring = {"code", "access", "refresh"}
VIEW View
SYMMETRY Symmetry
INVARIANT OneSuccessor
INVARIANT OneUsableEnd
INVARIANT BarredGetsNothing
INVARIANT RevocationIsComplete
PROPERTY ImplementsOneTime
