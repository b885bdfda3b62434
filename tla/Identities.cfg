SPECIFICATION Spec
CONSTANTS
  Did = {d1, d2}
  NoDid = NoDid
  Key = {k1, k2, k3}
  NoKey = NoKey
  Perms = {p1, p2}
  Whole = Whole
  AuthId = {a1}
INVARIANTS KeysMirrorChain PermissionsMirrorChain DefaultPortfolioKnown LinksMirrorChain
CHECK_DEADLOCK FALSE
