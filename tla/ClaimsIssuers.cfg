SPECIFICATION Spec
CONSTANTS
  Target = {d1}
  Issuer = {j1, j2}
  Kind = {k1}
  Scope = {x1}
  NoScope = NoScope
INVARIANT ClaimsMirrorChain
CHECK_DEADLOCK FALSE
