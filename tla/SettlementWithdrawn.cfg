SPECIFICATION Spec
CONSTANTS
  i1 = i1  i2 = i2  d1 = d1  d2 = d2  m1 = m1  a1 = a1  a2 = a2
  OffChain = OffChain  NoNumber = NoNumber
  Setups <- WithdrawnSetups
  Portfolio = {0, 1}
INVARIANT AffirmationsMirrorChain
CHECK_DEADLOCK FALSE
