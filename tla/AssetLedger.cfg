SPECIFICATION Spec
CONSTANTS
  Did = {d1, d2}
  NoDid = NoDid
  Portfolio = {0, 1}
  Account = {a1}
  OldAgents = FALSE
  MaxSupply = 3
  MaxFundings = 2
INVARIANTS SupplyIsHeld HoldersMirrorChain BooksMatchHoldings
CHECK_DEADLOCK FALSE
